------------------------------ MODULE Accounts ------------------------------
(***************************************************************************)
(* Users: Register and Create insert the user and its membership of the    *)
(* group "users" in one transaction of the unit of work; UpdateMe and      *)
(* Update change the email and Delete sets deleted_at, each in a statement *)
(* of its own.  The UNIQUE constraint of users.email covers deleted rows,  *)
(* and makes an insert wait for a transaction that has inserted the same   *)
(* email.  The admin's calls write to the audit log afterwards.            *)
(*                                                                         *)
(* A user is named by the call that creates it.                            *)
(***************************************************************************)
EXTENDS Naturals, FiniteSets

CONSTANTS
  Signup,   \* calls of Register and Create
  Edit,     \* calls of UpdateMe and Update that give an email
  Removal,  \* calls of Delete
  Email, Lower, \* emails as given, and Email -> its lower case
  Nobody,       \* no email
  Public,   \* the calls of Register among Signup and of UpdateMe among Edit
  EmailOf,  \* Signup and Edit -> Email
  TargetOf, \* Edit and Removal -> Signup
  CallsFail

Calls == Signup \union Edit \union Removal

ASSUME AccountAssumption ==
  /\ Lower \in [Email -> Email]
  /\ \A e \in Email : Lower[Lower[e]] = Lower[e]
  /\ Nobody \notin Email
  /\ Public \subseteq Calls
  /\ EmailOf \in [Signup \union Edit -> Email]
  /\ TargetOf \in [Edit \union Removal -> Signup]
  /\ Signup \intersect Edit = {}
  /\ Signup \intersect Removal = {}
  /\ Edit \intersect Removal = {}
  /\ CallsFail \in BOOLEAN

VARIABLES
  row,   \* Signup -> the row of users: none, tx (not committed), live, deleted
  email, \* Signup -> its email
  group, \* the users with a row in user_groups, committed or not
  audit, \* the calls with a row in audit_log
  pc,    \* call -> where it is
  lost   \* history: signups whose COMMIT worked and was reported as an error

vars == <<row, email, group, audit, pc, lost>>

Init == /\ row = [c \in Signup |-> "none"]
        /\ email = [c \in Signup |-> Nobody]
        /\ group = {}
        /\ audit = {}
        /\ pc = [c \in Calls |-> "idle"]
        /\ lost = {}

Goto(c, p) == pc' = [pc EXCEPT ![c] = p]

Committed(x) == row[x] \in {"live", "deleted"}

\* Mutant of Taken: a partial index, WHERE deleted_at IS NULL.
TakenAlive(e, x) == {y \in Signup \ {x} : row[y] = "live" /\ email[y] = e}

\* Rows other than x's that make the UNIQUE constraint refuse e, or wait.
Taken(e, x) == {y \in Signup \ {x} : Committed(y) /\ email[y] = e}
Pending(e, x) == {y \in Signup \ {x} : row[y] = "tx" /\ email[y] = e}

-----------------------------------------------------------------------------
(* Register and Create.                                                    *)

Insert(c) ==
  LET e == Lower[EmailOf[c]] IN
  /\ pc[c] = "idle"
  /\ Pending(e, c) = {}
  /\ \/ /\ Taken(e, c) = {}
        /\ row' = [row EXCEPT ![c] = "tx"]
        /\ email' = [email EXCEPT ![c] = e]
        /\ Goto(c, "inserted")
     \/ Taken(e, c) # {} /\ Goto(c, "exists") /\ UNCHANGED <<row, email>>
  /\ UNCHANGED <<group, audit, lost>>

AddUserToGroup(c) ==
  /\ pc[c] = "inserted"
  /\ group' = group \union {c}
  /\ Goto(c, "joined")
  /\ UNCHANGED <<row, email, audit, lost>>

\* Mutant of Abort: the unit of work returns without a rollback.
AbortOpen(c) ==
  /\ CallsFail
  /\ pc[c] \in {"idle", "inserted", "joined"}
  /\ Goto(c, "failed")
  /\ UNCHANGED <<row, email, group, audit, lost>>

\* Any error up to the COMMIT, or the end of the connection: a rollback.
Abort(c) ==
  /\ CallsFail
  /\ pc[c] \in {"idle", "inserted", "joined"}
  /\ row' = [row EXCEPT ![c] = "none"]
  /\ email' = [email EXCEPT ![c] = Nobody]
  /\ group' = group \ {c}
  /\ Goto(c, "failed")
  /\ UNCHANGED <<audit, lost>>

Commit(c) ==
  /\ pc[c] = "joined"
  /\ row' = [row EXCEPT ![c] = "live"]
  /\ \/ Goto(c, "committed") /\ UNCHANGED lost
     \/ CallsFail /\ Goto(c, "failed") /\ lost' = lost \union {c}
  /\ UNCHANGED <<email, group, audit>>

\* Mutant of Finish: Create reports that its entry was not logged.
FinishStrict(c) ==
  /\ pc[c] = "committed"
  /\ \/ Goto(c, "ok") /\ audit' = IF c \in Public THEN audit ELSE audit \union {c}
     \/ /\ CallsFail
        /\ Goto(c, IF c \in Public THEN "unready" ELSE "failed")
        /\ UNCHANGED audit
  /\ UNCHANGED <<row, email, group, lost>>

\* Register reads the groups and makes the tokens, and answers with an error
\* if it cannot; Create logs, if it can.
Finish(c) ==
  /\ pc[c] = "committed"
  /\ \/ c \in Public /\ Goto(c, "ok") /\ UNCHANGED audit
     \/ c \in Public /\ CallsFail /\ Goto(c, "unready") /\ UNCHANGED audit
     \/ c \notin Public /\ Goto(c, "ok") /\ audit' = audit \union {c}
     \/ c \notin Public /\ CallsFail /\ Goto(c, "ok") /\ UNCHANGED audit
  /\ UNCHANGED <<row, email, group, lost>>

-----------------------------------------------------------------------------
(* UpdateMe and Update, and Delete.                                        *)

\* UpdateMe puts the email in lower case; Update hands it on as it is.
NewEmail(d) == IF d \in Public THEN Lower[EmailOf[d]] ELSE EmailOf[d]

\* Mutant of Update: the table has no CHECK of the case.
UpdateAsGiven(d) ==
  LET x == TargetOf[d]  e == NewEmail(d) IN
  /\ pc[d] = "idle"
  /\ row[x] = "live"
  /\ Pending(e, x) = {}
  /\ Taken(e, x) = {}
  /\ email' = [email EXCEPT ![x] = e]
  /\ Goto(d, IF d \in Public THEN "ok" ELSE "done")
  /\ UNCHANGED <<row, group, audit, lost>>

\* The UPDATE: the CHECK wants lower case.
Update(d) ==
  LET x == TargetOf[d]  e == NewEmail(d)  set == [email EXCEPT ![x] = e] IN
  /\ pc[d] = "idle"
  /\ row[x] = "live"
  /\ Lower[e] = e
  /\ Pending(e, x) = {}
  /\ Taken(e, x) = {}
  /\ email' = set
  /\ \/ Goto(d, IF d \in Public THEN "ok" ELSE "done")
     \/ CallsFail /\ Goto(d, "failed")
  /\ UNCHANGED <<row, group, audit, lost>>

\* Only the absence of the user is told apart from other errors.
UpdateRefused(d) ==
  LET x == TargetOf[d]  e == NewEmail(d) IN
  /\ pc[d] = "idle"
  /\ \/ row[x] # "live" /\ Goto(d, "notFound")
     \/ row[x] = "live" /\ Lower[e] # e /\ Goto(d, "failed")
     \/ /\ row[x] = "live" /\ Pending(e, x) = {} /\ Taken(e, x) # {}
        /\ Goto(d, "failed")
     \/ CallsFail /\ Goto(d, "failed")
  /\ UNCHANGED <<row, email, group, audit, lost>>

\* Mutant of Delete: the UPDATE is not limited to deleted_at IS NULL.
DeleteAgain(d) ==
  LET x == TargetOf[d] IN
  /\ pc[d] = "idle"
  /\ Committed(x)
  /\ row' = [row EXCEPT ![x] = "deleted"]
  /\ Goto(d, "done")
  /\ UNCHANGED <<email, group, audit, lost>>

Delete(d) ==
  LET x == TargetOf[d] IN
  /\ pc[d] = "idle"
  /\ row[x] = "live"
  /\ row' = [row EXCEPT ![x] = "deleted"]
  /\ Goto(d, "done") \/ (CallsFail /\ Goto(d, "failed"))
  /\ UNCHANGED <<email, group, audit, lost>>

\* Mutant of DeleteRefused: RowsAffected is not looked at.
DeleteUnchecked(d) ==
  /\ pc[d] = "idle"
  /\ row[TargetOf[d]] # "live"
  /\ Goto(d, "done")
  /\ UNCHANGED <<row, email, group, audit, lost>>

DeleteRefused(d) ==
  /\ pc[d] = "idle"
  /\ \/ row[TargetOf[d]] # "live" /\ Goto(d, "notFound")
     \/ CallsFail /\ Goto(d, "failed")
  /\ UNCHANGED <<row, email, group, audit, lost>>

\* The audit entry, whose failure nobody hears of.
Log(d) ==
  /\ pc[d] = "done"
  /\ \/ audit' = audit \union {d}
     \/ CallsFail /\ UNCHANGED audit
  /\ Goto(d, "ok")
  /\ UNCHANGED <<row, email, group, lost>>

SignupStep(c) == Insert(c) \/ AddUserToGroup(c) \/ Commit(c) \/ Finish(c)

Next == \/ \E c \in Signup : SignupStep(c) \/ Abort(c)
        \/ \E d \in Edit : Update(d) \/ UpdateRefused(d) \/ Log(d)
        \/ \E d \in Removal : Delete(d) \/ DeleteRefused(d) \/ Log(d)

Spec == Init /\ [][Next]_vars

\* A handler goes on when the database answers it.  No error is taken for
\* granted: a signup that waits for another is not helped by a timeout.
FairSpec == Spec /\ \A c \in Signup : WF_vars(SignupStep(c))

-----------------------------------------------------------------------------
TypeOK ==
  /\ row \in [Signup -> {"none", "tx", "live", "deleted"}]
  /\ email \in [Signup -> Email \union {Nobody}]
  /\ group \subseteq Signup
  /\ audit \subseteq Calls
  /\ pc \in [Calls -> {"idle", "inserted", "joined", "committed", "done", "ok",
                       "exists", "notFound", "failed", "unready"}]
  /\ lost \subseteq Signup

\* The transactions, the updates and the soft deletes together are a Directory:
\* a user appears with its membership at once, and no email ever belongs to two
\* users, deleted ones included, however the calls interleave and fail.
Dir == INSTANCE Directory WITH
         User <- Signup,
         Address <- Email,
         address <- [c \in Signup |-> IF Committed(c) THEN email[c] ELSE Nobody],
         left <- {c \in Signup : row[c] = "deleted"},
         members <- {c \in group : Committed(c)}

IsDirectory == Dir!Spec

\* What a signup is told is true: success and "already exists" always, and an
\* error leaves no row behind, committed or not, unless the answer to the COMMIT
\* was lost or Register, never Create, failed to make the tokens after it.
AnswersAreHonest ==
  \A c \in Signup :
    /\ pc[c] = "ok" => Committed(c)
    /\ pc[c] = "exists" => row[c] = "none"
    /\ pc[c] = "failed" /\ row[c] # "none" => c \in lost
    /\ pc[c] = "unready" => Committed(c) /\ c \in Public

\* No two users, deleted ones included, have one email in two spellings: signups
\* and UpdateMe put it in lower case, and an Update that does not is refused.
OneSpelling ==
  \A x, y \in Signup :
    Committed(x) /\ Committed(y) /\ Lower[email[x]] = Lower[email[y]] => x = y

\* Of all the calls that delete a user one is acknowledged.
OneDeletes ==
  \A d, f \in Removal :
    TargetOf[d] = TargetOf[f] /\ {pc[d], pc[f]} \subseteq {"done", "ok"} => d = f

\* The audit log reports no creation and no deletion that has not happened.
AuditIsTrue ==
  /\ \A c \in audit \intersect Signup : Committed(c)
  /\ \A d \in audit \intersect Removal : row[TargetOf[d]] = "deleted"

\* Every signup is answered, although inserts of one email wait for each other.
SignupsAnswered == \A c \in Signup : <>(pc[c] \in {"ok", "exists", "failed", "unready"})

=============================================================================
