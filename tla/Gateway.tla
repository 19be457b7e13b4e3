-------------------------------- MODULE Gateway --------------------------------
(***************************************************************************)
(* A call of a protected route on its way through registerRoutes: the auth *)
(* middleware, the idempotency middleware, RequireRole on the routes of    *)
(* admins, the controller, its service and the error handler.  A client    *)
(* repeats a call with the same Idempotency-Key, with the same token or    *)
(* another of the user, at the same instance or another.                   *)
(*                                                                         *)
(* Composed of what Idempotency and Sessions promise: the lock of a key    *)
(* and the saved responses are common to all instances, revoked tokens are *)
(* known to the instance that revoked them.  The handlers' calls of the    *)
(* database may fail; those of the idempotency middleware, which its own   *)
(* module has, do not.  An instance may end and start again at any moment: *)
(* its memory and its calls are gone, what the database has stays.  All    *)
(* calls are of one user.                                                  *)
(***************************************************************************)
CONSTANTS
  Call, Inst, Tok,
  Claims,   \* tokens that claim the role "admin"
  Header,   \* values of Idempotency-Key
  None,
  CallsFail \* whether a handler's call of the database may fail

Route == {"logout", "password", "create", "update"}
AdminRoute == {"create"}

\* Errors by the name they have in the code, and their HTTP status.
Status == [unauthorized |-> 401, invalidCredentials |-> 401, forbidden |-> 403,
           alreadyExists |-> 409, validationFailed |-> 422, internal |-> 500]
\* A call that its instance was carrying out when it ended gets no status.
Failure == DOMAIN Status \union {"lost"}

ASSUME GatewayAssumption ==
  /\ None \notin Call \union Header \union Failure
  /\ Call \intersect Failure = {}
  /\ Claims \subseteq Tok
  /\ CallsFail \in BOOLEAN

VARIABLES
  pc,     \* Call -> where it is
  req,    \* Call -> its route, header, token and instance
  lock,   \* Header -> the call that holds its advisory lock
  saved,  \* Route -> Header -> the call whose response is stored
  memory, \* Inst -> the tokens it has revoked
  spent,  \* the old password once it is replaced, the email once it is taken
  ran,    \* calls that took effect
  forgot, \* history: logouts that took effect before their instance's last end
  known,  \* history: a logout -> those that had run, and were not forgotten,
          \* when it was authenticated
  answer  \* Call -> None, an error, or the call whose response it got

vars == <<pc, req, lock, saved, memory, spent, ran, forgot, known, answer>>

Request == [route: Route, header: Header \union {None}, tok: Tok, inst: Inst]

Init == /\ pc = [c \in Call |-> "new"]
        /\ req = [c \in Call |-> None]
        /\ lock = [h \in Header |-> None]
        /\ saved = [p \in Route |-> [h \in Header |-> None]]
        /\ memory = [i \in Inst |-> {}]
        /\ spent = {}
        /\ ran = {}
        /\ forgot = {}
        /\ known = [c \in Call |-> {}]
        /\ answer = [c \in Call |-> None]

Logouts == {c \in ran : req[c].route = "logout"}
Keyed(c) == req[c].header # None
Goto(c, p) == pc' = [pc EXCEPT ![c] = p]
Held(c) == {h \in Header : lock[h] = c}

\* The call returns; the end of its transaction frees the lock.
Answer(c, a) == /\ Goto(c, "done")
                /\ answer' = [answer EXCEPT ![c] = a]
                /\ lock' = [h \in Header |-> IF h \in Held(c) THEN None ELSE lock[h]]

-----------------------------------------------------------------------------
(* The middlewares.                                                        *)

\* Mutant of Authenticate: the memory of revoked tokens is not asked.
AuthenticateAll(c) ==
  /\ pc[c] = "new"
  /\ \E q \in Request :
       /\ req' = [req EXCEPT ![c] = q]
       /\ Goto(c, "authed") /\ UNCHANGED <<lock, answer>>
       /\ known' = [known EXCEPT ![c] = IF q.route = "logout" THEN Logouts \ forgot ELSE {}]
  /\ UNCHANGED <<saved, memory, spent, ran, forgot>>

\* auth.Middleware, once the token has been found valid.
Authenticate(c) ==
  /\ pc[c] = "new"
  /\ \E q \in Request :
       /\ req' = [req EXCEPT ![c] = q]
       /\ \/ q.tok \in memory[q.inst] /\ Answer(c, "unauthorized")
          \/ q.tok \notin memory[q.inst] /\ Goto(c, "authed") /\ UNCHANGED <<lock, answer>>
       /\ known' = [known EXCEPT ![c] = IF q.route = "logout" THEN Logouts \ forgot ELSE {}]
  /\ UNCHANGED <<saved, memory, spent, ran, forgot>>

\* Mutant of Lock: no lock is taken.
LockNothing(c) ==
  /\ pc[c] = "authed"
  /\ Goto(c, IF Keyed(c) THEN "locked" ELSE "inside")
  /\ UNCHANGED <<req, lock, saved, memory, spent, ran, forgot, known, answer>>

\* The idempotency middleware, in which a call without the header passes
\* through and the others wait for the lock of the header's value.
Lock(c) ==
  /\ pc[c] = "authed"
  /\ \/ ~Keyed(c) /\ Goto(c, "inside") /\ UNCHANGED lock
     \/ /\ Keyed(c)
        /\ lock[req[c].header] = None
        /\ lock' = [lock EXCEPT ![req[c].header] = c]
        /\ Goto(c, "locked")
  /\ UNCHANGED <<req, saved, memory, spent, ran, forgot, known, answer>>

Saved(c) == saved[req[c].route][req[c].header]

Replay(c) ==
  /\ pc[c] = "locked"
  /\ Saved(c) # None
  /\ Answer(c, Saved(c))
  /\ UNCHANGED <<req, saved, memory, spent, ran, forgot, known>>

\* next(c): for admins' routes this is RequireRole, behind the lookup.
Enter(c) ==
  /\ pc[c] = "locked"
  /\ Saved(c) = None
  /\ Goto(c, "inside")
  /\ UNCHANGED <<req, lock, saved, memory, spent, ran, forgot, known, answer>>

\* Mutant of Admitted: RequireRole is missing from the group.
AdmittedAll(c) == TRUE

Admitted(c) == req[c].route \in AdminRoute => req[c].tok \in Claims

Forbid(c) ==
  /\ pc[c] = "inside"
  /\ ~Admitted(c)
  /\ Answer(c, "forbidden")
  /\ UNCHANGED <<req, saved, memory, spent, ran, forgot, known>>

-----------------------------------------------------------------------------
(* The handlers.  An error they return is not saved.                       *)

At(c, r) == pc[c] = "inside" /\ Admitted(c) /\ req[c].route = r

Fail(c, e) == /\ Answer(c, e)
              /\ UNCHANGED <<req, saved, memory, spent, ran, forgot, known>>

\* Bind and Validator.Struct; a logout reads no body.
Malformed(c) == /\ \E r \in Route \ {"logout"} : At(c, r)
                /\ Fail(c, "validationFailed")

\* A call of the database fails before anything has changed.
DbFails(c) == /\ CallsFail
              /\ pc[c] = "checked" \/ \E r \in Route : At(c, r)
              /\ Fail(c, "internal")

\* The write took effect; the handler goes on, or loses the reply.
Effect(c, next) ==
  /\ ran' = ran \union {c}
  /\ \/ Goto(c, next) /\ UNCHANGED <<answer, lock>>
     \/ CallsFail /\ Answer(c, "internal")
  /\ UNCHANGED <<req, saved, memory, forgot, known>>

\* Mutant of Logout: only the table is written.
LogoutTable(c) ==
  /\ At(c, "logout")
  /\ ran' = ran \union {c}
  /\ Goto(c, "ran")
  /\ UNCHANGED <<req, lock, saved, memory, spent, forgot, known, answer>>

\* The id is in the table and in the memory.
Logout(c) ==
  /\ At(c, "logout")
  /\ memory' = [memory EXCEPT ![req[c].inst] = @ \union {req[c].tok}]
  /\ ran' = ran \union {c}
  /\ Goto(c, "ran")
  /\ UNCHANGED <<req, lock, saved, spent, forgot, known, answer>>

UpdateMe(c) == At(c, "update") /\ Effect(c, "ran") /\ UNCHANGED spent

\* Every call names the same email.
Create(c) ==
  /\ At(c, "create")
  /\ \/ "email" \in spent /\ Fail(c, "alreadyExists")
     \/ /\ "email" \notin spent
        /\ spent' = spent \union {"email"}
        /\ Effect(c, "ran")

\* ChangePassword: every call gives the password the user had at first.
CheckOld(c) ==
  /\ At(c, "password")
  /\ \/ "password" \in spent /\ Fail(c, "invalidCredentials")
     \/ /\ "password" \notin spent
        /\ Goto(c, "checked")
        /\ UNCHANGED <<req, lock, saved, memory, spent, ran, forgot, known, answer>>

WritePassword(c) ==
  /\ pc[c] = "checked"
  /\ spent' = spent \union {"password"}
  /\ Effect(c, "written")

\* A failure to revoke the token is only logged.
Revoke(c) ==
  /\ pc[c] = "written"
  /\ \/ memory' = [memory EXCEPT ![req[c].inst] = @ \union {req[c].tok}]
     \/ CallsFail /\ UNCHANGED memory
  /\ Goto(c, "ran")
  /\ UNCHANGED <<req, lock, saved, spent, ran, forgot, known, answer>>

\* Mutant of Save: the response is not stored.
SaveNothing(c) ==
  /\ pc[c] = "ran"
  /\ Answer(c, c)
  /\ UNCHANGED <<req, saved, memory, spent, ran, forgot, known>>

\* The response is stored under the user, path, verb and header, and sent.
Save(c) ==
  /\ pc[c] = "ran"
  /\ Answer(c, c)
  /\ saved' = IF Keyed(c) THEN [saved EXCEPT ![req[c].route][req[c].header] = c] ELSE saved
  /\ UNCHANGED <<req, memory, spent, ran, forgot, known>>

-----------------------------------------------------------------------------

\* The calls an instance is carrying out, and the logouts it has carried out.
Carries(i) == {c \in Call : pc[c] \notin {"new", "done"} /\ req[c].inst = i}
LogoutsAt(i) == {c \in Logouts : req[c].inst = i}

\* The process ends and starts again.  PostgreSQL ends its transactions and so
\* frees their locks; the memory of revoked tokens starts empty.
Restart(i) ==
  /\ memory' = [memory EXCEPT ![i] = {}]
  /\ forgot' = forgot \union LogoutsAt(i)
  /\ pc' = [c \in Call |-> IF c \in Carries(i) THEN "done" ELSE pc[c]]
  /\ answer' = [c \in Call |-> IF c \in Carries(i) THEN "lost" ELSE answer[c]]
  /\ lock' = [h \in Header |-> IF lock[h] \in Carries(i) THEN None ELSE lock[h]]
  /\ UNCHANGED <<req, saved, spent, ran, known>>

Step(c) ==
  \/ Authenticate(c) \/ Lock(c) \/ Replay(c) \/ Enter(c) \/ Forbid(c)
  \/ Malformed(c) \/ DbFails(c) \/ Logout(c) \/ UpdateMe(c) \/ Create(c)
  \/ CheckOld(c) \/ WritePassword(c) \/ Revoke(c) \/ Save(c)

Next == \/ \E c \in Call : Step(c)
        \/ \E i \in Inst : Restart(i)

Spec == Init /\ [][Next]_vars

-----------------------------------------------------------------------------
(* Properties.                                                             *)

PCs == {"new", "authed", "locked", "inside", "checked", "written", "ran", "done"}

\* The type invariant of the calls on their way.
TypeOK ==
  /\ pc \in [Call -> PCs]
  /\ req \in [Call -> Request \union {None}]
  /\ \A c \in Call : pc[c] # "new" => req[c] \in Request
  /\ lock \in [Header -> Call \union {None}]
  /\ saved \in [Route -> [Header -> Call \union {None}]]
  /\ memory \in [Inst -> SUBSET Tok]
  /\ spent \subseteq {"password", "email"}
  /\ ran \subseteq Call
  /\ forgot \subseteq Call
  /\ known \in [Call -> SUBSET Call]
  /\ answer \in [Call -> Call \union Failure \union {None}]

\* Two calls of one route with one header.
SameKey(c, x) == /\ pc[c] # "new" /\ pc[x] # "new"
                 /\ Keyed(c)
                 /\ req[c].header = req[x].header
                 /\ req[c].route = req[x].route

\* A call is carried out again under its key only when one of the two, after
\* its write had taken effect, got an internal error or, because its instance
\* ended, no answer.
RepeatOnlyAfterError ==
  \A c, x \in ran :
    c # x /\ SameKey(c, x) => {"internal", "lost"} \intersect {answer[c], answer[x]} # {}

\* A keyed call is not refused for what an earlier call of its key did, as a
\* wrong password or an email that is taken, unless that one was told of an
\* internal error or of nothing.
RetryIsToldTheTruth ==
  \A c, x \in Call :
    /\ SameKey(c, x)
    /\ answer[c] \in {"invalidCredentials", "alreadyExists"}
    /\ x \in ran
    => answer[x] \in {"internal", "lost"}

LoggedOut(c) == pc[c] = "done" /\ req[c].route = "logout" /\ answer[c] \in Call

\* A logout that was answered well has revoked its token at its instance.  The
\* exceptions are the replay of a logout of another token or at another
\* instance, and an instance that has ended since the logout it answers with.
LogoutBites ==
  \A c \in Call :
    LoggedOut(c) => \/ req[c].tok \in memory[req[c].inst]
                  \/ <<req[answer[c]].tok, req[answer[c]].inst>> # <<req[c].tok, req[c].inst>>
                  \/ answer[c] \in forgot

\* Repeated with its key after it has run, a logout of the same token at the
\* same instance is not replayed, unless that has ended since: it is refused as
\* revoked.
LogoutIsNotReplayed ==
  \A c \in Call :
    /\ LoggedOut(c)
    /\ answer[c] # c
    /\ <<req[answer[c]].tok, req[answer[c]].inst>> = <<req[c].tok, req[c].inst>>
    => answer[c] \notin known[c]

\* A replay is looked up before the role is asked for; all the same, no
\* response of an admin's route reaches a caller unless it was produced for
\* the same route and by a token that claimed the role.
ResponseWasEarned ==
  \A c \in Call :
    answer[c] \in Call =>
      /\ answer[c] \in ran
      /\ req[answer[c]].route = req[c].route
      /\ req[c].route \in AdminRoute => req[answer[c]].tok \in Claims
=============================================================================
