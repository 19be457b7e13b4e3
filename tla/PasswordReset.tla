---------------------------- MODULE PasswordReset ----------------------------
(***************************************************************************)
(* Password-reset tokens: RequestPasswordReset, ConfirmPasswordReset and   *)
(* the hourly cleanup, beside ChangePassword and the deletion of users.    *)
(* A confirmation reads the token, hashes the password, updates the user   *)
(* and marks the token used in four steps without a transaction, so other  *)
(* requests come between any two of them.                                  *)
(*                                                                         *)
(* A password is named by the request that set it.                         *)
(***************************************************************************)
EXTENDS FiniteSets

CONSTANTS
  User, Token,
  Confirm,  \* calls of ConfirmPasswordReset
  Change,   \* calls of ChangePassword
  OwnerOf,  \* Token -> the user whose email the reset was requested for
  TokenOf,  \* Confirm -> Token
  UserOf,   \* Change -> User
  Initial,  \* the password a user registered with
  CallsFail \* whether a call of the database may fail (or never return)

ASSUME ResetAssumption ==
  /\ OwnerOf \in [Token -> User]
  /\ TokenOf \in [Confirm -> Token]
  /\ UserOf \in [Change -> User]
  /\ Confirm \intersect Change = {}
  /\ Initial \notin Confirm \union Change
  /\ CallsFail \in BOOLEAN

VARIABLES
  live,   \* users with deleted_at IS NULL
  pass,   \* User -> the request whose password is in password_hash
  tok,    \* Token -> its row: none yet, open, used, or gone
  due,    \* tokens whose expires_at has passed
  ask,    \* Token -> where its RequestPasswordReset is
  cpc,    \* Confirm -> where it is
  hpc,    \* Change -> where it is
  stale   \* history: confirmations that began after one with the same token
          \* had been acknowledged, and changes that began after the user's
          \* password had been set by an acknowledged call

vars == <<live, pass, tok, due, ask, cpc, hpc, stale>>

Init == /\ live = User
        /\ pass = [u \in User |-> Initial]
        /\ tok = [t \in Token |-> "none"]
        /\ due = {}
        /\ ask = [t \in Token |-> "idle"]
        /\ cpc = [c \in Confirm |-> "idle"]
        /\ hpc = [h \in Change |-> "idle"]
        /\ stale = {}

-----------------------------------------------------------------------------
(* RequestPasswordReset: any failure to find the user looks like success.  *)

Look(t) ==
  /\ ask[t] = "idle"
  /\ \/ OwnerOf[t] \in live /\ ask' = [ask EXCEPT ![t] = "found"]
     \/ (OwnerOf[t] \notin live \/ CallsFail) /\ ask' = [ask EXCEPT ![t] = "silent"]
  /\ UNCHANGED <<live, pass, tok, due, cpc, hpc, stale>>

Issue(t) ==
  /\ ask[t] = "found"
  /\ \/ /\ ask' = [ask EXCEPT ![t] = "issued"]
        /\ tok' = [tok EXCEPT ![t] = "open"]
     \/ /\ CallsFail
        /\ ask' = [ask EXCEPT ![t] = "failed"]
        /\ tok' \in {tok, [tok EXCEPT ![t] = "open"]}
  /\ UNCHANGED <<live, pass, due, cpc, hpc, stale>>

-----------------------------------------------------------------------------
(* ConfirmPasswordReset.                                                   *)

Goto(c, p) == cpc' = [cpc EXCEPT ![c] = p]

\* A call with the same token has been acknowledged.
Acked(t) == \E d \in Confirm : TokenOf[d] = t /\ cpc[d] = "ok"

\* Mutant of ReadToken: the flag `used` is not checked.
ReadTokenAgain(c) ==
  LET t == TokenOf[c] IN
  /\ cpc[c] = "idle"
  /\ \/ (tok[t] \in {"none", "gone"} \/ CallsFail) /\ Goto(c, "notFound")
     \/ tok[t] \in {"open", "used"} /\ Goto(c, IF t \in due THEN "expired" ELSE "hashing")
  /\ stale' = IF Acked(t) THEN stale \union {c} ELSE stale
  /\ UNCHANGED <<live, pass, tok, due, ask, hpc>>

\* Get and the two checks.  Any error of Get is "token not found".
ReadToken(c) ==
  LET t == TokenOf[c] IN
  /\ cpc[c] = "idle"
  /\ \/ (tok[t] \in {"none", "gone"} \/ CallsFail) /\ Goto(c, "notFound")
     \/ tok[t] = "used" /\ Goto(c, "alreadyUsed")
     \/ tok[t] = "open" /\ t \in due /\ Goto(c, "expired")
     \/ tok[t] = "open" /\ t \notin due /\ Goto(c, "hashing")
  /\ stale' = IF Acked(t) THEN stale \union {c} ELSE stale
  /\ UNCHANGED <<live, pass, tok, due, ask, hpc>>

\* Mutant of SetPassword: the UPDATE does not ask for deleted_at IS NULL.
SetPasswordOfAny(c) ==
  /\ cpc[c] = "hashing"
  /\ pass' = [pass EXCEPT ![OwnerOf[TokenOf[c]]] = c]
  /\ Goto(c, "marking")
  /\ UNCHANGED <<live, tok, due, ask, hpc, stale>>

\* Mutant of SetPassword: the token is marked used before the password is set.
SetPasswordMarkFirst(c) ==
  LET u == OwnerOf[TokenOf[c]]
      set == [pass EXCEPT ![u] = c]
  IN
  /\ cpc[c] = "hashing"
  /\ \/ u \in live /\ pass' = set /\ Goto(c, "marking")
     \/ u \notin live /\ UNCHANGED pass /\ Goto(c, "failed")
     \/ CallsFail /\ pass' \in {pass} \union {p \in {set} : u \in live} /\ Goto(c, "failed")
  /\ tok' = [tok EXCEPT ![TokenOf[c]] = IF @ = "open" THEN "used" ELSE @]
  /\ UNCHANGED <<live, due, ask, hpc, stale>>

\* UpdatePasswordByID, for users that are not deleted.
SetPassword(c) ==
  LET u == OwnerOf[TokenOf[c]]
      set == [pass EXCEPT ![u] = c]
  IN
  /\ cpc[c] = "hashing"
  /\ \/ u \in live /\ pass' = set /\ Goto(c, "marking")
     \/ u \notin live /\ UNCHANGED pass /\ Goto(c, "failed")
     \/ CallsFail /\ pass' \in {pass} \union {p \in {set} : u \in live} /\ Goto(c, "failed")
  /\ UNCHANGED <<live, tok, due, ask, hpc, stale>>

\* MarkUsed: no error when the row is gone.  If it fails, or its reply is lost,
\* the call fails although the password is set.
Spend(t) == tok' = [tok EXCEPT ![t] = IF @ = "open" THEN "used" ELSE @]

MarkUsed(c) ==
  /\ cpc[c] = "marking"
  /\ \/ Spend(TokenOf[c]) /\ Goto(c, "ok")
     \/ CallsFail /\ (Spend(TokenOf[c]) \/ UNCHANGED tok) /\ Goto(c, "unmarked")
  /\ UNCHANGED <<live, pass, due, ask, hpc, stale>>

-----------------------------------------------------------------------------
(* ChangePassword with the registered password, and the deletion of users. *)

\* A call that sets the password of u has been acknowledged.
Replaced(u) == \/ \E t \in Token : OwnerOf[t] = u /\ Acked(t)
               \/ \E g \in Change : UserOf[g] = u /\ hpc[g] = "ok"

\* Mutant of CheckOld: the change is let through whatever the old password is.
CheckNothing(h) ==
  /\ hpc[h] = "idle"
  /\ hpc' = [hpc EXCEPT ![h] = IF UserOf[h] \in live THEN "checked" ELSE "refused"]
  /\ stale' = IF Replaced(UserOf[h]) THEN stale \union {h} ELSE stale
  /\ UNCHANGED <<live, pass, tok, due, ask, cpc>>

CheckOld(h) ==
  LET u == UserOf[h] IN
  /\ hpc[h] = "idle"
  /\ \/ /\ u \in live /\ pass[u] = Initial
        /\ hpc' = [hpc EXCEPT ![h] = "checked"]
     \/ /\ u \notin live \/ pass[u] # Initial \/ CallsFail
        /\ hpc' = [hpc EXCEPT ![h] = "refused"]
  /\ stale' = IF Replaced(u) THEN stale \union {h} ELSE stale
  /\ UNCHANGED <<live, pass, tok, due, ask, cpc>>

\* UpdatePassword does not ask whether the password is still the one checked.
Write(h) ==
  LET u == UserOf[h]
      set == [pass EXCEPT ![u] = h]
  IN
  /\ hpc[h] = "checked"
  /\ \/ u \in live /\ pass' = set /\ hpc' = [hpc EXCEPT ![h] = "ok"]
     \/ /\ u \notin live \/ CallsFail
        /\ pass' \in {pass} \union {p \in {set} : u \in live}
        /\ hpc' = [hpc EXCEPT ![h] = "failed"]
  /\ UNCHANGED <<live, tok, due, ask, cpc, stale>>

Delete(u) ==
  /\ u \in live
  /\ live' = live \ {u}
  /\ UNCHANGED <<pass, tok, due, ask, cpc, hpc, stale>>

-----------------------------------------------------------------------------
Expire(t) ==
  /\ tok[t] \in {"open", "used"}
  /\ t \notin due
  /\ due' = due \union {t}
  /\ UNCHANGED <<live, pass, tok, ask, cpc, hpc, stale>>

\* Mutant of Purgeable: OR has become AND.
PurgeableBoth(t) == tok[t] = "used" /\ t \in due

\* DELETE ... WHERE expires_at < NOW() OR used = TRUE
Purgeable(t) == tok[t] = "used" \/ (tok[t] = "open" /\ t \in due)

Purge ==
  /\ \E t \in Token : Purgeable(t)
  /\ tok' = [t \in Token |-> IF Purgeable(t) THEN "gone" ELSE tok[t]]
  /\ UNCHANGED <<live, pass, due, ask, cpc, hpc, stale>>

Next == \/ \E t \in Token : Look(t) \/ Issue(t) \/ Expire(t)
        \/ \E c \in Confirm : ReadToken(c) \/ SetPassword(c) \/ MarkUsed(c)
        \/ \E h \in Change : CheckOld(h) \/ Write(h)
        \/ \E u \in User : Delete(u)
        \/ Purge

Spec == Init /\ [][Next]_vars

\* Time passes and the cleanup goes on being called.
FairSpec == Spec /\ (\A t \in Token : WF_vars(Expire(t))) /\ WF_vars(Purge)

-----------------------------------------------------------------------------
TypeOK ==
  /\ live \subseteq User
  /\ pass \in [User -> Confirm \union Change \union {Initial}]
  /\ tok \in [Token -> {"none", "open", "used", "gone"}]
  /\ due \subseteq Token
  /\ ask \in [Token -> {"idle", "found", "issued", "silent", "failed"}]
  /\ cpc \in [Confirm -> {"idle", "hashing", "marking", "ok", "notFound",
                          "alreadyUsed", "expired", "failed", "unmarked"}]
  /\ hpc \in [Change -> {"idle", "checked", "ok", "refused", "failed"}]
  /\ stale \subseteq Confirm \union Change

\* A token whose reset was acknowledged opens nothing to a confirmation that
\* begins afterwards, whether its row is still there or has been purged, and
\* whatever other confirmations of it are still under way.
SpentTokenIsDead ==
  \A c \in stale \intersect Confirm :
    /\ cpc[c] \in {"notFound", "alreadyUsed"}
    /\ pass[OwnerOf[TokenOf[c]]] # c

\* A token is spent only by a confirmation of it that has replaced the password:
\* whichever statement fails, and if the user is deleted between them, nobody is
\* left with a used token and the password that was forgotten.
TokenIsNotBurnt ==
  \A t \in Token :
    tok[t] = "used" =>
      /\ pass[OwnerOf[t]] # Initial
      /\ \E c \in Confirm : TokenOf[c] = t /\ cpc[c] \in {"ok", "unmarked"}

\* Once a reset or a change has been acknowledged, the password it replaced
\* changes nothing any more: a change that begins with it is refused, even
\* when other calls that were under way overwrite the password again.
OldPasswordIsDead ==
  \A h \in stale \intersect Change :
    hpc[h] = "refused" /\ pass[UserOf[h]] \notin {h, Initial}

\* The password of a deleted user never changes again, even by a confirmation
\* or a change that found the user before the deletion.
DeletedKeepPassword ==
  [][\A u \in User : u \notin live => pass'[u] = pass[u]]_vars

\* Every token that was issued disappears from the table in the end.
TokensAreCleaned == \A t \in Token : tok[t] # "none" ~> [](tok[t] = "gone")

=============================================================================
