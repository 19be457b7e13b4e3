---------------------------- MODULE Gateway_proofs ----------------------------
(***************************************************************************)
(* Proofs about Gateway for any calls, instances, tokens and headers.      *)
(***************************************************************************)
EXTENDS Gateway, TLAPS

-----------------------------------------------------------------------------
(* The invariant.                                                          *)

\* Between its lock and its return a keyed call holds the lock of its header,
\* and past the lookup nothing is saved under its key.
Busy(c) == pc[c] \in {"locked", "inside", "checked", "written", "ran"}

LockInv ==
  \A c \in Call :
    /\ Busy(c) /\ Keyed(c) => lock[req[c].header] = c
    /\ Busy(c) /\ Keyed(c) /\ pc[c] # "locked" => Saved(c) = None

\* What a call's effect and its answer say of where it is; a saved response is
\* that of a call of the key, and of every call that was answered its own.
RanInv ==
  \A c \in Call :
    /\ answer[c] # None => pc[c] = "done"
    /\ c \in ran => pc[c] \in {"written", "ran", "done"}
    /\ pc[c] \in {"written", "ran"} => c \in ran
    /\ pc[c] \in {"checked", "written"} => req[c].route = "password"
    /\ c \in ran /\ pc[c] = "done" => answer[c] \in {c, "internal", "lost"}
    /\ c \in ran /\ answer[c] = c /\ Keyed(c) => Saved(c) = c

SavedInv ==
  \A p \in Route, h \in Header :
    saved[p][h] # None =>
      /\ saved[p][h] \in ran
      /\ req[saved[p][h]].route = p

\* A refusal for a spent password or email is one of a route that spends it,
\* and no call of the refused one's key is past the check.
SpentInv ==
  \A c \in Call :
    /\ answer[c] = "alreadyExists" => "email" \in spent /\ req[c].route = "create"
    /\ answer[c] = "invalidCredentials" =>
         /\ "password" \in spent
         /\ req[c].route = "password"
         /\ \A x \in Call : pc[x] = "checked" => ~SameKey(c, x)

\* A logout that has run is in its instance's memory until that ends, so that no
\* logout let in between was one of the same token and instance.
SamePlace(c, x) == req[c].tok = req[x].tok /\ req[c].inst = req[x].inst

LogoutInv ==
  /\ \A x \in Logouts \ forgot : req[x].tok \in memory[req[x].inst]
  /\ \A c \in Call : known[c] \subseteq Logouts
  /\ \A c \in Call :
       pc[c] # "new" /\ answer[c] # "unauthorized" /\ req[c].route = "logout" =>
         \A x \in known[c] : ~SamePlace(c, x)

\* What has run of an admin's route was let in by RequireRole.
RoleInv ==
  \A x \in ran : req[x].route \in AdminRoute => req[x].tok \in Claims

IInv == /\ LockInv /\ RanInv /\ SavedInv /\ SpentInv /\ LogoutInv /\ RoleInv
        /\ RetryIsToldTheTruth /\ ResponseWasEarned

-----------------------------------------------------------------------------
(* Types.                                                                  *)

LEMMA FailureIs ==
  Failure = {"unauthorized", "invalidCredentials", "forbidden", "alreadyExists",
             "validationFailed", "internal", "lost"}
BY DEF Failure, Status

\* Only a keyed call waits for the lookup, so there is a key to look up.
KeyedInv == \A c \in Call : pc[c] = "locked" => Keyed(c)

LEMMA KeyedNext ==
  ASSUME TypeOK, KeyedInv, [Next]_vars
  PROVE  KeyedInv'
<1> USE DEF KeyedInv, TypeOK, Keyed, Goto, Answer, Fail, At
<1>1. ASSUME NEW c \in Call, Authenticate(c) PROVE KeyedInv'
  BY <1>1 DEF Authenticate
<1>2. ASSUME NEW c \in Call, Lock(c) PROVE KeyedInv'
  BY <1>2 DEF Lock
<1>3. ASSUME NEW c \in Call, Replay(c) \/ Forbid(c) \/ Malformed(c) \/ DbFails(c) \/ Save(c)
      PROVE  KeyedInv'
  BY <1>3 DEF Replay, Forbid, Malformed, DbFails, Save
<1>4. ASSUME NEW c \in Call, Enter(c) \/ Logout(c) \/ Revoke(c) PROVE KeyedInv'
  BY <1>4 DEF Enter, Logout, Revoke
<1>5. ASSUME NEW c \in Call, UpdateMe(c) \/ Create(c) \/ CheckOld(c) \/ WritePassword(c)
      PROVE  KeyedInv'
  BY <1>5 DEF UpdateMe, Create, CheckOld, WritePassword, Effect
<1>6. ASSUME NEW i \in Inst, Restart(i) PROVE KeyedInv'
  BY <1>6 DEF Restart
<1>7. CASE UNCHANGED vars
  BY <1>7 DEF vars
<1>8. QED BY <1>1, <1>2, <1>3, <1>4, <1>5, <1>6, <1>7 DEF Next, Step

LEMMA TypeNext ==
  ASSUME TypeOK, KeyedInv, [Next]_vars
  PROVE  TypeOK'
<1> USE GatewayAssumption, FailureIs
    DEF TypeOK, PCs, Goto, Answer, Fail, At, Route
<1>1. ASSUME NEW c \in Call, Authenticate(c) PROVE TypeOK'
  BY <1>1 DEF Authenticate, Logouts, Request
<1>2. ASSUME NEW c \in Call, Lock(c) PROVE TypeOK'
  BY <1>2 DEF Lock, Keyed
<1>3. ASSUME NEW c \in Call, Replay(c) PROVE TypeOK'
  BY <1>3 DEF Replay, Saved, Request, KeyedInv, Keyed
<1>4. ASSUME NEW c \in Call, Enter(c) PROVE TypeOK'
  BY <1>4 DEF Enter
<1>5. ASSUME NEW c \in Call, Forbid(c) PROVE TypeOK'
  BY <1>5 DEF Forbid
<1>6. ASSUME NEW c \in Call, Malformed(c) PROVE TypeOK'
  BY <1>6 DEF Malformed
<1>7. ASSUME NEW c \in Call, DbFails(c) PROVE TypeOK'
  BY <1>7 DEF DbFails
<1>8. ASSUME NEW c \in Call, Logout(c) PROVE TypeOK'
  BY <1>8 DEF Logout, Request
<1>9. ASSUME NEW c \in Call, UpdateMe(c) PROVE TypeOK'
  BY <1>9 DEF UpdateMe, Effect
<1>10. ASSUME NEW c \in Call, Create(c) PROVE TypeOK'
  <2>0. pc[c] = "inside"
    BY <1>10 DEF Create
  <2>1. CASE Fail(c, "alreadyExists")
    BY <2>0, <2>1
  <2>2. CASE Effect(c, "ran") /\ spent' = spent \union {"email"}
    BY <2>0, <2>2 DEF Effect
  <2>3. QED BY <1>10, <2>1, <2>2 DEF Create
<1>11. ASSUME NEW c \in Call, CheckOld(c) PROVE TypeOK'
  <2>0. pc[c] = "inside"
    BY <1>11 DEF CheckOld
  <2>1. CASE Fail(c, "invalidCredentials")
    BY <2>0, <2>1
  <2>2. CASE /\ Goto(c, "checked")
             /\ UNCHANGED <<req, lock, saved, memory, spent, ran, forgot, known, answer>>
    BY <2>0, <2>2
  <2>3. QED BY <1>11, <2>1, <2>2 DEF CheckOld
<1>12. ASSUME NEW c \in Call, WritePassword(c) PROVE TypeOK'
  BY <1>12 DEF WritePassword, Effect
<1>13. ASSUME NEW c \in Call, Revoke(c) PROVE TypeOK'
  BY <1>13 DEF Revoke, Request
<1>14. ASSUME NEW c \in Call, Save(c) PROVE TypeOK'
  BY <1>14 DEF Save, Keyed, Request
<1>15. ASSUME NEW i \in Inst, Restart(i) PROVE TypeOK'
  <2>1. forgot' \subseteq Call /\ memory' \in [Inst -> SUBSET Tok]
    BY <1>15 DEF Restart, LogoutsAt, Logouts
  <2>2. /\ pc' \in [Call -> PCs]
        /\ answer' \in [Call -> Call \union Failure \union {None}]
        /\ \A c \in Call : pc'[c] # "new" => pc[c] # "new"
    BY <1>15 DEF Restart, Carries
  <2>3. lock' \in [Header -> Call \union {None}]
    BY <1>15 DEF Restart
  <2>4. UNCHANGED <<req, saved, spent, ran, known>>
    BY <1>15 DEF Restart
  <2>5. QED BY <2>1, <2>2, <2>3, <2>4
<1>16. CASE UNCHANGED vars
  BY <1>16 DEF vars
<1>17. QED
  BY <1>1, <1>2, <1>3, <1>4, <1>5, <1>6, <1>7, <1>8, <1>9, <1>10, <1>11, <1>12, <1>13, <1>14,
     <1>15, <1>16 DEF Next, Step

\* The type invariant holds in every reachable state.
THEOREM GatewayTypes == Spec => []TypeOK
<1>1. Init => TypeOK /\ KeyedInv
  BY GatewayAssumption DEF Init, TypeOK, PCs, KeyedInv
<1>2. TypeOK /\ KeyedInv /\ [Next]_vars => (TypeOK /\ KeyedInv)'
  BY TypeNext, KeyedNext
<1>3. QED BY <1>1, <1>2, PTL DEF Spec

-----------------------------------------------------------------------------
(* The invariant is kept by every step.                                    *)

\* A refusal that is no statement about the password or the email.
LEMMA RefusalKeeps ==
  ASSUME TypeOK, KeyedInv, IInv, NEW c \in Call,
         NEW e \in {"forbidden", "validationFailed", "internal"},
         pc[c] \in {"inside", "checked"}, Fail(c, e)
  PROVE  IInv'
<1> USE GatewayAssumption, FailureIs DEF TypeOK, KeyedInv, IInv, LockInv, RanInv, Goto, Answer, Fail
<1>1. LockInv'
  BY DEF LockInv, Busy, Keyed, Saved, Held, Request
<1>2. RanInv'
  BY DEF RanInv, Keyed, Saved, Busy, Request
<1>3. SavedInv'
  BY DEF SavedInv, Keyed, Saved, Request
<1>4. SpentInv'
  BY DEF SpentInv, SameKey, Keyed, Busy, Request
<1>5. LogoutInv'
  BY DEF LogoutInv, Logouts, SamePlace, Request
<1>6. RoleInv'
  BY DEF RoleInv, Request
<1>7. RetryIsToldTheTruth'
  BY DEF RetryIsToldTheTruth, SameKey, Keyed, Saved, Busy, Request
<1>8. ResponseWasEarned'
  BY DEF ResponseWasEarned, Saved, Keyed, Request
<1>9. QED BY <1>1, <1>2, <1>3, <1>4, <1>5, <1>6, <1>7, <1>8

LEMMA AuthenticateKeeps ==
  ASSUME TypeOK, KeyedInv, IInv, NEW c \in Call, Authenticate(c)
  PROVE  IInv'
<1> USE GatewayAssumption, FailureIs DEF TypeOK, KeyedInv, IInv, LockInv, RanInv, Goto, Authenticate, Answer
<1>1. LockInv'
  BY DEF LockInv, Busy, Keyed, Saved, Held, Request
<1>2. RanInv'
  BY DEF RanInv, Keyed, Saved, Busy, Request
<1>3. SavedInv'
  BY DEF SavedInv, Keyed, Saved, Request
<1>4. SpentInv'
  BY DEF SpentInv, SameKey, Keyed, Busy, Request
<1>5. LogoutInv'
  BY DEF LogoutInv, Logouts, SamePlace, Request
<1>6. RoleInv'
  BY DEF RoleInv, Request
<1>7. RetryIsToldTheTruth'
  BY DEF RetryIsToldTheTruth, SameKey, Keyed, Saved, Busy, Request
<1>8. ResponseWasEarned'
  BY DEF ResponseWasEarned, Saved, Keyed, Request
<1>9. QED BY <1>1, <1>2, <1>3, <1>4, <1>5, <1>6, <1>7, <1>8

LEMMA LockKeeps ==
  ASSUME TypeOK, KeyedInv, IInv, NEW c \in Call, Lock(c)
  PROVE  IInv'
<1> USE GatewayAssumption, FailureIs DEF TypeOK, KeyedInv, IInv, LockInv, RanInv, Goto, Lock
<1>1. LockInv'
  BY DEF LockInv, Busy, Keyed, Saved, Held, Request
<1>2. RanInv'
  BY DEF RanInv, Keyed, Saved, Busy, Request
<1>3. SavedInv'
  BY DEF SavedInv, Keyed, Saved, Request
<1>4. SpentInv'
  BY DEF SpentInv, SameKey, Keyed, Busy, Request
<1>5. LogoutInv'
  BY DEF LogoutInv, Logouts, SamePlace, Request
<1>6. RoleInv'
  BY DEF RoleInv, Request
<1>7. RetryIsToldTheTruth'
  BY DEF RetryIsToldTheTruth, SameKey, Keyed, Saved, Busy, Request
<1>8. ResponseWasEarned'
  BY DEF ResponseWasEarned, Saved, Keyed, Request
<1>9. QED BY <1>1, <1>2, <1>3, <1>4, <1>5, <1>6, <1>7, <1>8

LEMMA ReplayKeeps ==
  ASSUME TypeOK, KeyedInv, IInv, NEW c \in Call, Replay(c)
  PROVE  IInv'
<1> USE GatewayAssumption, FailureIs DEF TypeOK, KeyedInv, IInv, LockInv, RanInv, Goto, Replay, Answer, Saved
<1>1. LockInv'
  BY DEF LockInv, Busy, Keyed, Saved, Held, Request
<1>2. RanInv'
  BY DEF RanInv, Keyed, Saved, Busy, Request
<1>3. SavedInv'
  BY DEF SavedInv, Keyed, Saved, Request
<1>4. SpentInv'
  BY DEF SpentInv, SameKey, Keyed, Busy, Request
<1>5. LogoutInv'
  BY DEF LogoutInv, Logouts, SamePlace, Request
<1>6. RoleInv'
  BY DEF RoleInv, Request
<1>7. RetryIsToldTheTruth'
  BY DEF RetryIsToldTheTruth, SameKey, Keyed, Saved, Busy, Request
<1>8. ResponseWasEarned'
  BY DEF ResponseWasEarned, Saved, Keyed, Request, SavedInv, RoleInv
<1>9. QED BY <1>1, <1>2, <1>3, <1>4, <1>5, <1>6, <1>7, <1>8

LEMMA EnterKeeps ==
  ASSUME TypeOK, KeyedInv, IInv, NEW c \in Call, Enter(c)
  PROVE  IInv'
<1> USE GatewayAssumption, FailureIs DEF TypeOK, KeyedInv, IInv, LockInv, RanInv, Goto, Enter, Saved
<1>1. LockInv'
  BY DEF LockInv, Busy, Keyed, Saved, Held, Request
<1>2. RanInv'
  BY DEF RanInv, Keyed, Saved, Busy, Request
<1>3. SavedInv'
  BY DEF SavedInv, Keyed, Saved, Request
<1>4. SpentInv'
  BY DEF SpentInv, SameKey, Keyed, Busy, Request
<1>5. LogoutInv'
  BY DEF LogoutInv, Logouts, SamePlace, Request
<1>6. RoleInv'
  BY DEF RoleInv, Request
<1>7. RetryIsToldTheTruth'
  BY DEF RetryIsToldTheTruth, SameKey, Keyed, Saved, Busy, Request
<1>8. ResponseWasEarned'
  BY DEF ResponseWasEarned, Saved, Keyed, Request
<1>9. QED BY <1>1, <1>2, <1>3, <1>4, <1>5, <1>6, <1>7, <1>8

LEMMA LogoutKeeps ==
  ASSUME TypeOK, KeyedInv, IInv, NEW c \in Call, Logout(c)
  PROVE  IInv'
<1> USE GatewayAssumption, FailureIs DEF TypeOK, KeyedInv, IInv, LockInv, RanInv, Goto, Logout, At, Admitted
<1>1. LockInv'
  BY DEF LockInv, Busy, Keyed, Saved, Held, Request
<1>2. RanInv'
  BY DEF RanInv, Keyed, Saved, Busy, Request
<1>3. SavedInv'
  BY DEF SavedInv, Keyed, Saved, Request
<1>4. SpentInv'
  BY DEF SpentInv, SameKey, Keyed, Busy, Request
<1>5. LogoutInv'
  BY DEF LogoutInv, Logouts, SamePlace, Request
<1>6. RoleInv'
  BY DEF RoleInv, Request
<1>7. RetryIsToldTheTruth'
  BY DEF RetryIsToldTheTruth, SameKey, Keyed, Saved, Busy, Request, SpentInv
<1>8. ResponseWasEarned'
  BY DEF ResponseWasEarned, Saved, Keyed, Request
<1>9. QED BY <1>1, <1>2, <1>3, <1>4, <1>5, <1>6, <1>7, <1>8

LEMMA UpdateMeKeeps ==
  ASSUME TypeOK, KeyedInv, IInv, NEW c \in Call, UpdateMe(c)
  PROVE  IInv'
<1> USE GatewayAssumption, FailureIs DEF TypeOK, KeyedInv, IInv, LockInv, RanInv, Goto, UpdateMe, Effect, Answer, At, Admitted
<1>1. LockInv'
  BY DEF LockInv, Busy, Keyed, Saved, Held, Request
<1>2. RanInv'
  BY DEF RanInv, Keyed, Saved, Busy, Request
<1>3. SavedInv'
  BY DEF SavedInv, Keyed, Saved, Request
<1>4. SpentInv'
  BY DEF SpentInv, SameKey, Keyed, Busy, Request
<1>5. LogoutInv'
  BY DEF LogoutInv, Logouts, SamePlace, Request
<1>6. RoleInv'
  BY DEF RoleInv, Request
<1>7. RetryIsToldTheTruth'
  BY DEF RetryIsToldTheTruth, SameKey, Keyed, Saved, Busy, Request, SpentInv
<1>8. ResponseWasEarned'
  BY DEF ResponseWasEarned, Saved, Keyed, Request
<1>9. QED BY <1>1, <1>2, <1>3, <1>4, <1>5, <1>6, <1>7, <1>8

LEMMA CreateKeeps ==
  ASSUME TypeOK, KeyedInv, IInv, NEW c \in Call, Create(c)
  PROVE  IInv'
<1> USE GatewayAssumption, FailureIs DEF TypeOK, KeyedInv, IInv, LockInv, RanInv, Goto, Create, Answer, Fail, Effect, At, Admitted
<1>1. LockInv'
  BY DEF LockInv, Busy, Keyed, Saved, Held, Request
<1>2. RanInv'
  BY DEF RanInv, Keyed, Saved, Busy, Request
<1>3. SavedInv'
  BY DEF SavedInv, Keyed, Saved, Request
<1>4. SpentInv'
  BY DEF SpentInv, SameKey, Keyed, Busy, Request
<1>5. LogoutInv'
  <2>1. CASE Fail(c, "alreadyExists")
    BY <2>1 DEF LogoutInv, Logouts, SamePlace
  <2>2. CASE Effect(c, "ran")
    BY <2>2 DEF LogoutInv, Logouts, SamePlace
  <2>3. QED BY <2>1, <2>2
<1>6. RoleInv'
  BY DEF RoleInv, Request
<1>7. RetryIsToldTheTruth'
  BY DEF RetryIsToldTheTruth, SameKey, Keyed, Saved, Busy, Request, SpentInv
<1>8. ResponseWasEarned'
  BY DEF ResponseWasEarned, Saved, Keyed, Request
<1>9. QED BY <1>1, <1>2, <1>3, <1>4, <1>5, <1>6, <1>7, <1>8

LEMMA CheckOldKeeps ==
  ASSUME TypeOK, KeyedInv, IInv, NEW c \in Call, CheckOld(c)
  PROVE  IInv'
<1> USE GatewayAssumption, FailureIs DEF TypeOK, KeyedInv, IInv, LockInv, RanInv, Goto, CheckOld, Answer, Fail, At, Admitted
<1>1. LockInv'
  BY DEF LockInv, Busy, Keyed, Saved, Held, Request
<1>2. RanInv'
  BY DEF RanInv, Keyed, Saved, Busy, Request
<1>3. SavedInv'
  BY DEF SavedInv, Keyed, Saved, Request
<1>4. SpentInv'
  BY DEF SpentInv, SameKey, Keyed, Busy, Request
<1>5. LogoutInv'
  <2>1. CASE Fail(c, "invalidCredentials")
    BY <2>1 DEF LogoutInv, Logouts, SamePlace
  <2>2. CASE UNCHANGED <<req, memory, ran, forgot, known, answer>>
    BY <2>2 DEF LogoutInv, Logouts, SamePlace
  <2>3. QED BY <2>1, <2>2
<1>6. RoleInv'
  BY DEF RoleInv, Request
<1>7. RetryIsToldTheTruth'
  BY DEF RetryIsToldTheTruth, SameKey, Keyed, Saved, Busy, Request
<1>8. ResponseWasEarned'
  BY DEF ResponseWasEarned, Saved, Keyed, Request
<1>9. QED BY <1>1, <1>2, <1>3, <1>4, <1>5, <1>6, <1>7, <1>8

LEMMA WritePasswordKeeps ==
  ASSUME TypeOK, KeyedInv, IInv, NEW c \in Call, WritePassword(c)
  PROVE  IInv'
<1> USE GatewayAssumption, FailureIs DEF TypeOK, KeyedInv, IInv, LockInv, RanInv, Goto, WritePassword, Effect, Answer
<1>1. LockInv'
  BY DEF LockInv, Busy, Keyed, Saved, Held, Request
<1>2. RanInv'
  BY DEF RanInv, Keyed, Saved, Busy, Request
<1>3. SavedInv'
  BY DEF SavedInv, Keyed, Saved, Request
<1>4. SpentInv'
  BY DEF SpentInv, SameKey, Keyed, Busy, Request
<1>5. LogoutInv'
  BY DEF LogoutInv, Logouts, SamePlace, Request
<1>6. RoleInv'
  BY DEF RoleInv, Request, AdminRoute
<1>7. RetryIsToldTheTruth'
  BY DEF RetryIsToldTheTruth, SameKey, Keyed, Saved, Busy, Request, SpentInv
<1>8. ResponseWasEarned'
  BY DEF ResponseWasEarned, Saved, Keyed, Request
<1>9. QED BY <1>1, <1>2, <1>3, <1>4, <1>5, <1>6, <1>7, <1>8

LEMMA RevokeKeeps ==
  ASSUME TypeOK, KeyedInv, IInv, NEW c \in Call, Revoke(c)
  PROVE  IInv'
<1> USE GatewayAssumption, FailureIs DEF TypeOK, KeyedInv, IInv, LockInv, RanInv, Goto, Revoke
<1>1. LockInv'
  BY DEF LockInv, Busy, Keyed, Saved, Held, Request
<1>2. RanInv'
  BY DEF RanInv, Keyed, Saved, Busy, Request
<1>3. SavedInv'
  BY DEF SavedInv, Keyed, Saved, Request
<1>4. SpentInv'
  BY DEF SpentInv, SameKey, Keyed, Busy, Request
<1>5. LogoutInv'
  BY DEF LogoutInv, Logouts, SamePlace, Request
<1>6. RoleInv'
  BY DEF RoleInv, Request
<1>7. RetryIsToldTheTruth'
  BY DEF RetryIsToldTheTruth, SameKey, Keyed, Saved, Busy, Request
<1>8. ResponseWasEarned'
  BY DEF ResponseWasEarned, Saved, Keyed, Request
<1>9. QED BY <1>1, <1>2, <1>3, <1>4, <1>5, <1>6, <1>7, <1>8

LEMMA SaveKeeps ==
  ASSUME TypeOK, KeyedInv, IInv, NEW c \in Call, Save(c)
  PROVE  IInv'
<1> USE GatewayAssumption, FailureIs DEF TypeOK, KeyedInv, IInv, LockInv, RanInv, Goto, Save, Answer
<1>1. LockInv'
  BY DEF LockInv, Busy, Keyed, Saved, Held, Request
<1>2. RanInv'
  BY DEF RanInv, Keyed, Saved, Busy, Request
<1>3. SavedInv'
  BY DEF SavedInv, Keyed, Saved, Request
<1>4. SpentInv'
  BY DEF SpentInv, SameKey, Keyed, Busy, Request
<1>5. LogoutInv'
  BY DEF LogoutInv, Logouts, SamePlace, Request
<1>6. RoleInv'
  BY DEF RoleInv, Request
<1>7. RetryIsToldTheTruth'
  BY DEF RetryIsToldTheTruth, SameKey, Keyed, Saved, Busy, Request
<1>8. ResponseWasEarned'
  BY DEF ResponseWasEarned, Saved, Keyed, Request, RoleInv
<1>9. QED BY <1>1, <1>2, <1>3, <1>4, <1>5, <1>6, <1>7, <1>8

\* What an end of an instance leaves is what the database holds: the locks of
\* the other instances' calls, the responses and the effects.
LEMMA RestartKeeps ==
  ASSUME TypeOK, KeyedInv, IInv, NEW i \in Inst, Restart(i)
  PROVE  IInv'
<1> USE GatewayAssumption, FailureIs DEF TypeOK, KeyedInv, IInv, LockInv, RanInv, Restart, Carries
<1>1. LockInv'
  BY DEF LockInv, Busy, Keyed, Saved, Request
<1>2. RanInv'
  BY DEF RanInv, Keyed, Saved
<1>3. SavedInv'
  BY DEF SavedInv
<1>4. SpentInv'
  BY DEF SpentInv, SameKey, Keyed
<1>5. LogoutInv'
  BY DEF LogoutInv, Logouts, LogoutsAt, SamePlace, Request
<1>6. RoleInv'
  BY DEF RoleInv
<1>7. RetryIsToldTheTruth'
  BY DEF RetryIsToldTheTruth, SameKey, Keyed
<1>8. ResponseWasEarned'
  BY DEF ResponseWasEarned
<1>9. QED BY <1>1, <1>2, <1>3, <1>4, <1>5, <1>6, <1>7, <1>8

LEMMA InvNext ==
  ASSUME TypeOK, KeyedInv, IInv, [Next]_vars
  PROVE  IInv'
<1>1. ASSUME NEW c \in Call, Forbid(c) \/ Malformed(c) \/ DbFails(c) PROVE IInv'
  <2>1. pc[c] \in {"inside", "checked"}
    BY <1>1 DEF Forbid, Malformed, DbFails, At
  <2>2. PICK e \in {"forbidden", "validationFailed", "internal"} : Fail(c, e)
    BY <1>1 DEF Forbid, Malformed, DbFails, Fail
  <2>3. QED BY <2>1, <2>2, RefusalKeeps
<1>2. CASE UNCHANGED vars
  BY <1>2 DEF vars, IInv, LockInv, Busy, RanInv, SavedInv, SpentInv, LogoutInv, Logouts, SamePlace,
     RoleInv, RetryIsToldTheTruth, ResponseWasEarned, SameKey, Keyed, Saved
<1>3. QED
  BY <1>1, <1>2, AuthenticateKeeps, LockKeeps, ReplayKeeps, EnterKeeps, LogoutKeeps,
     UpdateMeKeeps, CreateKeeps, CheckOldKeeps, WritePasswordKeeps, RevokeKeeps, SaveKeeps,
     RestartKeeps
  DEF Next, Step

LEMMA GatewayInvariant == Spec => [](TypeOK /\ KeyedInv /\ IInv)
<1>1. Init => TypeOK /\ KeyedInv /\ IInv
  BY GatewayAssumption, FailureIs
  DEF Init, TypeOK, PCs, KeyedInv, IInv, LockInv, Busy, RanInv, SavedInv, SpentInv,
      LogoutInv, Logouts, RoleInv, RetryIsToldTheTruth, ResponseWasEarned, SameKey
<1>2. TypeOK /\ KeyedInv /\ IInv /\ [Next]_vars => (TypeOK /\ KeyedInv /\ IInv)'
  BY TypeNext, KeyedNext, InvNext
<1>3. QED BY <1>1, <1>2, PTL DEF Spec

-----------------------------------------------------------------------------
(* What follows from it.                                                   *)

\* Two calls of one key both take effect only if one of them was answered with
\* an internal error or lost with its instance: the second of two that are at
\* work at once would hold the first one's lock, and after a good answer the
\* response of the first is there.
THEOREM RepeatsAreRetries == Spec => []RepeatOnlyAfterError
<1>1. TypeOK /\ IInv => RepeatOnlyAfterError
  <2> SUFFICES ASSUME TypeOK, IInv, NEW c \in ran, NEW x \in ran, c # x, SameKey(c, x),
                      answer[c] \notin {"internal", "lost"},
                      answer[x] \notin {"internal", "lost"}
               PROVE  FALSE
    BY DEF RepeatOnlyAfterError
  <2>1. /\ c \in Call /\ x \in Call
        /\ req[c] \in Request /\ req[x] \in Request
        /\ Keyed(c) /\ Keyed(x) /\ Saved(c) = Saved(x)
    BY DEF TypeOK, SameKey, Keyed, Saved
  <2>2. ASSUME NEW y \in ran, y \in Call, Keyed(y), answer[y] \notin {"internal", "lost"}
        PROVE  \/ Saved(y) = y
               \/ Saved(y) = None /\ lock[req[y].header] = y
    <3>1. CASE pc[y] = "done"
      BY <2>2, <3>1 DEF IInv, RanInv
    <3>2. CASE pc[y] \in {"written", "ran"}
      BY <2>2, <3>2 DEF IInv, LockInv, Busy
    <3>3. QED BY <2>2, <3>1, <3>2 DEF IInv, RanInv
  <2>3. Saved(c) = c \/ (Saved(c) = None /\ lock[req[c].header] = c)
    BY <2>1, <2>2
  <2>4. Saved(x) = x \/ (Saved(x) = None /\ lock[req[x].header] = x)
    BY <2>1, <2>2
  <2>5. None \notin {c, x}
    BY <2>1, GatewayAssumption
  <2>6. QED BY <2>1, <2>3, <2>4, <2>5 DEF SameKey
<1>2. QED BY <1>1, GatewayInvariant, PTL

\* No retry is refused as wrong or taken for what its first attempt did and was
\* answered well.
THEOREM RetriesAreTrue == Spec => []RetryIsToldTheTruth
<1>1. IInv => RetryIsToldTheTruth
  BY DEF IInv
<1>2. QED BY <1>1, GatewayInvariant, PTL

\* A well answered logout has revoked its token where it was called, unless it
\* is the replay of a logout of another token or of another instance, or that
\* instance has ended since the logout it answers with.
THEOREM LogoutsRevoke == Spec => []LogoutBites
<1>1. TypeOK /\ IInv => LogoutBites
  BY DEF TypeOK, IInv, LogoutInv, Logouts, ResponseWasEarned, LogoutBites, LoggedOut
<1>2. QED BY <1>1, GatewayInvariant, PTL

\* A logout repeated after it has run, and before its instance ends, is refused
\* as revoked, never replayed.
THEOREM LogoutsEnd == Spec => []LogoutIsNotReplayed
<1>1. TypeOK /\ IInv => LogoutIsNotReplayed
  BY GatewayAssumption, FailureIs
  DEF TypeOK, IInv, LogoutInv, Logouts, SamePlace, ResponseWasEarned, LogoutIsNotReplayed, LoggedOut
<1>2. QED BY <1>1, GatewayInvariant, PTL

\* A response is one of the call's own route that RequireRole once let through.
THEOREM ResponsesAreEarned == Spec => []ResponseWasEarned
<1>1. IInv => ResponseWasEarned
  BY DEF IInv
<1>2. QED BY <1>1, GatewayInvariant, PTL

\* A response that is stored stays as it is, and an answer that was given is the
\* only one: a call that repeats a key cannot replace what the first one stored.
Settled ==
  /\ \A p \in Route, h \in Header : saved[p][h] # None => saved'[p][h] = saved[p][h]
  /\ \A c \in Call : answer[c] # None => answer'[c] = answer[c]

\* Under any interleaving of calls, retries, failures and restarts what is stored or
\* answered is final: only the holder of a key's lock stores, and it found
\* nothing stored when it looked.
THEOREM ResponsesAreFinal == Spec => [][Settled]_vars
<1>1. TypeOK /\ KeyedInv /\ IInv /\ [Next]_vars => [Settled]_vars
  <2>0. ASSUME TypeOK, IInv, NEW i \in Inst, Restart(i)
        PROVE  Settled
    BY <2>0 DEF Restart, Carries, Settled, IInv, RanInv, TypeOK
  <2> SUFFICES ASSUME TypeOK, IInv, NEW c \in Call, Step(c)
               PROVE  Settled
    BY <2>0 DEF Next
  <2> USE DEF Step
  <2>1. CASE Save(c)
    <3>1. pc[c] = "ran" /\ answer[c] = None /\ req[c] \in Request
      BY <2>1 DEF Save, IInv, RanInv, TypeOK
    <3>2. Keyed(c) => Saved(c) = None
      BY <3>1 DEF IInv, LockInv, Busy
    <3>3. ASSUME NEW p \in Route, NEW h \in Header, saved[p][h] # None
          PROVE  saved'[p][h] = saved[p][h]
      BY <2>1, <3>1, <3>2, <3>3 DEF Save, Saved, Keyed, Request, TypeOK
    <3>4. QED BY <2>1, <3>1, <3>3 DEF Save, Answer, Settled, TypeOK
  <2>2. ASSUME ~Save(c)
        PROVE  UNCHANGED saved /\ pc[c] # "done"
    BY <2>2 DEF Authenticate, Lock, Replay, Enter, Forbid, Malformed, DbFails, Logout,
       UpdateMe, Create, CheckOld, WritePassword, Revoke, Effect, Fail, At
  <2>3. ASSUME ~Save(c)
        PROVE  \/ UNCHANGED answer
               \/ \E a : answer' = [answer EXCEPT ![c] = a]
    BY <2>3 DEF Authenticate, Lock, Replay, Enter, Forbid, Malformed, DbFails, Logout,
       UpdateMe, Create, CheckOld, WritePassword, Revoke, Effect, Fail, Answer
  <2>4. CASE ~Save(c)
    BY <2>2, <2>3, <2>4 DEF Settled, IInv, RanInv, TypeOK
  <2>5. QED BY <2>1, <2>4
<1>2. QED BY <1>1, GatewayInvariant, PTL DEF Spec
=============================================================================
