------------------------ MODULE PasswordReset_proofs ------------------------
(***************************************************************************)
(* Proofs about PasswordReset for any users, tokens and calls.             *)
(***************************************************************************)
EXTENDS PasswordReset, TLAPS

LEMMA TypeNext ==
  ASSUME ResetAssumption, TypeOK, [Next]_vars
  PROVE  TypeOK'
<1> USE DEF TypeOK, ResetAssumption, Goto
<1>1. ASSUME NEW t \in Token, Look(t) PROVE TypeOK'
  BY <1>1 DEF Look
<1>2. ASSUME NEW t \in Token, Issue(t) PROVE TypeOK'
  BY <1>2 DEF Issue
<1>3. ASSUME NEW t \in Token, Expire(t) PROVE TypeOK'
  BY <1>3 DEF Expire
<1>4. ASSUME NEW c \in Confirm, ReadToken(c) PROVE TypeOK'
  BY <1>4 DEF ReadToken
<1>5. ASSUME NEW c \in Confirm, SetPassword(c) PROVE TypeOK'
  BY <1>5 DEF SetPassword
<1>6. ASSUME NEW c \in Confirm, MarkUsed(c) PROVE TypeOK'
  BY <1>6 DEF MarkUsed, Spend
<1>7. ASSUME NEW h \in Change, CheckOld(h) PROVE TypeOK'
  BY <1>7 DEF CheckOld
<1>8. ASSUME NEW h \in Change, Write(h) PROVE TypeOK'
  BY <1>8 DEF Write
<1>9. ASSUME NEW u \in User, Delete(u) PROVE TypeOK'
  BY <1>9 DEF Delete
<1>10. CASE Purge
  BY <1>10 DEF Purge
<1>11. CASE UNCHANGED vars
  BY <1>11 DEF vars
<1>12. QED
  BY <1>1, <1>2, <1>3, <1>4, <1>5, <1>6, <1>7, <1>8, <1>9, <1>10, <1>11 DEF Next

\* The type invariant of the reset tokens holds in every reachable state.
THEOREM ResetTypes == Spec => []TypeOK
<1>1. Init => TypeOK
  BY DEF Init, TypeOK
<1>2. TypeOK /\ [Next]_vars => TypeOK'
  BY TypeNext, ResetAssumption
<1>3. QED BY <1>1, <1>2, PTL DEF Spec

-----------------------------------------------------------------------------
(* The token side of the invariant: a token exists only once its request   *)
(* has created it, a confirmation past its check has a row or had one, and *)
(* the row of an acknowledged confirmation is used or gone; a used row has *)
(* a confirmation that got as far as marking it.                           *)

TokenInv ==
  /\ \A t \in Token : ask[t] \in {"idle", "found"} => tok[t] = "none"
  /\ \A c \in Confirm : cpc[c] \in {"hashing", "marking"} => tok[TokenOf[c]] # "none"
  /\ \A c \in Confirm : cpc[c] = "ok" => tok[TokenOf[c]] \in {"used", "gone"}
  /\ \A c \in stale \intersect Confirm : cpc[c] \in {"notFound", "alreadyUsed"}
  /\ \A t \in Token : tok[t] = "used" =>
       \E c \in Confirm : TokenOf[c] = t /\ cpc[c] \in {"ok", "unmarked"}

LEMMA TokenNext ==
  ASSUME ResetAssumption, TypeOK, TokenInv, [Next]_vars
  PROVE  TokenInv'
<1> USE DEF TypeOK, ResetAssumption, TokenInv, Goto
<1>1. ASSUME NEW t \in Token, Look(t) \/ Expire(t) PROVE TokenInv'
  BY <1>1 DEF Look, Expire
<1>2. ASSUME NEW t \in Token, Issue(t) PROVE TokenInv'
  BY <1>2 DEF Issue
<1>3. ASSUME NEW c \in Confirm, ReadToken(c) PROVE TokenInv'
  BY <1>3 DEF ReadToken, Acked
<1>4. ASSUME NEW c \in Confirm, SetPassword(c) PROVE TokenInv'
  BY <1>4 DEF SetPassword
<1>5. ASSUME NEW c \in Confirm, MarkUsed(c) PROVE TokenInv'
  BY <1>5 DEF MarkUsed, Spend
<1>6. ASSUME NEW h \in Change, CheckOld(h) PROVE TokenInv'
  BY <1>6 DEF CheckOld
<1>7. ASSUME NEW h \in Change, Write(h) PROVE TokenInv'
  BY <1>7 DEF Write
<1>8. ASSUME NEW u \in User, Delete(u) PROVE TokenInv'
  BY <1>8 DEF Delete
<1>9. CASE Purge
  BY <1>9 DEF Purge, Purgeable
<1>10. CASE UNCHANGED vars
  BY <1>10 DEF vars
<1>11. QED
  BY <1>1, <1>2, <1>3, <1>4, <1>5, <1>6, <1>7, <1>8, <1>9, <1>10 DEF Next

-----------------------------------------------------------------------------
(* The password side: whoever set a password got past its check, and where *)
(* such a call has got that far the registered password is gone for good.  *)

PasswordInv ==
  /\ \A u \in User : pass[u] \in Confirm => cpc[pass[u]] \in {"marking", "ok", "failed", "unmarked"}
  /\ \A u \in User : pass[u] \in Change => hpc[pass[u]] \in {"ok", "failed"}
  /\ \A c \in Confirm : cpc[c] \in {"marking", "ok", "unmarked"} =>
                           pass[OwnerOf[TokenOf[c]]] # Initial
  /\ \A h \in Change : hpc[h] = "ok" => pass[UserOf[h]] # Initial
  /\ \A h \in stale \intersect Change : hpc[h] = "refused" /\ pass[UserOf[h]] # Initial

LEMMA PasswordNext ==
  ASSUME ResetAssumption, TypeOK, PasswordInv, [Next]_vars
  PROVE  PasswordInv'
<1> USE DEF TypeOK, ResetAssumption, PasswordInv, Goto
<1>1. ASSUME NEW t \in Token, Look(t) \/ Issue(t) \/ Expire(t) PROVE PasswordInv'
  BY <1>1 DEF Look, Issue, Expire
<1>2. ASSUME NEW c \in Confirm, ReadToken(c) PROVE PasswordInv'
  BY <1>2 DEF ReadToken
<1>3. ASSUME NEW c \in Confirm, SetPassword(c) PROVE PasswordInv'
  BY <1>3 DEF SetPassword
<1>4. ASSUME NEW c \in Confirm, MarkUsed(c) PROVE PasswordInv'
  BY <1>4 DEF MarkUsed
<1>5. ASSUME NEW h \in Change, CheckOld(h) PROVE PasswordInv'
  BY <1>5 DEF CheckOld, Replaced, Acked
<1>6. ASSUME NEW h \in Change, Write(h) PROVE PasswordInv'
  BY <1>6 DEF Write
<1>7. ASSUME NEW u \in User, Delete(u) PROVE PasswordInv'
  BY <1>7 DEF Delete
<1>8. CASE Purge
  BY <1>8 DEF Purge
<1>9. CASE UNCHANGED vars
  BY <1>9 DEF vars
<1>10. QED
  BY <1>1, <1>2, <1>3, <1>4, <1>5, <1>6, <1>7, <1>8, <1>9 DEF Next

ResetInv == TypeOK /\ TokenInv /\ PasswordInv

LEMMA ResetHolds == Spec => []ResetInv
<1>1. Init => ResetInv
  BY ResetAssumption DEF Init, ResetInv, TypeOK, TokenInv, PasswordInv, ResetAssumption
<1>2. ResetInv /\ [Next]_vars => ResetInv'
  BY TypeNext, TokenNext, PasswordNext, ResetAssumption DEF ResetInv
<1>3. QED BY <1>1, <1>2, PTL DEF Spec

-----------------------------------------------------------------------------
\* A token whose reset was acknowledged opens nothing to a later confirmation.
THEOREM TokenDies == Spec => []SpentTokenIsDead
<1>1. ResetInv => SpentTokenIsDead
  BY ResetAssumption DEF ResetInv, TypeOK, TokenInv, PasswordInv, SpentTokenIsDead,
                         ResetAssumption
<1>2. QED BY <1>1, ResetHolds, PTL

\* No token is used up by a reset that has not replaced the password.
THEOREM NoTokenIsBurnt == Spec => []TokenIsNotBurnt
<1>1. ResetInv => TokenIsNotBurnt
  BY ResetAssumption DEF ResetInv, TypeOK, TokenInv, PasswordInv, TokenIsNotBurnt,
                         ResetAssumption
<1>2. QED BY <1>1, ResetHolds, PTL

\* A change that begins with a password that has been replaced is refused.
THEOREM OldPasswordDies == Spec => []OldPasswordIsDead
<1>1. ResetInv => OldPasswordIsDead
  BY ResetAssumption DEF ResetInv, TypeOK, PasswordInv, OldPasswordIsDead,
                         ResetAssumption
<1>2. QED BY <1>1, ResetHolds, PTL

\* No step changes the password of a user who has been deleted.
THEOREM DeletedAreFrozen == Spec => DeletedKeepPassword
<1> DEFINE Keep == \A u \in User : u \notin live => pass'[u] = pass[u]
<1>1. ASSUME TypeOK, Next PROVE Keep
  <2> USE <1>1, ResetAssumption DEF TypeOK, ResetAssumption
  <2>1. ASSUME NEW c \in Confirm, SetPassword(c) PROVE Keep
    BY <2>1 DEF SetPassword
  <2>2. ASSUME NEW h \in Change, Write(h) PROVE Keep
    BY <2>2 DEF Write
  <2>3. CASE UNCHANGED pass
    BY <2>3
  <2>4. QED
    BY <2>1, <2>2, <2>3 DEF Next, Look, Issue, Expire, ReadToken, MarkUsed, CheckOld,
                            Delete, Purge
<1>2. TypeOK /\ [Next]_vars => [Keep]_vars
  BY <1>1
<1>3. QED BY <1>2, ResetTypes, PTL DEF Spec, DeletedKeepPassword

=============================================================================
