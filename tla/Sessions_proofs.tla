--------------------------- MODULE Sessions_proofs ---------------------------
(***************************************************************************)
(* Proofs about Sessions for any tokens, calls, instances and lifetimes.   *)
(***************************************************************************)
EXTENDS Sessions, TLAPS

LEMMA TypeNext ==
  ASSUME CallAssumption, TimeAssumption, TypeOK, [Next]_vars
  PROVE  TypeOK'
<1> USE DEF TypeOK, CallAssumption, TimeAssumption, PCs, Goto
<1>1. CASE Tick
  BY <1>1 DEF Tick
<1>2. ASSUME NEW t \in Tok, Issue(t) PROVE TypeOK'
  BY <1>2 DEF Issue
<1>3. ASSUME NEW r \in Call, Validate(r) PROVE TypeOK'
  BY <1>3 DEF Validate
<1>4. ASSUME NEW r \in Call, Has(r) PROVE TypeOK'
  BY <1>4 DEF Has
<1>5. ASSUME NEW r \in Call, Read(r) \/ PasswordFails(r) PROVE TypeOK'
  BY <1>5 DEF Read, PasswordFails
<1>6. ASSUME NEW r \in Call, Record(r) PROVE TypeOK'
  BY <1>6 DEF Record
<1>7. ASSUME NEW r \in Call, RecordFails(r) PROVE TypeOK'
  BY <1>7 DEF RecordFails
<1>8. ASSUME NEW r \in Call, Remember(r) PROVE TypeOK'
  BY <1>8 DEF Remember
<1>9. ASSUME NEW i \in Inst, SweepMem(i) \/ SweepTable(i) \/ SweepTableFails(i) PROVE TypeOK'
  BY <1>9 DEF SweepMem, SweepTable, SweepTableFails
<1>10. ASSUME NEW i \in Inst, Restart(i) PROVE TypeOK'
  BY <1>10 DEF Restart
<1>11. CASE UNCHANGED vars
  BY <1>11 DEF vars
<1>12. QED
  BY <1>1, <1>2, <1>3, <1>4, <1>5, <1>6, <1>7, <1>8, <1>9, <1>10, <1>11 DEF Next

\* The type invariant of the sessions holds in every reachable state.
THEOREM SessionTypes == Spec => []TypeOK
<1>1. Init => TypeOK
  BY TimeAssumption DEF Init, TypeOK, PCs, TimeAssumption
<1>2. TypeOK /\ [Next]_vars => TypeOK'
  BY TypeNext, CallAssumption, TimeAssumption
<1>3. QED BY <1>1, <1>2, PTL DEF Spec

-----------------------------------------------------------------------------
(* The invariant: until it expires, an id whose revocation the instance    *)
(* has completed stays in its memory; a warned call that has not asked the *)
(* memory yet carries such an id; an id that is about to enter a memory is *)
(* in the table.                                                           *)

RevocationInv ==
  /\ \A i \in Inst : \A t \in acked[i] : t \in mem[i] \/ Expired(t)
  /\ \A r \in warned : /\ pc[r] # "idle"
                       /\ pc[r] = "validated" => TokOf[r] \in acked[InstOf[r]]
  /\ \A r \in Call : pc[r] = "recorded" => TokOf[r] \in table \/ Expired(TokOf[r])
  /\ RevokedIsRefused
  /\ MemoryIsRecorded

\* What has expired stays so.
LEMMA ExpiryLasts ==
  ASSUME TypeOK, TimeAssumption, [Next]_vars, NEW t \in Tok, Expired(t)
  PROVE  Expired(t)'
BY DEF TypeOK, TimeAssumption, Next, vars, Expired, Issued, Tick, Issue, Validate,
   Has, Read, PasswordFails, Record, RecordFails, Remember, SweepMem, SweepTable, SweepTableFails,
   Restart

LEMMA RevocationNext ==
  ASSUME CallAssumption, TimeAssumption, TypeOK, RevocationInv, [Next]_vars
  PROVE  RevocationInv'
<1> USE DEF RevocationInv, TypeOK, CallAssumption, RevokedIsRefused, MemoryIsRecorded,
            Served, Goto
<1>0. \A t \in Tok : Expired(t) => Expired(t)'
  BY ExpiryLasts
<1>1. CASE Tick
  BY <1>0, <1>1 DEF Tick
<1>2. ASSUME NEW t \in Tok, Issue(t) PROVE RevocationInv'
  BY <1>0, <1>2 DEF Issue
<1>3. ASSUME NEW r \in Call, Validate(r) PROVE RevocationInv'
  BY <1>0, <1>3 DEF Validate
<1>4. ASSUME NEW r \in Call, Has(r) PROVE RevocationInv'
  BY <1>0, <1>4 DEF Has
<1>5. ASSUME NEW r \in Call, Read(r) \/ PasswordFails(r) PROVE RevocationInv'
  BY <1>0, <1>5 DEF Read, PasswordFails
<1>6. ASSUME NEW r \in Call, Record(r) PROVE RevocationInv'
  BY <1>0, <1>6 DEF Record
<1>7. ASSUME NEW r \in Call, RecordFails(r) PROVE RevocationInv'
  BY <1>0, <1>7 DEF RecordFails
<1>8. ASSUME NEW r \in Call, Remember(r) PROVE RevocationInv'
  BY <1>0, <1>8 DEF Remember
<1>9. ASSUME NEW i \in Inst, SweepMem(i) PROVE RevocationInv'
  BY <1>0, <1>9 DEF SweepMem
<1>10. ASSUME NEW i \in Inst, SweepTable(i) \/ SweepTableFails(i) PROVE RevocationInv'
  BY <1>0, <1>10 DEF SweepTable, SweepTableFails
<1>11. ASSUME NEW i \in Inst, Restart(i) PROVE RevocationInv'
  BY <1>0, <1>11 DEF Restart
<1>12. CASE UNCHANGED vars
  BY <1>12 DEF vars, Expired, Issued
<1>13. QED
  BY <1>1, <1>2, <1>3, <1>4, <1>5, <1>6, <1>7, <1>8, <1>9, <1>10, <1>11, <1>12
  DEF Next

LEMMA RevocationInvariant == Spec => []RevocationInv
<1>1. Init => RevocationInv
  BY DEF Init, RevocationInv, RevokedIsRefused, MemoryIsRecorded
<1>2. TypeOK /\ RevocationInv /\ [Next]_vars => RevocationInv'
  BY RevocationNext, CallAssumption, TimeAssumption
<1>3. QED BY <1>1, <1>2, SessionTypes, PTL DEF Spec

\* No call that begins after its instance revoked the token is served, unless
\* the token expired while the call was being checked.
THEOREM RevocationHolds == Spec => []RevokedIsRefused
<1>1. RevocationInv => RevokedIsRefused
  BY DEF RevocationInv
<1>2. QED BY <1>1, RevocationInvariant, PTL

\* Every unexpired id of a memory is in the table.
THEOREM MemoryIsDurable == Spec => []MemoryIsRecorded
<1>1. RevocationInv => MemoryIsRecorded
  BY DEF RevocationInv
<1>2. QED BY <1>1, RevocationInvariant, PTL

=============================================================================
