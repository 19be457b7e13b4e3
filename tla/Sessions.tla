------------------------------ MODULE Sessions ------------------------------
(***************************************************************************)
(* Access tokens and their revocation.  The auth middleware of each        *)
(* instance validates a token against the clock and then looks its id up   *)
(* in the instance's memory of revoked ids; logging out or changing the    *)
(* password writes the id to the table token_blacklist and then to the     *)
(* memory.  Nothing reads the table: a restart forgets what it holds.      *)
(*                                                                         *)
(* Time is in ticks of one second, the resolution of the times in a token. *)
(***************************************************************************)
EXTENDS Naturals, FiniteSets

CONSTANTS
  Tok,      \* access tokens, named by their jti
  Call,     \* calls of protected routes
  Inst,
  TokOf, InstOf,
  KindOf,   \* Call -> "read", "logout" or "password"
  TTL,      \* accessTTL in ticks
  MaxTime,  \* bound on the clock
  MaxBoots, \* bound on restarts
  DbErrors  \* whether the database may fail

ASSUME CallAssumption ==
  /\ TokOf \in [Call -> Tok]
  /\ InstOf \in [Call -> Inst]
  /\ KindOf \in [Call -> {"read", "logout", "password"}]

ASSUME TimeAssumption ==
  /\ TTL \in Nat \ {0}
  /\ MaxTime \in Nat
  /\ MaxBoots \in Nat
  /\ DbErrors \in BOOLEAN

VARIABLES
  now,
  exp,    \* Tok -> its ExpiresAt, 0 until it is issued
  mem,    \* Inst -> the ids in its Blacklist
  table,  \* the ids in token_blacklist
  pc,     \* Call -> where it is
  acked,  \* history: Inst -> ids whose revocation it completed, this boot
  warned, \* history: calls that began when their id was in acked
  sweep,  \* Inst -> where the hourly cleanup is
  boots

vars == <<now, exp, mem, table, pc, acked, warned, sweep, boots>>

PCs == {"idle", "validated", "accepted", "recorded", "ok", "refused", "failed"}

Init == /\ now = 1
        /\ exp = [t \in Tok |-> 0]
        /\ mem = [i \in Inst |-> {}]
        /\ table = {}
        /\ pc = [r \in Call |-> "idle"]
        /\ acked = [i \in Inst |-> {}]
        /\ warned = {}
        /\ sweep = [i \in Inst |-> "idle"]
        /\ boots = 0

Goto(r, p) == pc' = [pc EXCEPT ![r] = p]

Issued(t) == exp[t] # 0
Expired(t) == Issued(t) /\ now > exp[t]

Tick == /\ now < MaxTime
        /\ now' = now + 1
        /\ UNCHANGED <<exp, mem, table, pc, acked, warned, sweep, boots>>

\* Register, Login and Refresh: a token pair with ids of its own.
Issue(t) == /\ ~Issued(t)
            /\ exp' = [exp EXCEPT ![t] = now + TTL]
            /\ UNCHANGED <<now, mem, table, pc, acked, warned, sweep, boots>>

-----------------------------------------------------------------------------
(* A call of a protected route.                                            *)

\* ValidateToken: the library wants now < exp.
Validate(r) ==
  /\ pc[r] = "idle"
  /\ Issued(TokOf[r])
  /\ Goto(r, IF now < exp[TokOf[r]] THEN "validated" ELSE "refused")
  /\ warned' = IF TokOf[r] \in acked[InstOf[r]] THEN warned \union {r} ELSE warned
  /\ UNCHANGED <<now, exp, mem, table, acked, sweep, boots>>

\* Blacklist.Has, a later reading of the clock: an entry past its time is
\* deleted and counts as absent.
Has(r) ==
  LET t == TokOf[r]  i == InstOf[r] IN
  /\ pc[r] = "validated"
  /\ Goto(r, IF t \in mem[i] /\ ~Expired(t) THEN "refused" ELSE "accepted")
  /\ mem' = IF Expired(t) THEN [mem EXCEPT ![i] = @ \ {t}] ELSE mem
  /\ UNCHANGED <<now, exp, table, acked, warned, sweep, boots>>

Read(r) ==
  /\ pc[r] = "accepted"
  /\ KindOf[r] = "read"
  /\ Goto(r, "ok")
  /\ UNCHANGED <<now, exp, mem, table, acked, warned, sweep, boots>>

\* TokenBlacklist.Add
Record(r) ==
  /\ pc[r] = "accepted"
  /\ KindOf[r] # "read"
  /\ table' = table \union {TokOf[r]}
  /\ Goto(r, "recorded")
  /\ UNCHANGED <<now, exp, mem, acked, warned, sweep, boots>>

\* Add fails, or its reply is lost.  Logout reports it; ChangePassword, which
\* has changed the password by then, only logs it.
RecordFails(r) ==
  /\ pc[r] = "accepted"
  /\ KindOf[r] # "read"
  /\ DbErrors
  /\ Goto(r, IF KindOf[r] = "logout" THEN "failed" ELSE "ok")
  /\ table' \in {table, table \union {TokOf[r]}}
  /\ UNCHANGED <<now, exp, mem, acked, warned, sweep, boots>>

\* ChangePassword fails before it comes to the blacklist: wrong old password.
PasswordFails(r) ==
  /\ pc[r] = "accepted"
  /\ KindOf[r] = "password"
  /\ Goto(r, "failed")
  /\ UNCHANGED <<now, exp, mem, table, acked, warned, sweep, boots>>

\* Blacklist.Add, and the answer.
Remember(r) ==
  /\ pc[r] = "recorded"
  /\ mem' = [mem EXCEPT ![InstOf[r]] = @ \union {TokOf[r]}]
  /\ acked' = [acked EXCEPT ![InstOf[r]] = @ \union {TokOf[r]}]
  /\ Goto(r, "ok")
  /\ UNCHANGED <<now, exp, table, warned, sweep, boots>>

-----------------------------------------------------------------------------
(* The hourly cleanup, and restarts.                                       *)

\* Mutant of SweepMem: Cleanup starts a new map.
SweepMemAll(i) ==
  /\ sweep[i] = "idle"
  /\ mem' = [mem EXCEPT ![i] = {}]
  /\ sweep' = [sweep EXCEPT ![i] = "table"]
  /\ UNCHANGED <<now, exp, table, pc, acked, warned, boots>>

SweepMem(i) ==
  /\ sweep[i] = "idle"
  /\ mem' = [mem EXCEPT ![i] = {t \in @ : ~Expired(t)}]
  /\ sweep' = [sweep EXCEPT ![i] = "table"]
  /\ UNCHANGED <<now, exp, table, pc, acked, warned, boots>>

\* Mutant of SweepTable: deletes only the rows of ids still in the memory.
SweepTableKnown(i) ==
  /\ sweep[i] = "table"
  /\ table' = {t \in table : ~(Expired(t) /\ t \in mem[i])}
  /\ sweep' = [sweep EXCEPT ![i] = "idle"]
  /\ UNCHANGED <<now, exp, mem, pc, acked, warned, boots>>

SweepTable(i) ==
  /\ sweep[i] = "table"
  /\ table' = {t \in table : ~Expired(t)}
  /\ sweep' = [sweep EXCEPT ![i] = "idle"]
  /\ UNCHANGED <<now, exp, mem, pc, acked, warned, boots>>

\* The error is logged and forgotten until the next tick.
SweepTableFails(i) ==
  /\ sweep[i] = "table"
  /\ DbErrors
  /\ sweep' = [sweep EXCEPT ![i] = "idle"]
  /\ UNCHANGED <<now, exp, mem, table, pc, acked, warned, boots>>

\* A new process starts with cache.NewBlacklist().
Restart(i) ==
  /\ boots < MaxBoots
  /\ boots' = boots + 1
  /\ mem' = [mem EXCEPT ![i] = {}]
  /\ acked' = [acked EXCEPT ![i] = {}]
  /\ sweep' = [sweep EXCEPT ![i] = "idle"]
  /\ pc' = [r \in Call |-> IF InstOf[r] = i /\ pc[r] \in {"validated", "accepted", "recorded"}
                           THEN "failed" ELSE pc[r]]
  /\ warned' = {r \in warned : InstOf[r] # i}
  /\ UNCHANGED <<now, exp, table>>

Next == \/ Tick
        \/ \E t \in Tok : Issue(t)
        \/ \E r \in Call : \/ Validate(r) \/ Has(r) \/ Read(r)
                           \/ Record(r) \/ RecordFails(r)
                           \/ PasswordFails(r) \/ Remember(r)
        \/ \E i \in Inst : SweepMem(i) \/ SweepTable(i) \/ SweepTableFails(i) \/ Restart(i)

Spec == Init /\ [][Next]_vars

\* Handlers return, the ticker of the cleanup goes on firing, and not every
\* DELETE of an instance's cleanups fails.
FairSpec ==
  /\ Spec
  /\ \A r \in Call : WF_vars(\/ Has(r) \/ Read(r) \/ Record(r) \/ RecordFails(r)
                             \/ PasswordFails(r) \/ Remember(r))
  /\ \A i \in Inst : WF_vars(SweepMem(i)) /\ SF_vars(SweepTable(i))

-----------------------------------------------------------------------------
TypeOK ==
  /\ now \in Nat
  /\ exp \in [Tok -> Nat]
  /\ mem \in [Inst -> SUBSET Tok]
  /\ table \subseteq Tok
  /\ pc \in [Call -> PCs]
  /\ acked \in [Inst -> SUBSET Tok]
  /\ warned \subseteq Call
  /\ sweep \in [Inst -> {"idle", "table"}]
  /\ boots \in 0..MaxBoots

\* A call that begins after the instance has revoked its token is not served,
\* whatever the cleanups do in between.  The one gap is the clock: a token
\* that expires between ValidateToken and Has is let through once.
Served(r) == pc[r] \in {"accepted", "recorded", "ok"}
RevokedIsRefused == \A r \in warned : Served(r) => Expired(TokOf[r])

\* An id is in a memory only while it is in the table or past its time: the
\* table would be enough to rebuild the memory after a restart.
MemoryIsRecorded ==
  \A i \in Inst : \A t \in mem[i] : t \in table \/ Expired(t)

\* Whatever has expired is in the end forgotten for good by every memory and
\* by the table, with calls in flight adding to both while they are swept.
ExpiredIsForgotten ==
  \A t \in Tok : Expired(t) ~> [](t \notin table /\ \A i \in Inst : t \notin mem[i])

=============================================================================
