---------------------------- MODULE Idempotency ----------------------------
(***************************************************************************)
(* The idempotency middleware of several instances of the server that      *)
(* share one PostgreSQL database: each request that carries a key opens a  *)
(* transaction, waits in it for the advisory lock of the key, looks the    *)
(* key up in the instance's memory and then in request_cache, and on a     *)
(* miss runs the handler and saves its response in both.                   *)
(*                                                                         *)
(* The transaction only carries the lock.  The lookup, the handler and the *)
(* INSERT run on other connections of the same pool, so a request in       *)
(* flight holds one connection throughout and asks for a second one three  *)
(* times.  A response is named by the request whose execution produced it. *)
(***************************************************************************)
EXTENDS LruCache, FiniteSets

CONSTANTS
  Req,        \* requests with an Idempotency-Key (the others pass through)
  Key,        \* CacheKey: user, path, verb and header value
  LockKey,    \* advisoryLockKey: a hash of the header value alone
  Inst,       \* server instances, each with a pool and a memory of its own
  KeyOf, LockOf, InstOf,
  MaxConns,   \* POSTGRES_POOL_MAX_CONNS
  MaxEntries, \* the in-memory cache's limit
  Faults,     \* the failures that may happen
  MaxCrashes, \* bound on restarts
  None, Error

FaultKinds == {"deadline", "dberr", "ttl", "crash"}

ASSUME ReqAssumption ==
  /\ IsFiniteSet(Req)
  /\ KeyOf \in [Req -> Key]
  /\ LockOf \in [Key -> LockKey]
  /\ InstOf \in [Req -> Inst]
  /\ None \notin Req /\ Error \notin Req /\ None # Error

ASSUME BoundAssumption ==
  /\ MaxConns \in Nat \ {0}
  /\ MaxEntries \in Nat
  /\ MaxCrashes \in Nat
  /\ Faults \subseteq FaultKinds

VARIABLES
  pc,      \* where each request is in Middleware()
  tx,      \* its transaction, which carries the advisory lock
  owner,   \* LockKey -> the request whose transaction holds the lock
  mem,     \* Inst -> InMemoryCache
  row,     \* Key -> the response in request_cache, None where no row is
  ran,     \* the requests whose handler took effect
  aged,    \* responses older than ttlDays
  late,    \* requests whose context has hit its deadline
  slipped, \* history: requests whose bookkeeping failed somewhere
  answer,  \* what the client receives: None, Error or a response
  cleaner, \* Inst -> where CleanupOld is
  crashes  \* restarts so far

vars == <<pc, tx, owner, mem, row, ran, aged, late, slipped, answer, cleaner,
          crashes>>

PCs == {"idle", "begin", "lock", "check", "wantGet", "getting", "wantRun",
        "running", "wantStore", "storing", "done", "lost", "dead"}

Init ==
  /\ pc = [r \in Req |-> "idle"]
  /\ tx = [r \in Req |-> "none"]
  /\ owner = [l \in LockKey |-> None]
  /\ mem = [i \in Inst |-> LruEmpty]
  /\ row = [k \in Key |-> None]
  /\ ran = {}
  /\ aged = {}
  /\ late = {}
  /\ slipped = {}
  /\ answer = [r \in Req |-> None]
  /\ cleaner = [i \in Inst |-> "idle"]
  /\ crashes = 0

-----------------------------------------------------------------------------
(* The pool, the transaction and its lock.                                 *)

OpenTxs(i) == {r \in Req : InstOf[r] = i /\ tx[r] = "open"}
OnConn(i) == {r \in Req : InstOf[r] = i /\ pc[r] \in {"getting", "running", "storing"}}
ConnFree(i) == Cardinality(OpenTxs(i)) + Cardinality(OnConn(i)) < MaxConns

LockNeeded(r) == LockOf[KeyOf[r]]

InFlight(r) == pc[r] \notin {"idle", "done", "lost", "dead"}

\* A call with the request's context may fail: past its deadline, or because
\* the database does.
MayFail(r) == r \in late \/ "dberr" \in Faults

\* Mutant of EndTxs: a session-level advisory lock, which a COMMIT leaves held.
EndTxsKeepLocks(R, how) ==
  /\ tx' = [r \in Req |-> IF r \in R /\ tx[r] = "open" THEN how ELSE tx[r]]
  /\ UNCHANGED owner

\* The transactions in R end and PostgreSQL releases the locks they hold.
EndTxs(R, how) ==
  /\ tx' = [r \in Req |-> IF r \in R /\ tx[r] = "open" THEN how ELSE tx[r]]
  /\ owner' = [l \in LockKey |-> IF owner[l] \in R THEN None ELSE owner[l]]

\* The middleware returns: Commit, or the deferred Rollback, and the answer.
Return(r, how, a) ==
  /\ EndTxs({r}, how)
  /\ pc' = [pc EXCEPT ![r] = "done"]
  /\ answer' = [answer EXCEPT ![r] = a]

Goto(r, p) == /\ pc' = [pc EXCEPT ![r] = p]
              /\ UNCHANGED <<tx, owner, answer>>

\* Mutant of MemSet: the memory's key is the header value alone.
MemSetByHeader(r, v) ==
  LET k == CHOOSE x \in Key : LockOf[x] = LockNeeded(r)
  IN  mem' = [mem EXCEPT ![InstOf[r]] = LruSet(@, k, v, MaxEntries)]

MemSet(r, v) ==
  mem' = [mem EXCEPT ![InstOf[r]] = LruSet(@, KeyOf[r], v, MaxEntries)]

-----------------------------------------------------------------------------
(* One request, step by step.                                              *)

Arrive(r) ==
  /\ pc[r] = "idle"
  /\ Goto(r, "begin")
  /\ UNCHANGED <<mem, row, ran, aged, late, slipped, cleaner, crashes>>

\* BeginTxx gets a connection.
Begin(r) ==
  /\ pc[r] = "begin"
  /\ r \notin late
  /\ ConnFree(InstOf[r])
  /\ pc' = [pc EXCEPT ![r] = "lock"]
  /\ tx' = [tx EXCEPT ![r] = "open"]
  /\ UNCHANGED <<owner, mem, row, ran, aged, late, slipped, answer, cleaner, crashes>>

\* Mutant of Lock: pg_try_advisory_xact_lock with its result ignored.
LockTry(r) ==
  /\ pc[r] = "lock"
  /\ tx[r] = "open"
  /\ owner' = [owner EXCEPT ![LockNeeded(r)] = r]
  /\ pc' = [pc EXCEPT ![r] = "check"]
  /\ UNCHANGED <<tx, mem, row, ran, aged, late, slipped, answer, cleaner, crashes>>

\* pg_advisory_xact_lock returns.
Lock(r) ==
  /\ pc[r] = "lock"
  /\ tx[r] = "open"
  /\ owner[LockNeeded(r)] = None
  /\ owner' = [owner EXCEPT ![LockNeeded(r)] = r]
  /\ pc' = [pc EXCEPT ![r] = "check"]
  /\ UNCHANGED <<tx, mem, row, ran, aged, late, slipped, answer, cleaner, crashes>>

\* Mutant of Refuse: the wait for the lock does not take the request's context.
RefuseBegin(r) ==
  /\ pc[r] = "begin"
  /\ MayFail(r)
  /\ Return(r, "rolledback", Error)
  /\ UNCHANGED <<mem, row, ran, aged, late, slipped, cleaner, crashes>>

\* BeginTxx or the lock fails: 503, nothing was executed.
Refuse(r) ==
  /\ pc[r] \in {"begin", "lock"}
  /\ MayFail(r)
  /\ Return(r, "rolledback", Error)
  /\ UNCHANGED <<mem, row, ran, aged, late, slipped, cleaner, crashes>>

\* The memory has the key: the stored response is replayed.  No TTL check.
MemHit(r) ==
  /\ pc[r] = "check"
  /\ LruHas(mem[InstOf[r]], KeyOf[r])
  /\ Return(r, "committed", mem[InstOf[r]].items[KeyOf[r]])
  /\ mem' = [mem EXCEPT ![InstOf[r]] = LruGet(@, KeyOf[r])]
  /\ UNCHANGED <<row, ran, aged, late, slipped, cleaner, crashes>>

\* Mutant of MemMiss: the transaction is committed once the memory missed.
MemMissCommit(r) ==
  /\ pc[r] = "check"
  /\ ~LruHas(mem[InstOf[r]], KeyOf[r])
  /\ pc' = [pc EXCEPT ![r] = "wantGet"]
  /\ EndTxs({r}, "committed")
  /\ UNCHANGED <<mem, row, ran, aged, late, slipped, answer, cleaner, crashes>>

MemMiss(r) ==
  /\ pc[r] = "check"
  /\ ~LruHas(mem[InstOf[r]], KeyOf[r])
  /\ Goto(r, "wantGet")
  /\ UNCHANGED <<mem, row, ran, aged, late, slipped, cleaner, crashes>>

\* The SELECT, the handler and the INSERT each take a second connection.
NextOnConn == [wantGet |-> "getting", wantRun |-> "running", wantStore |-> "storing"]

GetConn(r) ==
  /\ pc[r] \in DOMAIN NextOnConn
  /\ r \notin late
  /\ ConnFree(InstOf[r])
  /\ Goto(r, NextOnConn[pc[r]])
  /\ UNCHANGED <<mem, row, ran, aged, late, slipped, cleaner, crashes>>

\* WHERE expires_at > NOW()
Readable(k) == row[k] # None /\ row[k] \notin aged

RowHit(r) ==
  /\ pc[r] = "getting"
  /\ Readable(KeyOf[r])
  /\ MemSet(r, row[KeyOf[r]])
  /\ Return(r, "committed", row[KeyOf[r]])
  /\ UNCHANGED <<row, ran, aged, late, slipped, cleaner, crashes>>

RowMiss(r) ==
  /\ pc[r] = "getting"
  /\ ~Readable(KeyOf[r])
  /\ Goto(r, "wantRun")
  /\ UNCHANGED <<mem, row, ran, aged, late, slipped, cleaner, crashes>>

\* getCachedByKey takes any other error of the SELECT for a miss.
BlindMiss(r) ==
  /\ pc[r] \in {"wantGet", "getting"}
  /\ MayFail(r)
  /\ Goto(r, "wantRun")
  /\ slipped' = slipped \union {r}
  /\ UNCHANGED <<mem, row, ran, aged, late, cleaner, crashes>>

\* Mutant of RunOk: the transaction is committed before the response is saved.
RunOkCommit(r) ==
  /\ pc[r] = "running"
  /\ ran' = ran \union {r}
  /\ MemSet(r, r)
  /\ pc' = [pc EXCEPT ![r] = "wantStore"]
  /\ EndTxs({r}, "committed")
  /\ UNCHANGED <<row, aged, late, slipped, answer, cleaner, crashes>>

\* The handler succeeds; its response goes to the memory first.
RunOk(r) ==
  /\ pc[r] = "running"
  /\ ran' = ran \union {r}
  /\ MemSet(r, r)
  /\ Goto(r, "wantStore")
  /\ UNCHANGED <<row, aged, late, slipped, cleaner, crashes>>

\* The handler returns an error and has changed nothing: not cached.
RunFail(r) ==
  /\ pc[r] \in {"wantRun", "running"}
  /\ pc[r] = "wantRun" => MayFail(r)
  /\ Return(r, "rolledback", Error)
  /\ UNCHANGED <<mem, row, ran, aged, late, slipped, cleaner, crashes>>

\* The handler's write took effect but a later call of it, or the reply to
\* its COMMIT, failed: the handler returns an error and nothing is cached.
RunLost(r) ==
  /\ pc[r] = "running"
  /\ MayFail(r)
  /\ ran' = ran \union {r}
  /\ slipped' = slipped \union {r}
  /\ EndTxs({r}, "rolledback")
  /\ pc' = [pc EXCEPT ![r] = "lost"]
  /\ answer' = [answer EXCEPT ![r] = Error]
  /\ UNCHANGED <<mem, row, aged, late, cleaner, crashes>>

\* Mutant of Insert: ON CONFLICT DO UPDATE.
Upsert(r) == row' = [row EXCEPT ![KeyOf[r]] = r]

\* INSERT ... ON CONFLICT DO NOTHING: a row that is there stays, an expired
\* one that no cleanup has deleted yet included.
Insert(r) == row' = [row EXCEPT ![KeyOf[r]] = IF @ = None THEN r ELSE @]

StoreOk(r) ==
  /\ pc[r] = "storing"
  /\ Insert(r)
  /\ slipped' = IF row[KeyOf[r]] = None THEN slipped ELSE slipped \union {r}
  /\ Return(r, "committed", r)
  /\ UNCHANGED <<mem, ran, aged, late, cleaner, crashes>>

\* Mutant of StoreFail: the middleware returns the error of Create.
StoreFailReported(r) ==
  /\ pc[r] \in {"wantStore", "storing"}
  /\ MayFail(r)
  /\ (pc[r] = "storing" /\ Insert(r)) \/ UNCHANGED row
  /\ slipped' = slipped \union {r}
  /\ Return(r, "rolledback", Error)
  /\ UNCHANGED <<mem, ran, aged, late, cleaner, crashes>>

\* Create returns an error.  The response was written before: the client
\* still gets it.  The row may have been inserted all the same.
StoreFail(r) ==
  /\ pc[r] \in {"wantStore", "storing"}
  /\ MayFail(r)
  /\ (pc[r] = "storing" /\ Insert(r)) \/ UNCHANGED row
  /\ slipped' = slipped \union {r}
  /\ Return(r, "rolledback", r)
  /\ UNCHANGED <<mem, ran, aged, late, cleaner, crashes>>

-----------------------------------------------------------------------------
(* What happens around it.                                                 *)

\* The request's context hits HTTP_REQUEST_TIMEOUT_SEC.
Deadline(r) ==
  /\ "deadline" \in Faults
  /\ InFlight(r)
  /\ r \notin late
  /\ late' = late \union {r}
  /\ UNCHANGED <<pc, tx, owner, mem, row, ran, aged, slipped, answer, cleaner, crashes>>

\* database/sql rolls the transaction back behind the handler's back, or its
\* session is lost: the lock is free while the request goes on.
LoseTx(r) ==
  /\ tx[r] = "open"
  /\ MayFail(r)
  /\ EndTxs({r}, "rolledback")
  /\ slipped' = slipped \union {r}
  /\ UNCHANGED <<pc, mem, row, ran, aged, late, answer, cleaner, crashes>>

\* ttlDays after x was executed.
Age(x) ==
  /\ "ttl" \in Faults
  /\ x \in ran \ aged
  /\ aged' = aged \union {x}
  /\ UNCHANGED <<pc, tx, owner, mem, row, ran, late, slipped, answer, cleaner, crashes>>

\* CleanupOld: first the memory, then the table (one more pool connection).
CleanMem(i) ==
  /\ cleaner[i] = "idle"
  /\ aged # {}
  /\ mem' = [mem EXCEPT ![i] = LruDeleteOld(@, aged)]
  /\ cleaner' = [cleaner EXCEPT ![i] = "purge"]
  /\ UNCHANGED <<pc, tx, owner, row, ran, aged, late, slipped, answer, crashes>>

CleanRows(i) ==
  /\ cleaner[i] = "purge"
  /\ \/ ConnFree(i) /\ row' = [k \in Key |-> IF row[k] \in aged THEN None ELSE row[k]]
     \/ "dberr" \in Faults /\ UNCHANGED row
  /\ cleaner' = [cleaner EXCEPT ![i] = "idle"]
  /\ UNCHANGED <<pc, tx, owner, mem, ran, aged, late, slipped, answer, crashes>>

\* The process of instance i dies and is restarted with an empty memory.  Of
\* the statements it had in flight, some were committed.
Crash(i) ==
  LET hit == {r \in Req : InstOf[r] = i /\ InFlight(r)}
  IN
  /\ "crash" \in Faults
  /\ crashes < MaxCrashes
  /\ pc' = [r \in Req |-> IF r \in hit THEN "dead" ELSE pc[r]]
  /\ EndTxs(hit, "rolledback")
  /\ mem' = [mem EXCEPT ![i] = LruEmpty]
  /\ \E effects \in SUBSET {r \in hit : pc[r] = "running"} : ran' = ran \union effects
  /\ row' \in {f \in [Key -> Req \union {None}] :
                 \A k \in Key :
                   \/ f[k] = row[k]
                   \/ /\ row[k] = None
                      /\ f[k] \in {r \in hit : pc[r] = "storing" /\ KeyOf[r] = k}}
  /\ slipped' = slipped \union hit
  /\ cleaner' = [cleaner EXCEPT ![i] = "idle"]
  /\ crashes' = crashes + 1
  /\ UNCHANGED <<aged, late, answer>>

-----------------------------------------------------------------------------
Step(r) ==
  \/ Begin(r) \/ Refuse(r) \/ MemHit(r) \/ MemMiss(r) \/ GetConn(r)
  \/ RowHit(r) \/ RowMiss(r) \/ BlindMiss(r)
  \/ RunOk(r) \/ RunFail(r) \/ RunLost(r) \/ StoreOk(r) \/ StoreFail(r)

Next ==
  \/ \E r \in Req : \/ Arrive(r) \/ Lock(r) \/ Step(r)
                    \/ Deadline(r) \/ LoseTx(r) \/ Age(r)
  \/ \E i \in Inst : CleanMem(i) \/ CleanRows(i) \/ Crash(i)

Spec == Init /\ [][Next]_vars

\* A request's own steps are taken by its goroutine; timers fire.
Fairness == \A r \in Req : WF_vars(Step(r)) /\ WF_vars(Deadline(r) \/ LoseTx(r))

\* Those that wait for a connection or for the lock are served by queues that
\* pass nobody over for ever: database/sql's waiters, PostgreSQL's lock queue.
QueueFairness == \A r \in Req : SF_vars(Begin(r) \/ GetConn(r) \/ Lock(r))

TimedSpec == Spec /\ Fairness
FairSpec == Spec /\ Fairness /\ QueueFairness

-----------------------------------------------------------------------------
(* Properties.                                                             *)

TypeOK ==
  /\ pc \in [Req -> PCs]
  /\ tx \in [Req -> {"none", "open", "committed", "rolledback"}]
  /\ owner \in [LockKey -> Req \union {None}]
  /\ DOMAIN mem = Inst
  /\ \A i \in Inst : \A k \in DOMAIN mem[i].items :
       k \in Key /\ mem[i].items[k] \in Req
  /\ row \in [Key -> Req \union {None}]
  /\ ran \subseteq Req
  /\ aged \subseteq ran
  /\ late \subseteq Req
  /\ slipped \subseteq Req
  /\ answer \in [Req -> Req \union {None, Error}]
  /\ cleaner \in [Inst -> {"idle", "purge"}]
  /\ crashes \in 0..MaxCrashes

\* What may excuse a repeated execution: the bookkeeping of the request
\* failed somewhere, or its response has outlived ttlDays.
Excused(r) == r \in slipped \/ r \in aged

\* A key is executed twice only if the bookkeeping of one of the two
\* executions failed or expired: no interleaving of healthy requests, on any
\* instances, with any evictions and restarts in between, repeats one.
RepeatIsExcused ==
  \A x, y \in ran : x # y /\ KeyOf[x] = KeyOf[y] => Excused(x) \/ Excused(y)

\* From the lookup to the INSERT the request holds the lock of its key, on
\* whatever instance it runs, unless its transaction was lost.
Critical(r) == pc[r] \in {"check", "wantGet", "getting", "wantRun", "running",
                         "wantStore", "storing"}

LockProtects ==
  \A x, y \in Req : /\ Critical(x) /\ Critical(y)
                    /\ LockNeeded(x) = LockNeeded(y)
                    /\ x \notin slipped /\ y \notin slipped
                    => x = y

\* What took effect is in the table before its lock is released: a restart
\* or an eviction, which empty the memory, then lose no response.
EffectIsSaved ==
  \A r \in ran : \/ Excused(r)
                 \/ row[KeyOf[r]] = r
                 \/ pc[r] \in {"wantStore", "storing"} /\ owner[LockNeeded(r)] = r

\* A response a client receives was produced by an execution of the same key
\* (user, path, verb and header): the lock may be shared with other keys and
\* the memory evicts, but no response strays.
ReplayFaithful ==
  \A r \in Req : answer[r] \in Req => /\ answer[r] \in ran
                                     /\ KeyOf[answer[r]] = KeyOf[r]

\* An error tells the client that nothing was done, with one exception: the
\* handler itself reported one after its write.  What the bookkeeping does, a
\* lookup or an INSERT that fails, a transaction that is lost or a deadline
\* between any two statements, turns no effect into an error.
ErrorMeansNotDone == \A r \in Req : answer[r] = Error /\ r \in ran => pc[r] = "lost"

\* A row is never overwritten, and never deleted before it has expired.
RowsOnlyExpire ==
  [][\A k \in Key : row[k] # None /\ row'[k] # row[k]
                     => row[k] \in aged /\ row'[k] = None]_vars

\* Every request is answered, or its instance restarts.
EveryRequestAnswered == \A r \in Req : InFlight(r) ~> ~InFlight(r)

\* Nothing can move: every request in flight waits for a connection or for a
\* lock that another one holds.
Waits(r) ==
  \/ pc[r] \in {"begin", "wantGet", "wantRun", "wantStore"} /\ ~ConnFree(InstOf[r])
  \/ pc[r] = "lock" /\ owner[LockNeeded(r)] # None

Wedged == /\ \E r \in Req : InFlight(r)
          /\ \A r \in Req : InFlight(r) => Waits(r)

\* Requests wait for each other for ever only if some instance has given all
\* its connections to idempotency transactions, each waiting for one more:
\* locks alone never form a cycle.
WedgeMeansPoolFull ==
  Wedged => \E i \in Inst : Cardinality(OpenTxs(i)) >= MaxConns

\* Without faults the middleware keeps the promise of OncePerKey.
Promise == INSTANCE OncePerKey WITH executed <- ran
KeepsPromise == Promise!Spec

=============================================================================
