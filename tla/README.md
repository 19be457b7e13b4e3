# Verification of gotemplate

TLA+ models of the stateful parts of this Go service template, TLC runs that
check them on small instances, and proofs, checked by TLAPS, that hold for
every instance.

## 1. Inventory of the system

The service is an echo HTTP server over one PostgreSQL database;
`internal/core/core.go` wires it. Several instances may share the database. All
the state that matters is in the tables, in two caches local to each process and
in the tokens the clients hold.

| Component | State | Operations | Talks to |
|---|---|---|---|
| idempotency middleware (`middlewares/idempotency/idempotency.go`) | a transaction per request, advisory locks, `request_cache` rows | `Middleware`, `CleanupOld` | LRU cache, `request_cache` repository, pool, the handler |
| in-memory LRU cache (`middlewares/idempotency/cache.go`) | index and recency list under a mutex | `Get`, `Set`, `DeleteOld` | idempotency middleware |
| auth service (`services/auth/auth.go`) | none of its own | Register, Login, Refresh, GetMe, UpdateMe, Logout, ChangePassword, RequestPasswordReset, ConfirmPasswordReset | user, group, blacklist and reset-token repositories, JWT, blacklist memory |
| password-reset tokens (`repositories/password_reset`) | `password_reset_tokens` rows: owner, expiry, used | Create, Get, MarkUsed, DeleteExpired | auth service, hourly cleanup |
| token revocation (`pkg/cache/blacklist.go`, `repositories/token_blacklist`) | memory of revoked ids, `token_blacklist` rows | Add, Has, Cleanup; Add, DeleteExpired | auth middleware, auth service, hourly cleanup |
| JWT service (`core/jwt/jwt.go`) | none: signed tokens with ids and times | GenerateTokenPair, ValidateToken, ValidateRefreshToken | auth service, auth middleware |
| auth middleware (`middlewares/auth/auth.go`) | none | Middleware, RequireRole, RequireGroup, RequireAnyGroup | JWT, blacklist memory |
| user service and repositories (`services/user`, `repositories/user`, `repositories/user_group`, `repositories/audit`) | `users`, `user_groups`, `audit_log` rows | Create, Get, Update, Delete (soft), List | unit of work |
| lifecycle (`core/core.go`, `pkg/closer`, `pkg/pgxtools`, `pkg/echotools/server`) | phase of the process, registered closers, pool, listener | connect with retry, serve, signal, close in reverse order | everything |
| HTTP plumbing (`core/http`, controllers, dto, errors) | none | order of the middlewares, binding, validation, request timeout, error mapping | middlewares, services |
| configuration, observability, hashing, test support | none that changes | read at the start; counters and traces; bcrypt | everything |

A request passes, in this order, the request timeout, the auth middleware (on
protected routes), the idempotency middleware (on mutating routes) and the
handler. Two goroutines clean up periodically: one the request cache, one the
blacklist and the reset tokens.

### What is hard about each, and what makes it correct

* **Idempotency.** Requests with one key meet on different instances; the lock
  that separates them lives in a transaction that holds a pool connection
  throughout, while the lookup, the handler and the INSERT each ask for a second
  one. A deadline, an error or a restart may fall between any two statements.
  Correct: one execution per key, a replay only of the same key's response, an
  error only when nothing was done, no request waiting for ever.
* **LRU cache.** Two structures that must agree after any sequence of calls,
  eviction at the limit. Correct: an LRU map.
* **Token revocation.** A memory per instance that is read on each call, a table
  that is written but never read, sweeps beside both, a clock that is read
  twice, restarts. Correct: a revoked token stays refused, an expired one is
  forgotten.
* **Login, refresh and roles.** A token says what its user was when it was
  signed; a refresh looks again, in two statements beside a deletion or a change
  of role. Correct: what was lost is out of reach after one lifetime of the
  token at the latest, however often it is refreshed.
* **Password reset.** Four statements without a transaction, beside other
  confirmations, password changes, the deletion of the user and the cleanup.
  Correct: a used token is dead, so is a replaced password, and a deleted user
  does not change.
* **Accounts.** Two INSERTs in a transaction, a unique index that makes inserts
  wait for each other, soft deletes that keep the email, lost answers to
  COMMIT. Correct: emails unique for ever, no user without its group, one
  deletion acknowledged, honest answers and audit entries.
* **The chain of middlewares.** Each of them is right by itself; what a repeated
  call gets depends on their order: the auth middleware refuses before a response
  can be replayed, and `RequireRole` asks after it has been. Correct: a key
  executes once, a retry is told the truth, a logout that was answered well
  has revoked its token, an admin's response was earned by an admin.
* **The list of users.** Count and page are two statements, pages are offsets into
  an order of times that are read before the INSERT. Correct: a walk misses and
  repeats no more than changed beside it; total and page fit.
* **Lifecycle.** Signal, failure of the server, connection timeout and shutdown
  timeout race; closers run in reverse order and may fail. Correct: everything
  is closed, the process ends, requests are only lost by a shutdown.

`PROJECT.json` lists every hazard at its line with the properties that cover it.

## 2. Plan

| Step | Modules | State |
|---|---|---|
| 1 | `LruCache`, `InMemoryCache` against `RecencyMap` | done |
| 2 | `Idempotency` (uses `LruCache`) against `OncePerKey`, with proofs | done |
| 3 | `Sessions`: access tokens, revocation, restarts, with proofs | done |
| 4 | `PasswordReset`, with proofs | done |
| 5 | `Lifecycle`, with proofs | done |
| 6 | `Accounts` against `Directory`, with proofs | done |
| 7 | `Access`: login, refresh and roles, deletion and dismissal beside them, with proofs | done |
| 8 | `Gateway`: the order of auth, idempotency, `RequireRole`, controllers and errors, composed of what `Idempotency` and `Sessions` promise, with proofs | done |
| 9 | `Listing`: the walk through the list of users, with proofs | done |
| 10 | composition of `Access` and `Sessions`: a logout revokes one id, the other token of the pair and the pairs made from it live on; of `Access` and `Accounts`: the deletion there is the one that bites here | open |
| 11 | proofs about the cache: `ListMatchesIndex`, `LargerKeepsMore` and the refinement `IsRecencyMap` for every limit, and the memory inside the middleware | done |

## 3. The modules and the code

Each module that models code also holds, beside the definitions they stand
against, the *mutants*: definitions marked "Mutant of", each a plausible bug.
They are used in no run as it stands; `PROJECT.json` says which property refutes
which mutant, which shows that the property depends on that part of the code.

### `LruCache`, `InMemoryCache`, `RecencyMap`

`LruCache` has the operators of `cache.go` on a record of the list (`order`,
front first) and the index (`items`). `InMemoryCache` drives them: `Get`, `Set`
and `DeleteOld` are the three methods, atomic because each runs under `mu`. A
value is its `CreatedAt`. A second cache with a larger limit takes the same
calls. `RecencyMap` is the abstract specification: a map and an order of recency
in which only the least recently used key may be evicted.

The list is a sequence. `Only(order, kept)` is what is left of it when the other
elements are unlinked: `DeleteOld` uses it, and `container/list`'s `MoveToFront`
is "unlink, then put in front". It is defined by counting places and not by
recursion, so that it can be proved about. The relation "used more recently
than" of `RecencyMap` is read off the list with `Before`. The names of the
specification itself (`CacheInit`, `CacheNext`, `CacheSpec`) differ from the
middleware's, so that one proof module extends both.

### `Idempotency`, `OncePerKey`

`pc[r]` is the place of request `r` in `Middleware()`:

| pc | code |
|---|---|
| `begin`, `lock` | `BeginTxx`, `acquireXactLock` |
| `check` | `cache.Get` in `getCachedByKey` |
| `wantGet`, `getting` | waiting for a connection for the SELECT, holding it |
| `wantRun`, `running` | the same for the handler |
| `wantStore`, `storing` | the same for the INSERT, after `cache.Set` |
| `done`, `dead` | returned; lost with its process |
| `lost` | the handler returned an error after its effect (`RunLost`) |

`tx` and `owner` are the transaction and the advisory lock it carries, `mem` the
memory of each instance, `row` the table. `KeyOf` is `CacheKey` (user, path,
verb, header value); `LockOf` is `advisoryLockKey`, which hashes the header value
alone, so two keys may share a lock. A response is named by the request whose
execution produced it. `late` is the request's context past its deadline;
`LoseTx` is what `database/sql` then does behind the handler, and what the loss
of a session does. `slipped` is a history variable: requests whose bookkeeping
failed somewhere. It excuses repetitions, but not errors: `ErrorMeansNotDone`
allows an error after an effect only where the handler itself returned it, and to
no failed lock, lookup, INSERT, lost transaction or deadline.

`OncePerKey` is the promise of the `Idempotency-Key` header.

### `Sessions`

`Validate` is `ValidateToken`, `Has` the lookup in the memory with its own
reading of the clock, `Record` and `Remember` the two halves of a revocation
(table first, then memory), `SweepMem` and `SweepTable` the hourly cleanup,
`Restart` a process with an empty memory. `RecordFails` is where Logout and
ChangePassword differ: the first reports the error, the second logs it.

### `Access`

`gpc[s]` is the place of the request of client `s`: `valid` after
`ValidateRefreshToken`, `found` after the SELECT of the user (Login begins there),
`ready` after the one of its groups; `Sign` is `GenerateTokenPair`. `life` are
the ticks until each token of the pair expires and `claims` the role it was
signed with. `Opens` is the auth middleware, which asks the token alone and
accepts either kind; `OpensAdmin` is `RequireRole`, which `RequireGroup` behind it
only narrows. `Delete` is the admins' route; `Appoint` and `Dismiss` are SQL, as no
route changes a role. Time is relative and has no end: tokens count down, the
histories `away` and `down` count up, and an expired pair is forgotten. `hurry`
and `raced` mark requests that had read the user before it lost something, and
the pairs that they signed afterwards.

### `PasswordReset`

`ReadToken`, `SetPassword` and `MarkUsed` are the statements of
`ConfirmPasswordReset`, `CheckOld` and `Write` those of `ChangePassword`,
`Look` and `Issue` those of `RequestPasswordReset`. A confirmation that has replaced
the password and whose MarkUsed then fails ends at `unmarked`. A password is named
by the call that set it; every change of the model offers the registered password.

### `Lifecycle`

`phase` is the place of `core.Run`; `Closers` the list as it is registered, and
`i` the loop variable of `Closer.Close`. Requests make `Calls` database calls,
each of which needs the pool.

### `Accounts`, `Directory`

`Insert`, `AddUserToGroup`, `Commit` and `Finish` are Register and Create;
`Abort` is every way a transaction may end without COMMIT. `Update` and `Delete`
are single statements, `Log` the audit entry after them. `Taken` and `Pending`
are the unique index: committed rows refuse, uncommitted ones make wait. A user
is named by the call that creates it. A Register that fails after its COMMIT, where
it reads the groups and makes the tokens, ends at `unready`, so that
`AnswersAreHonest` tells it from a signup that failed before. `Directory` is the abstract specification:
users join with an email and the membership in one step, rename themselves to a
free email, and leave; the email of one who has left is not free.

`OneSpelling` is about what both write: every path but the admins' Update puts the
email in lower case, and that one meets the CHECK of migration 6.

### `Gateway`

`pc[c]` is the place of call `c` on the way through `registerRoutes`:

| pc | code |
|---|---|
| `new` | before `auth.Middleware` |
| `authed` | before the idempotency middleware takes the lock |
| `locked` | before the lookup |
| `inside` | `next(c)`: `RequireRole` on admins' routes, then the controller |
| `checked`, `written` | `ChangePassword` after the comparison, after the UPDATE |
| `ran` | the handler has succeeded, its response is not stored yet |
| `done` | answered |

The four routes stand for the kinds of effect a repetition can have: `logout` takes
away the caller's own token, `password` is refused the second time because the old
password is gone (and revokes the token as well), `create` because the email is
taken, `update` is never refused. `Status` and `Failure` are the errors the handlers
return; the idempotency middleware stores only what a handler returned without
an error, so `Fail` stores nothing. `Effect` is a write of which the handler may
not hear. A response is named by the call that produced it; `saved` is the table of
responses, under user, path, verb and header, without the token. `Restart` ends an
instance at any moment and starts it again: its memory is empty, its calls are
answered `"lost"`, which is no status, and their locks are free, while what has run or is
stored stays. `forgot` is a history: the logouts that ran before their instance's
last end. Roles are claims of the tokens, which never change (`Claims`).

What `Idempotency` and `Sessions` have in detail is taken as they promise it: one
lock and one store common to the instances, a memory of revoked tokens in
each. Here the idempotency middleware's own calls of the database succeed and no
request outlives its timeout; tokens do not expire. All
calls are of one user, as neither keys nor tokens cross users; every password
call gives the registered password and every creation the same email, which is where
they get in each other's way. A body that cannot be bound or validated is a choice.

### `Listing`

`Insert`, `Commit` and `Rollback` are `Create` in its transaction, `Delete` the soft
delete, as in `Accounts` but with `created_at`. `LimitOf` is what the
controller makes of the limit it is asked for; `Count` and `Select` are the two
statements of `Repository.List`, each with its own snapshot. `Pages` is the set of
pages the ORDER BY allows. The client is not in the repository: it asks for the
next offset until a page is shorter than the limit. `stayed`, `came`, `went` and
`drift` are histories against which a walk is measured.

## 4. The runs

| Run | What it shows | Instance |
|---|---|---|
| `lru` | list and index agree, a larger limit loses no hit, and the cache is an LRU map, which never holds more than its limit | 4 keys, 2 times, limits 2 and 3 |
| `idem_once` | without faults the middleware implements `OncePerKey` and answers everybody | 4 requests, 2 keys with one lock, 2 instances, memory of 1 |
| `idem_faults` | what errors of every call, lost transactions, expiry, cleanups and a restart can and cannot do | 3 requests, 1 restart |
| `idem_deadline` | a wedge needs a pool full of open transactions, and the request timeout alone ends it | 3 requests, one pool of 2 |
| `sessions` | a revoked token is refused, what expires is forgotten | 2 tokens, 2 instances, 3 calls, 1 restart |
| `access` | refreshing gives back nothing that a deletion or a dismissal took | 1 user, 2 clients, lifetimes 1 and 3, unbounded time |
| `reset` | used tokens, replaced passwords and deleted users stay as they are; no token is used up without a new password; tokens are removed | 2 tokens, 3 confirmations, 1 change, 1 deletion |
| `lifecycle` | a signal ends the process with everything closed, requests are lost only by the shutdown | 3 requests of 2 calls |
| `lifecycle_drain` | finding: a request that was accepted before the signal fails because the pool is closed before the server is drained | 1 request of 1 call, no tracer, no closer fails |
| `accounts` | the accounts are a `Directory` without two spellings of one email; answers and audit are true; signups do not wait for ever | 3 signups, 3 updates, 2 deletions |
| `gateway` | keys execute once unless an error or nothing was answered, retries are told the truth, logouts bite and are not replayed, admins' responses are earned | 3 calls of any route, 1 header or none, 2 tokens of which one claims the role, 2 instances, any number of restarts |
| `listing` | a walk misses no more than was deleted and repeats no more than came; total and page fit | 4 users, limits 1 and 2 |

### Bounds, and why they are enough

* *Requests*. Three requests of which two share a key and all share a lock show
  every pair of roles (first and retry, same key and foreign key) with a third
  one to evict, to delay or to fill the pool; `idem_once` has a fourth, so that
  a retry also meets a memory from which its response was evicted.
* *Memory of 1 entry*. Every second key evicts; a larger memory only hides
  the table.
* *Pool*. `MaxConns` is 2 where the pool is the question: two open transactions
  fill it. Elsewhere it is 4, which is enough for the two requests that can be
  past the lock and the one that waits.
* *Clock* (`MaxTime` 4). With `TTL` 2 a token issued at 1 is valid, at its
  limit and expired within the bound, and one issued later is still valid when
  the first has gone. `MaxTime` bounds only the guard of `Tick`; liveness is
  claimed for tokens that do expire within it.
* *Lifetimes* (`Access`). 1 and 3, so that a refresh token makes several access
  tokens; `MaxAway` 4 is longer than both, where the histories may stop counting.
  Two clients of one user refresh from each other's pairs, so an old pair is
  still in use when it has been renewed. Users do not interact.
* *Restarts* (`MaxCrashes`, `MaxBoots` 1). The properties do not relate two
  restarts: each only empties the memory and drops what is in flight. `Gateway`
  has no bound on them.
* *Calls on one object*. Two confirmations of one token, two deletions of one
  user, two signups of one email in different case, each beside a third actor.
* *Calls on one key* (`Gateway`). A call, its retry and a third one by which the
  state changes between them, each at either instance with either token; more calls
  repeat these pairs. One header: a second one only separates calls, which
  calls without a header show. Of the tokens one claims the role, so that an
  admin's response meets a caller without it. Calls and instances are symmetric,
  and no property names one.
* *Walk* (`Listing`). Four users make walks of up to five pages with the limit 1 and
  three with 2, the last one empty; any of them may come or go during the walk. The limits stand for
  10 and 100, and every value from 0 to beyond the largest is asked for.
* *Limit of the cache*. 2 and 3; the code's behaviour for the limit 0 (the
  entry just set stays) is in `LruSet` and no run has it, but the theorems about
  the cache hold for every limit, 0 included.

Runs of calls that are each made once end in states in which nothing is left to
do; they say `CHECK_DEADLOCK FALSE`. `lru`, `sessions` and `access` never stop.

### Fairness, and why the code justifies it

* `Idempotency.TimedSpec`: a request's own steps (its goroutine is scheduled and
  calls return) and the timer of its context. No queue is assumed to be fair, so
  `EveryRequestAnswered` in `idem_deadline` rests on the timeout alone.
* `Idempotency.FairSpec` adds strong fairness of getting a connection or the
  lock: `database/sql` serves waiters in order, and so does PostgreSQL's lock
  queue. It is used only without faults and timeout.
* `Sessions.FairSpec`: handlers return, the ticker fires, and not every DELETE
  of an instance's cleanups fails (strong fairness of `SweepTable`; an error is
  only logged, so with a table that is never writable nothing could be
  promised).
* `Access.FairSpec`: time passes, and a request that has begun ends.
* `PasswordReset.FairSpec`: time passes and the cleanup goes on being called.
* `Lifecycle.FairSpec`: the main goroutine and the timer of the shutdown.
  Nothing is assumed of requests: a handler may hang.
* `Accounts.FairSpec`: steps of signups that the database answers. Failing is
  never taken for granted, so a signup that waits is not rescued by an error.

### Finding

**Shutdown order** (`lifecycle_drain`). The closers run in reverse, and the
pool was registered last: it is closed while requests are still served. In the
trace of the run the one request is accepted and being served when the signal comes;
the pool is closed, and its call of the database fails although the server has not
failed and the shutdown timeout has not passed. `RequestsAreDrained` counts only such
requests: those that are accepted after the signal, which the code allows as well,
and shutdowns that begin because the server has failed are not held against it.

### What the properties leave room for

Behaviour that the models have and the properties, as they are stated, allow:

* `ON CONFLICT DO NOTHING` also yields to an expired row, which `Get` does not
  return: until a cleanup the next execution of that key reports success and
  saves nothing, and a retry on another instance executes again
  (`RepeatIsExcused` counts the expiry as the excuse).
* `MarkUsed` is not conditional: two confirmations which both read the token before
  either marks it both succeed (`SpentTokenIsDead` is about those that read
  afterwards). When it fails, the password is new and the token is still open
  (`TokenIsNotBurnt` is that the reverse never happens).
* A key names the user and not the token: a logout under a key that was used with
  another token, or at another instance, is answered as done and revokes nothing
  there, and so is one repeated with the same token after its instance has restarted
  (the exceptions in `LogoutBites`).
* A change of password whose INSERT into `token_blacklist` fails is acknowledged and
  revokes nothing (`RecordFails` and `Revoke` have it, no property excludes it).
* A change of password that has checked the old one overwrites a reset that comes
  in between (`OldPasswordIsDead` is about changes that check afterwards).
* A caller who was an admin when the key was first used still gets the stored
  response when the token no longer claims the role (`ResponseWasEarned`).
* Users with the same `created_at` are in no order: a walk may miss one although
  nothing changes (`NoTies`).
* After a restart the memory of revoked ids is empty and nothing reads
  `token_blacklist`, although the theorem `MemoryIsDurable` says that the table
  would suffice to rebuild it.
* The auth middleware accepts a refresh token where an access token is meant.
* The transaction of the idempotency middleware covers neither the SELECT nor the
  INSERT, although the comment at `idempotency.go:90` says so.
* The email of a deleted user is refused with 409 "already exists" for ever, and
  `Update` reports a taken email, or one in upper case, as an internal error.

## 5. The proofs

Every theorem is about `Spec` (`CacheSpec` of the cache) for all values of the
constants under the named assumptions of its module (finite or arbitrary sets,
functions with the domains the code gives them, positive pool sizes and lifetimes).

* **`Idempotency_proofs`, the cache.** The module follows the Go package: list,
  cache, middleware. `OnlyEntries` shows that unlinking elements keeps exactly the
  others, each once and in their order: the place of an entry counts the entries
  kept up to it, so places are an injection into `1..n`, and as both sides have
  `n` members every place is taken. `NewFirst`, `LastGone` and `MovedToFront` say
  the same of a new front, a lost back and a move. From them come `GetEffect`,
  `SetEffect` and `DeleteOldEffect`: what an operation does to the index, to the
  order and to `WellFormed`, which alone is inductive and gives
  `CacheListMatchesIndex`. `CacheImplementsRecencyMap` maps each call to the call
  of `RecencyMap` of the same meaning; an eviction is allowed there because every
  other key stands in front of the last one (`LastGone`).
  `LargerKeepsMore` is not inductive: a `Set` could evict from the larger cache
  what the smaller one keeps. `CacheInv` adds `SameOrder` (both agree on which of
  two common keys is more recent; that one list is a prefix of the other would be
  false, as a key only the larger one holds may be hit and come to its front) and
  `SpareRoom` (what only the larger one holds fits in the difference of the
  limits, so that it is never full before the smaller one is). Then a key the
  larger one displaces is the last of the smaller one too, and displaced from a
  full cache there as well (`DisplacedByBoth`). TLC checked `CacheInv` to be
  inductive for limits from 0 to 3 before it was proved.
  `MemoriesAreSound` carries `WellFormed` and the limit over to the memories of
  the middleware's instances, under all its interleavings, cleanups and crashes.
* **`Idempotency_proofs`, the middleware.** `TypeCorrect` first. `LockInv` strengthens
  `LockProtects`, which alone is not inductive: it says that an owner has an open
  transaction, needs that lock and is between lookup and return, and that a
  healthy request in its critical section is the owner. It gives `MutualExclusion`
  and `OnlyThePoolWedges` (if all wait and some request waits for a lock, the
  owner waits too and can only wait for a connection, so a pool is full; a
  waiter for a connection has only `OpenTxs` before it, as nobody holds a second
  one). `DataInv` says that every entry of a memory, every row and every
  answer is an execution of its own key, and gives `ResponsesDoNotStray` and
  `ErrorsAreHonest`; `LruSetItems` and its like say that no operation of the
  cache gives a key the value of another one.
  `OnceInv` adds `Fresh`: a healthy request about to run has no unexcused
  execution of its key before it; with `LockInv` and `EffectIsSaved` it gives
  `AtMostOnceUnlessExcused` and `EffectsAreSaved`. `RowsAreKept` is an action
  property. `ImplementsOncePerKey` is the refinement without faults: then nobody
  is excused (`Healthy`), and each step is an execution, a reply, a refusal or
  a stutter.
* **`Sessions_proofs`.** `RevocationInv`: what an instance has revoked is in its
  memory or expired, a warned call is validated, refused or served past the
  expiry, and what is about to be remembered is in the table or expired. Expiry
  lasts (`ExpiryLasts`), which keeps the sweeps from breaking it. `MemoryIsDurable`
  is the part about the table; nothing in the code reads that, so no run checks it.
* **`Access_proofs`.** `LossInv`: the histories are 0 as long as nothing is lost,
  what a request has read is still true unless it is in a hurry, and a pair is at
  least as old as the loss. The first two make `Sign` keep the third, for either
  lifetime and any number of clients.
* **`PasswordReset_proofs`.** `TokenInv` relates each confirmation's place to the
  row of its token and each used token to the confirmation that used it, which gives
  `NoTokenIsBurnt` together with `PasswordInv`; that one relates every password to the call it is
  named after and says that nobody gets back to the registered password.
* **`Lifecycle_proofs`.** `ClosersShape` (the server first, the pool last, with
  or without the tracer) and `PhaseInv` relate `i` to what is already closed.
  `Ahead` bounds the steps the main goroutine has left; `TheEndComesNearer` says that
  each of its steps lowers the bound and that nothing else raises it, so that what
  `SignalEnds` still needs is that the main goroutine is never stuck, which the run
  checks under its fairness.
* **`Accounts_proofs`.** `RowInv` ties rows to the places of their calls,
  `Unique` says that emails of all rows, uncommitted ones included, differ,
  `LowerInv` that they are in lower case, which with `Unique` gives
  `OneAccountPerSpelling`; `DeleteInv` has the deletions. The refinement `ImplementsDirectory` maps
  `Commit` to `Join`, `Update` to `Rename`, `Delete` to `Leave`.

* **`Gateway_proofs`.** `LockInv`: from its lock to its return a keyed call holds the
  lock of its header, and past the lookup nothing is stored under its key; so at
  most one call of a key is past it. With `RanInv` (a call that has run and was
  answered well has its response stored) this gives `RepeatsAreRetries`, and with
  `SpentInv` (a refusal for a spent password or email is final, and nobody of its
  key is past the check) `RetriesAreTrue`. `LogoutInv` says that what has logged out
  is in its memory until the instance ends, and that no logout of it was let in
  between; a restart keeps all of it, as what it takes away is either in no part of
  the invariant or in `forgot` (`RestartKeeps`); `RoleInv` that what
  ran of an admin's route had the role. `ResponsesAreFinal` follows from `LockInv`:
  what is stored under a key, and what was answered, is never replaced.
* **`Listing_proofs`.** `DriftInv`: between the two statements the number of users
  differs from the total by at most `drift`. `PageSize` counts what offset and
  limit leave of the users, and arithmetic gives `PagesFit`. `WalkInv` is about
  ranks, the number of newer users: those that stayed, were not shown and have a
  rank below the offset are at most `went`, and what was shown twice, together
  with what was shown and has slid back behind the offset, is at most `came`.
  An arrival or a deletion moves every rank by at most one and at most one user
  has a given rank, so each moves one user across the offset (`CommitWalk`,
  `DeleteWalk`); a page takes exactly the next ranks (`SelectWalk`). This gives
  `MissesAreFew` and `RepeatsAreFew`.

The type invariants are proved in every module with proofs and are not repeated in
the runs, which keep to the properties that a bug could break.

Only model-checked: every liveness property (`EveryRequestAnswered`,
`ExpiredIsForgotten`, `TokensAreCleaned`, `SignalEnds`, `SignupsAnswered`,
`DeletedAreLockedOut`), as fairness and `ENABLED` are outside the prover's reach.
Every invariant and every action property of the runs, and every refinement, is a
theorem.

## 6. What is abstracted, and what is not modelled

* Requests without a key, a user or a mutating method change nothing in the
  idempotency middleware and are left out.
* A response's lifetime in the memory and in the table is one event (`Age`); the
  two clocks differ by the duration of the request.
* The effect of the handler is one step; a handler that fails has done nothing,
  except in `RunLost`, where its effect is kept and its answer is lost.
* Revocation is by id and is in `Sessions` alone; nothing revokes a refresh token
  by itself, so that `Access` leaves it out. Claims other than the role, signatures and
  passwords are names.
* The audit log has the entries, not their texts. Its `actor_uuid` is the target of
  the call, not the admin who makes it.
* Get and GetMe change nothing and are single reads.
* The HTTP plumbing is modelled where its order matters (`Gateway`, `Listing`,
  `Idempotency`'s timeout). The rate limiter and CORS are a library's; compression,
  logging, the shape of bodies and the header syntax keep no state.
* `RequireGroup` stands behind `RequireRole` and only narrows; no route has
  `RequireAnyGroup`.
* Configuration and environment are read once before anything else starts;
  metrics, traces and request ids are written and never read by the program; bcrypt is
  a function; the test support is not in the service.
* Exit codes, and what a single connection attempt does, are not in `Lifecycle`.
