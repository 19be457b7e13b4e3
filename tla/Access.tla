-------------------------------- MODULE Access --------------------------------
(***************************************************************************)
(* What tokens open, and for how long.  A login or a refresh reads the     *)
(* user, then its groups, and signs both into a pair of tokens; routes are *)
(* opened by the claims of a token, not by the tables, so that a token     *)
(* outlives the role it claims and the user it names.                      *)
(*                                                                         *)
(* Time is relative, which leaves it unbounded: a token counts its ticks   *)
(* down, and what has been lost is counted up to MaxAway.  Revocation by   *)
(* id is the subject of Sessions.                                          *)
(***************************************************************************)
EXTENDS Naturals

CONSTANTS
  User,
  Slot,     \* where clients keep a pair of tokens
  UserOf,   \* Slot -> User
  TTL,      \* accessTTL and refreshTTL, in ticks
  MaxAway,  \* bound on what away and down count
  CallsFail \* whether a call of the database may fail

Kind == {"access", "refresh"}

ASSUME AccessAssumption ==
  /\ UserOf \in [Slot -> User]
  /\ TTL \in [Kind -> Nat \ {0}]
  /\ MaxAway \in Nat
  /\ \A k \in Kind : TTL[k] < MaxAway
  /\ CallsFail \in BOOLEAN

VARIABLES
  live,   \* users with deleted_at IS NULL
  admins, \* users with the role "admin"
  gpc,    \* Slot -> where its login or refresh is
  snap,   \* Slot -> whether the user it has read is an admin
  claims, \* Slot -> whether its pair claims the role "admin"
  life,   \* Slot -> kind -> ticks until the token expires
  away,   \* history: User -> ticks since it was live
  down,   \* history: User -> ticks since it was live and an admin
  hurry,  \* history: requests whose user lost something after they read it
  raced   \* history: the pairs that such requests have signed

vars == <<live, admins, gpc, snap, claims, life, away, down, hurry, raced>>

\* Users exist and have no tokens yet.
Init == /\ live = User
        /\ admins \in SUBSET User
        /\ gpc = [s \in Slot |-> "idle"]
        /\ snap = [s \in Slot |-> FALSE]
        /\ claims = [s \in Slot |-> FALSE]
        /\ life = [s \in Slot |-> [k \in Kind |-> 0]]
        /\ away = [u \in User |-> 0]
        /\ down = [u \in User |-> IF u \in admins THEN 0 ELSE MaxAway]
        /\ hurry = {}
        /\ raced = {}

Later(n) == IF n < MaxAway THEN n + 1 ELSE n

\* What expires is forgotten: a dead pair opens nothing, whatever it claims.
Tick ==
  /\ life' = [s \in Slot |-> [k \in Kind |-> IF life[s][k] > 0 THEN life[s][k] - 1 ELSE 0]]
  /\ claims' = [s \in Slot |-> claims[s] /\ \E k \in Kind : life[s][k] > 1]
  /\ raced' = {s \in raced : \E k \in Kind : life[s][k] > 1}
  /\ away' = [u \in User |-> IF u \in live THEN 0 ELSE Later(away[u])]
  /\ down' = [u \in User |-> IF u \in live \intersect admins THEN 0 ELSE Later(down[u])]
  /\ UNCHANGED <<live, admins, gpc, snap, hurry>>

-----------------------------------------------------------------------------
(* Login and Refresh.                                                      *)

\* The request has read the row of the user.
Found(s, role) ==
  /\ gpc' = [gpc EXCEPT ![s] = "found"]
  /\ snap' = [snap EXCEPT ![s] = role]
  /\ UNCHANGED <<live, admins, claims, life, away, down, hurry, raced>>

\* The request returns.
Done(s) ==
  /\ gpc' = [gpc EXCEPT ![s] = "idle"]
  /\ snap' = [snap EXCEPT ![s] = FALSE]
  /\ hurry' = hurry \ {s}

\* Mutant of Login: GetByEmail does not ask for deleted_at IS NULL.
LoginAny(s) == gpc[s] = "idle" /\ Found(s, UserOf[s] \in admins)

\* GetByEmail, with the right password.
Login(s) ==
  /\ gpc[s] = "idle"
  /\ UserOf[s] \in live
  /\ Found(s, UserOf[s] \in admins)

\* ValidateRefreshToken: the pair may be one of another client of the user.
Validate(s) ==
  /\ gpc[s] = "idle"
  /\ \E f \in Slot : UserOf[f] = UserOf[s] /\ life[f]["refresh"] > 0
  /\ gpc' = [gpc EXCEPT ![s] = "valid"]
  /\ UNCHANGED <<live, admins, snap, claims, life, away, down, hurry, raced>>

\* Mutant of ReadUser: the refresh token is enough, no user is looked up.
ReadUserAny(s) == gpc[s] = "valid" /\ Found(s, UserOf[s] \in admins)

\* Mutant of ReadUser: the new pair gets the role of the old one.
ReadUserClaims(s) ==
  /\ gpc[s] = "valid"
  /\ UserOf[s] \in live
  /\ Found(s, \E f \in Slot : UserOf[f] = UserOf[s] /\ claims[f])

\* Refresh looks the user up again, by the uuid of the token.
ReadUser(s) ==
  /\ gpc[s] = "valid"
  /\ UserOf[s] \in live
  /\ Found(s, UserOf[s] \in admins)

ReadGroups(s) ==
  /\ gpc[s] = "found"
  /\ gpc' = [gpc EXCEPT ![s] = "ready"]
  /\ UNCHANGED <<live, admins, snap, claims, life, away, down, hurry, raced>>

\* The user is gone, or a call of the database fails.
Refused(s) ==
  /\ \/ gpc[s] = "valid" /\ (UserOf[s] \notin live \/ CallsFail)
     \/ gpc[s] = "found" /\ CallsFail
  /\ Done(s)
  /\ UNCHANGED <<live, admins, claims, life, away, down, raced>>

\* GenerateTokenPair; the client puts the pair in the place of its old one.
Sign(s) ==
  /\ gpc[s] = "ready"
  /\ claims' = [claims EXCEPT ![s] = snap[s]]
  /\ life' = [life EXCEPT ![s] = TTL]
  /\ raced' = IF s \in hurry THEN raced \union {s} ELSE raced \ {s}
  /\ Done(s)
  /\ UNCHANGED <<live, admins, away, down>>

-----------------------------------------------------------------------------
(* Routes, and what changes the users.                                     *)

\* The auth middleware asks the token, of either kind, and no table.
Opens(s, k) == life[s][k] > 0

\* RequireRole; RequireGroup, behind it on /admin, only narrows it.
OpensAdmin(s, k) == Opens(s, k) /\ claims[s]

InFlight(u) == {s \in Slot : UserOf[s] = u /\ gpc[s] \in {"found", "ready"}}

\* DELETE /users/:uuid, by an admin.
Delete(u) ==
  /\ u \in live
  /\ live' = live \ {u}
  /\ hurry' = hurry \union InFlight(u)
  /\ UNCHANGED <<admins, gpc, snap, claims, life, away, down, raced>>

\* Roles change in SQL: no route of the service changes them.
Appoint(u) ==
  /\ u \in live \ admins
  /\ admins' = admins \union {u}
  /\ down' = [down EXCEPT ![u] = 0]
  /\ UNCHANGED <<live, gpc, snap, claims, life, away, hurry, raced>>

Dismiss(u) ==
  /\ u \in admins
  /\ admins' = admins \ {u}
  /\ hurry' = hurry \union InFlight(u)
  /\ UNCHANGED <<live, gpc, snap, claims, life, away, down, raced>>

Request(s) == ReadUser(s) \/ ReadGroups(s) \/ Refused(s) \/ Sign(s)

Next == \/ Tick
        \/ \E s \in Slot : Login(s) \/ Validate(s) \/ Request(s)
        \/ \E u \in User : Delete(u) \/ Appoint(u) \/ Dismiss(u)

Spec == Init /\ [][Next]_vars

\* Time passes and requests that have begun end.
FairSpec == Spec /\ WF_vars(Tick) /\ \A s \in Slot : WF_vars(Request(s))

-----------------------------------------------------------------------------
TypeOK ==
  /\ live \subseteq User
  /\ admins \subseteq User
  /\ gpc \in [Slot -> {"idle", "valid", "found", "ready"}]
  /\ snap \in [Slot -> BOOLEAN]
  /\ claims \in [Slot -> BOOLEAN]
  /\ DOMAIN life = Slot
  /\ \A s \in Slot : /\ DOMAIN life[s] = Kind
                     /\ \A k \in Kind : life[s][k] \in 0..TTL[k]
  /\ away \in [User -> 0..MaxAway]
  /\ down \in [User -> 0..MaxAway]
  /\ hurry \subseteq Slot
  /\ raced \subseteq Slot

\* A token opens nothing to a deleted user for longer than its kind lives,
\* counted from the deletion and not from the last refresh: refreshing buys no
\* time.  Only a request that had read the user before the deletion may sign a
\* pair after it.
DeletionBites ==
  \A s \in Slot, k \in Kind :
    Opens(s, k) /\ s \notin raced => away[UserOf[s]] + life[s][k] <= TTL[k]

\* The routes of admins close in the same time when the role is taken away.
DismissalBites ==
  \A s \in Slot, k \in Kind :
    OpensAdmin(s, k) /\ s \notin raced => down[UserOf[s]] + life[s][k] <= TTL[k]

\* However often the tokens of a deleted user are refreshed, in the end they
\* are all dead and stay so.
DeletedAreLockedOut ==
  \A u \in User : u \notin live ~>
    [](\A s \in Slot : UserOf[s] = u => \A k \in Kind : ~Opens(s, k))

=============================================================================
