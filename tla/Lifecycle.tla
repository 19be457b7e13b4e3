------------------------------ MODULE Lifecycle ------------------------------
(***************************************************************************)
(* The life of one process: core.Run connects to the database, starts the  *)
(* HTTP server in a goroutine, waits for a signal or for the server to     *)
(* fail, and runs the registered closers from the last to the first.       *)
(* Requests are served all along; each makes a few calls of the database,  *)
(* and each call takes a connection from the pool.                         *)
(***************************************************************************)
EXTENDS Naturals, Sequences

CONSTANTS
  Req,
  Calls,     \* how many calls of the database a request makes
  Tracing,   \* whether Jaeger is configured
  CloseFails \* whether a closer may return an error

ASSUME LifeAssumption ==
  /\ Calls \in Nat
  /\ Tracing \in BOOLEAN
  /\ CloseFails \in BOOLEAN

VARIABLES
  phase, \* where core.Run is
  sig,   \* whether ctx is done
  pool,  \* the sql.DB: none, open or closed
  http,  \* the HTTP server
  i,     \* the closer Close will call next, 0 when there is none left
  late,  \* whether shutdownCtx has expired
  errs,  \* the closers that returned an error
  req,   \* Req -> what has become of it
  left   \* Req -> calls of the database it has still to make

vars == <<phase, sig, pool, http, i, late, errs, req, left>>

Phases == {"connecting", "wiring", "running", "closing", "draining", "exited"}

Closers == IF Tracing THEN <<"http", "tracer", "db">> ELSE <<"http", "db">>

Init == /\ phase = "connecting"
        /\ sig = FALSE
        /\ pool = "none"
        /\ http = "none"
        /\ i = 0
        /\ late = FALSE
        /\ errs = {}
        /\ req = [r \in Req |-> "idle"]
        /\ left = [r \in Req |-> 0]

Up == phase # "exited"

-----------------------------------------------------------------------------
(* core.Run.                                                               *)

\* pgxtools.Connect: an attempt under a context that is done fails, and a
\* failed attempt leaves no pool.
Connect == /\ phase = "connecting"
           /\ ~sig
           /\ pool' = "open"
           /\ phase' = "wiring"
           /\ UNCHANGED <<sig, http, i, late, errs, req, left>>

\* The context is done, or dbConnectionTimeout has passed.
GiveUp == /\ phase = "connecting"
          /\ phase' = "exited"
          /\ UNCHANGED <<sig, pool, http, i, late, errs, req, left>>

\* Everything is built and the closers are registered, or a New failed.
Wire == /\ phase = "wiring"
        /\ \/ phase' = "running" /\ http' = "starting"
           \/ phase' = "exited" /\ UNCHANGED http
        /\ UNCHANGED <<sig, pool, i, late, errs, req, left>>

Signal == /\ Up
          /\ ~sig
          /\ sig' = TRUE
          /\ UNCHANGED <<phase, pool, http, i, late, errs, req, left>>

\* The select: ctx is done, or the server has exited by itself.
BeginClose == /\ phase = "running"
              /\ sig \/ http = "failed"
              /\ sig' = TRUE
              /\ phase' = "closing"
              /\ i' = Len(Closers)
              /\ UNCHANGED <<pool, http, late, errs, req, left>>

\* Mutant of CloseNext: the first error ends the loop.
CloseNextOrStop ==
  /\ phase = "closing"
  /\ i > 0
  /\ \/ /\ Closers[i] = "http"
        /\ http' = "closed"
        /\ phase' = "draining"
        /\ UNCHANGED <<pool, errs, i>>
     \/ /\ Closers[i] # "http"
        /\ pool' = IF Closers[i] = "db" THEN "closed" ELSE pool
        /\ \/ i' = i - 1 /\ UNCHANGED errs
           \/ CloseFails /\ i' = 0 /\ errs' = errs \union {Closers[i]}
        /\ UNCHANGED <<http, phase>>
  /\ UNCHANGED <<sig, late, req, left>>

\* The closers for the tracer and the pool, and the start of httpServer.Stop.
CloseNext ==
  /\ phase = "closing"
  /\ i > 0
  /\ \/ /\ Closers[i] = "http"
        /\ http' = "closed"
        /\ phase' = "draining"
        /\ UNCHANGED <<pool, errs, i>>
     \/ /\ Closers[i] # "http"
        /\ pool' = IF Closers[i] = "db" THEN "closed" ELSE pool
        /\ errs' \in {errs} \union {errs \union {k} : k \in {k \in {Closers[i]} : CloseFails}}
        /\ i' = i - 1
        /\ UNCHANGED <<http, phase>>
  /\ UNCHANGED <<sig, late, req, left>>

Serving == {r \in Req : req[r] = "serving"}

\* Mutant of Drain: Close is given a context without a deadline.
DrainForever == /\ phase = "draining"
                /\ Serving = {}
                /\ phase' = "closing"
                /\ i' = i - 1
                /\ UNCHANGED <<sig, pool, http, late, errs, req, left>>

\* Mutant of Drain: http.Server.Close in the place of Shutdown.
DrainNone == /\ phase = "draining"
             /\ phase' = "closing"
             /\ i' = i - 1
             /\ UNCHANGED <<sig, pool, http, late, errs, req, left>>

\* http.Server.Shutdown returns when no request is left or its context ends.
Drain == /\ phase = "draining"
         /\ \/ Serving = {} /\ UNCHANGED errs
            \/ late /\ errs' = errs \union {"http"}
         /\ phase' = "closing"
         /\ i' = i - 1
         /\ UNCHANGED <<sig, pool, http, late, req, left>>

\* Run returns and the process ends with whatever it was still serving.
Exit == /\ phase = "closing"
        /\ i = 0
        /\ phase' = "exited"
        /\ req' = [r \in Req |-> IF r \in Serving THEN "cut" ELSE req[r]]
        /\ UNCHANGED <<sig, pool, http, i, late, errs, left>>

\* The timer of shutdownCtx.
ShutdownTimeout == /\ phase \in {"closing", "draining"}
                   /\ ~late
                   /\ late' = TRUE
                   /\ UNCHANGED <<phase, sig, pool, http, i, errs, req, left>>

-----------------------------------------------------------------------------
(* The HTTP server.                                                        *)

\* ListenAndServe in its goroutine; after a Shutdown it returns at once.
Listen == /\ Up
          /\ http = "starting"
          /\ http' \in {"on", "failed"}
          /\ UNCHANGED <<phase, sig, pool, i, late, errs, req, left>>

ServerFails == /\ Up
               /\ http = "on"
               /\ http' = "failed"
               /\ UNCHANGED <<phase, sig, pool, i, late, errs, req, left>>

Accept(r) == /\ Up
             /\ http = "on"
             /\ req[r] = "idle"
             /\ req' = [req EXCEPT ![r] = "serving"]
             /\ left' = [left EXCEPT ![r] = Calls]
             /\ UNCHANGED <<phase, sig, pool, http, i, late, errs>>

\* A call of the database: a closed pool refuses it.
CallDb(r) == /\ Up
             /\ req[r] = "serving"
             /\ left[r] > 0
             /\ \/ pool = "open" /\ left' = [left EXCEPT ![r] = @ - 1] /\ UNCHANGED req
                \/ pool # "open" /\ req' = [req EXCEPT ![r] = "failed"] /\ UNCHANGED left
             /\ UNCHANGED <<phase, sig, pool, http, i, late, errs>>

Reply(r) == /\ Up
            /\ req[r] = "serving"
            /\ left[r] = 0
            /\ req' = [req EXCEPT ![r] = "ok"]
            /\ UNCHANGED <<phase, sig, pool, http, i, late, errs, left>>

Main == Connect \/ GiveUp \/ Wire \/ BeginClose \/ CloseNext \/ Drain \/ Exit

Next == \/ Main \/ Signal \/ ShutdownTimeout \/ Listen \/ ServerFails
        \/ \E r \in Req : Accept(r) \/ CallDb(r) \/ Reply(r)

Spec == Init /\ [][Next]_vars

\* The main goroutine is scheduled and the timer fires.  Nothing is assumed
\* of the requests: a handler may hang.
FairSpec == Spec /\ WF_vars(Main) /\ WF_vars(ShutdownTimeout)

-----------------------------------------------------------------------------
TypeOK ==
  /\ phase \in Phases
  /\ sig \in BOOLEAN
  /\ pool \in {"none", "open", "closed"}
  /\ http \in {"none", "starting", "on", "failed", "closed"}
  /\ i \in 0..Len(Closers)
  /\ late \in BOOLEAN
  /\ errs \subseteq {"http", "tracer", "db"}
  /\ req \in [Req -> {"idle", "serving", "ok", "failed", "cut"}]
  /\ left \in [Req -> 0..Calls]

\* A process that got as far as starting its server never ends without having
\* closed the pool and stopped the server, whatever errors the closers return
\* and however the end of the server races with a signal.
AllIsClosed ==
  phase = "exited" /\ http # "none" => pool = "closed" /\ http = "closed"

\* While the process runs every request finds the database, and the end of the
\* process cuts a request off only when the shutdown has timed out.
LostOnlyByShutdown ==
  \A r \in Req : /\ req[r] = "failed" => phase \in {"closing", "draining", "exited"}
                 /\ req[r] = "cut" => late

\* A signal ends the process, whether it is still connecting, starting or
\* serving, even when a handler never returns.
SignalEnds == sig ~> phase = "exited"

\* "Graceful shutdown" (core.go:248): unless the server fails by itself, a
\* request that was being served before the signal does not fail while the
\* shutdown still has time.
RequestsAreDrained ==
  [](http # "failed")
    => \A r \in Req : [](req[r] = "serving" /\ ~sig => [](req[r] = "failed" => late))

=============================================================================
