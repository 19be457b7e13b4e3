-------------------------- MODULE Lifecycle_proofs --------------------------
(***************************************************************************)
(* Proofs about Lifecycle for any requests.                                *)
(***************************************************************************)
EXTENDS Lifecycle, TLAPS

\* The server is registered first and the pool last.
LEMMA ClosersShape ==
  /\ Len(Closers) \in {2, 3}
  /\ Closers[1] = "http"
  /\ Closers[Len(Closers)] = "db"
  /\ \A k \in 2..Len(Closers) : Closers[k] \in {"tracer", "db"}
<1>1. CASE Tracing
  BY <1>1 DEF Closers
<1>2. CASE ~Tracing
  BY <1>2 DEF Closers
<1>3. QED BY <1>1, <1>2

(* The invariant.  The server exists exactly from the wiring on; until the *)
(* closers run the pool is open; once the first of them has run it is      *)
(* closed; the server is drained as the last.                              *)

PhaseInv ==
  /\ phase \in {"connecting", "wiring"} => http = "none"
  /\ phase = "wiring" => pool = "open"
  /\ phase = "running" => pool = "open" /\ http \in {"starting", "on", "failed"}
  /\ phase \in {"closing", "draining"} => http # "none"
  /\ phase = "closing" => \/ i = Len(Closers)
                          \/ i \in 1..Len(Closers) /\ pool = "closed"
                          \/ i = 0 /\ pool = "closed" /\ http = "closed"
  /\ phase = "draining" => i = 1 /\ pool = "closed" /\ http = "closed"

RequestInv ==
  /\ \A r \in Req : req[r] # "idle" => phase \notin {"connecting", "wiring"}
  /\ \A r \in Req : phase = "closing" /\ i = 0 => req[r] # "serving" \/ late
  /\ LostOnlyByShutdown

LifeInv == TypeOK /\ PhaseInv /\ AllIsClosed /\ RequestInv

-----------------------------------------------------------------------------
LEMMA TypeNext ==
  ASSUME LifeAssumption, TypeOK, PhaseInv, [Next]_vars
  PROVE  TypeOK'
<1> USE LifeAssumption DEF TypeOK, LifeAssumption, Phases
<1>1. CASE Connect \/ GiveUp \/ Wire
  BY <1>1 DEF Connect, GiveUp, Wire
<1>2. CASE BeginClose
  BY <1>2, ClosersShape DEF BeginClose
<1>3. CASE CloseNext
  <2>1. i \in 1..Len(Closers) /\ Closers[i] \in {"http", "tracer", "db"}
    BY <1>3, ClosersShape DEF CloseNext
  <2>2. i - 1 \in 0..Len(Closers)
    BY <2>1, ClosersShape
  <2>3. QED
    BY <1>3, <2>1, <2>2 DEF CloseNext
<1>4. CASE Drain
  <2>1. i' = 0
    BY <1>4 DEF Drain, PhaseInv
  <2>2. 0 \in 0..Len(Closers)
    BY ClosersShape
  <2>3. QED
    BY <1>4, <2>1, <2>2 DEF Drain
<1>5. CASE Exit \/ Signal \/ ShutdownTimeout \/ Listen \/ ServerFails
  BY <1>5 DEF Exit, Signal, ShutdownTimeout, Listen, ServerFails
<1>6. ASSUME NEW r \in Req, Accept(r) PROVE TypeOK'
  BY <1>6 DEF Accept
<1>7. ASSUME NEW r \in Req, CallDb(r) PROVE TypeOK'
  BY <1>7 DEF CallDb
<1>8. ASSUME NEW r \in Req, Reply(r) PROVE TypeOK'
  BY <1>8 DEF Reply
<1>9. CASE UNCHANGED vars
  BY <1>9 DEF vars
<1>10. QED
  BY <1>1, <1>2, <1>3, <1>4, <1>5, <1>6, <1>7, <1>8, <1>9 DEF Next, Main

\* What a step of the closing loop does.
LEMMA CloseNextSteps ==
  ASSUME TypeOK, PhaseInv, CloseNext
  PROVE  \/ i = 1 /\ http' = "closed" /\ phase' = "draining" /\ UNCHANGED <<pool, i>>
         \/ /\ i > 1
            /\ i' = i - 1
            /\ pool' = "closed"
            /\ UNCHANGED <<http, phase>>
<1>1. i \in 1..Len(Closers)
  BY ClosersShape DEF TypeOK, CloseNext
<1>2. CASE i = 1
  BY <1>2, ClosersShape DEF CloseNext
<1>3. CASE i # 1
  <2>1. Closers[i] # "http" /\ i > 1
    BY <1>1, <1>3, ClosersShape
  <2>2. Closers[i] = "db" \/ pool = "closed"
    BY <1>1, <1>3, ClosersShape DEF CloseNext, PhaseInv
  <2>3. QED
    BY <2>1, <2>2 DEF CloseNext
<1>4. QED BY <1>2, <1>3

LEMMA PhaseNext ==
  ASSUME LifeAssumption, TypeOK, PhaseInv, AllIsClosed, [Next]_vars
  PROVE  PhaseInv' /\ AllIsClosed'
<1> USE DEF PhaseInv, AllIsClosed
<1>1. CASE Connect \/ GiveUp \/ Wire
  BY <1>1 DEF Connect, GiveUp, Wire
<1>2. CASE BeginClose
  BY <1>2 DEF BeginClose
<1>3. CASE CloseNext
  <2>1. phase = "closing" /\ i \in 0..Len(Closers)
    BY <1>3 DEF CloseNext, TypeOK
  <2>2. QED
    BY <1>3, <2>1, CloseNextSteps, ClosersShape
<1>4. CASE Drain
  BY <1>4 DEF Drain
<1>5. CASE Exit
  BY <1>5, ClosersShape DEF Exit
<1>6. CASE Signal \/ ShutdownTimeout
  BY <1>6 DEF Signal, ShutdownTimeout
<1>7. CASE Listen \/ ServerFails
  BY <1>7 DEF Listen, ServerFails, Up
<1>8. ASSUME NEW r \in Req, Accept(r) \/ CallDb(r) \/ Reply(r) PROVE PhaseInv' /\ AllIsClosed'
  BY <1>8 DEF Accept, CallDb, Reply
<1>9. CASE UNCHANGED vars
  BY <1>9 DEF vars
<1>10. QED
  BY <1>1, <1>2, <1>3, <1>4, <1>5, <1>6, <1>7, <1>8, <1>9 DEF Next, Main

LEMMA RequestNext ==
  ASSUME LifeAssumption, TypeOK, PhaseInv, RequestInv, [Next]_vars
  PROVE  RequestInv'
<1> USE DEF RequestInv, LostOnlyByShutdown, TypeOK
<1>1. CASE Connect \/ GiveUp \/ Wire
  BY <1>1 DEF Connect, GiveUp, Wire
<1>2. CASE BeginClose
  BY <1>2, ClosersShape DEF BeginClose
<1>3. CASE CloseNext
  <2>1. phase = "closing" /\ UNCHANGED <<late, req>>
    BY <1>3 DEF CloseNext
  <2>2. QED
    BY <2>1, CloseNextSteps, <1>3
<1>4. CASE Drain
  BY <1>4 DEF Drain, Serving
<1>5. CASE Exit
  BY <1>5 DEF Exit, Serving
<1>6. CASE Signal \/ ShutdownTimeout
  BY <1>6 DEF Signal, ShutdownTimeout
<1>7. CASE Listen \/ ServerFails
  BY <1>7 DEF Listen, ServerFails, Up
<1>8. ASSUME NEW r \in Req, Accept(r) PROVE RequestInv'
  BY <1>8, ClosersShape DEF Accept, PhaseInv, Up
<1>9. ASSUME NEW r \in Req, CallDb(r) PROVE RequestInv'
  BY <1>9 DEF CallDb, PhaseInv, Up, Phases
<1>10. ASSUME NEW r \in Req, Reply(r) PROVE RequestInv'
  BY <1>10 DEF Reply
<1>11. CASE UNCHANGED vars
  BY <1>11 DEF vars
<1>12. QED
  BY <1>1, <1>2, <1>3, <1>4, <1>5, <1>6, <1>7, <1>8, <1>9, <1>10, <1>11 DEF Next, Main

LEMMA LifeHolds == Spec => []LifeInv
<1>1. Init => LifeInv
  <2>1. 0 \in 0..Len(Closers) /\ 0 \in 0..Calls
    BY ClosersShape, LifeAssumption DEF LifeAssumption
  <2>2. Init => TypeOK
    BY <2>1 DEF Init, TypeOK, Phases
  <2>3. Init => PhaseInv /\ AllIsClosed /\ RequestInv
    BY DEF Init, PhaseInv, AllIsClosed, RequestInv, LostOnlyByShutdown
  <2>4. QED
    BY <2>2, <2>3 DEF LifeInv
<1>2. LifeInv /\ [Next]_vars => LifeInv'
  BY TypeNext, PhaseNext, RequestNext, LifeAssumption DEF LifeInv
<1>3. QED BY <1>1, <1>2, PTL DEF Spec

-----------------------------------------------------------------------------
\* The type invariant of the process holds in every reachable state.
THEOREM LifeTypes == Spec => []TypeOK
BY LifeHolds, PTL DEF LifeInv

\* A process that started its server never ends with the pool open or the
\* server running.
THEOREM EverythingIsClosed == Spec => []AllIsClosed
BY LifeHolds, PTL DEF LifeInv

\* Requests are lost only by the shutdown, and cut off only by its timeout.
THEOREM OnlyShutdownLoses == Spec => []LostOnlyByShutdown
<1>1. LifeInv => LostOnlyByShutdown
  BY DEF LifeInv, RequestInv
<1>2. QED BY <1>1, LifeHolds, PTL

-----------------------------------------------------------------------------
(* How far the end is.                                                     *)

\* The steps of the main goroutine until the process has exited, at most.
Ahead == IF phase = "connecting" THEN 2 * Len(Closers) + 4
         ELSE IF phase = "wiring" THEN 2 * Len(Closers) + 3
         ELSE IF phase = "running" THEN 2 * Len(Closers) + 2
         ELSE IF phase = "closing" THEN 2 * i + 1
         ELSE IF phase = "draining" THEN 2 * i
         ELSE 0

\* Every step of the main goroutine brings the end nearer, and no other one, of
\* a request, a signal, the timer or the server, puts it off.
NearsTheEnd == /\ Ahead' <= Ahead
               /\ Main => Ahead' < Ahead

LEMMA MainNears ==
  ASSUME LifeInv, Main
  PROVE  Ahead' < Ahead /\ Ahead' <= Ahead
<1> USE ClosersShape DEF LifeInv, TypeOK, Ahead
<1>0. Len(Closers) \in Nat /\ i \in Nat
  BY ClosersShape
<1>1. CASE Connect
  BY <1>1, <1>0 DEF Connect
<1>2. CASE GiveUp
  BY <1>2, <1>0 DEF GiveUp
<1>3. CASE Wire
  BY <1>3, <1>0 DEF Wire
<1>4. CASE BeginClose
  BY <1>4, <1>0 DEF BeginClose
<1>5. CASE CloseNext
  <2>1. phase = "closing"
    BY <1>5 DEF CloseNext
  <2>2. QED BY <1>5, <1>0, <2>1, CloseNextSteps
<1>6. CASE Drain
  <2>1. phase = "draining" /\ phase' = "closing" /\ i = 1 /\ i' = 0
    BY <1>6 DEF Drain, PhaseInv
  <2>2. QED BY <2>1
<1>7. CASE Exit
  BY <1>7, <1>0 DEF Exit
<1>8. QED
  BY <1>1, <1>2, <1>3, <1>4, <1>5, <1>6, <1>7 DEF Main

\* Main's steps are bounded: at most as many as Ahead says are left to the end
\* of the process, whatever requests, signals and timers come between.
THEOREM TheEndComesNearer == Spec => [][NearsTheEnd]_vars
<1>1. LifeInv /\ [Next]_vars => [NearsTheEnd]_vars
  <2> SUFFICES ASSUME LifeInv, Next
               PROVE  NearsTheEnd
    BY DEF NearsTheEnd
  <2>0. Ahead \in Nat
    BY ClosersShape DEF LifeInv, TypeOK, Phases, Ahead
  <2>1. CASE Main
    BY <2>1, MainNears DEF NearsTheEnd
  <2>2. ASSUME UNCHANGED <<phase, i>>
        PROVE  Ahead' = Ahead
    BY <2>2 DEF Ahead
  <2>3. CASE ~Main
    <3>1. CASE Signal \/ ShutdownTimeout \/ Listen \/ ServerFails
      BY <2>0, <2>2, <2>3, <3>1 DEF Signal, ShutdownTimeout, Listen, ServerFails, NearsTheEnd
    <3>2. ASSUME NEW r \in Req, Accept(r) \/ CallDb(r) \/ Reply(r)
          PROVE  NearsTheEnd
      BY <2>0, <2>2, <2>3, <3>2 DEF Accept, CallDb, Reply, NearsTheEnd
    <3>3. QED BY <2>3, <3>1, <3>2 DEF Next
  <2>4. QED BY <2>1, <2>3
<1>2. QED BY <1>1, LifeHolds, PTL DEF Spec

=============================================================================
