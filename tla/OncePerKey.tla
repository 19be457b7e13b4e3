----------------------------- MODULE OncePerKey -----------------------------
(***************************************************************************)
(* What the Idempotency-Key header promises a client: of all the requests  *)
(* that carry one key, at most one is executed, and every one of them is   *)
(* answered with the response of the one that was, or with an error.  An   *)
(* error is never the answer of the request that was executed.             *)
(*                                                                         *)
(* A response is named by the request whose execution produced it.         *)
(***************************************************************************)
CONSTANTS Req, Key, KeyOf, None, Error

VARIABLES executed, \* the requests whose operation took effect
          answer    \* what each client received: None, Error or a response

Init == /\ executed = {}
        /\ answer = [r \in Req |-> None]

Execute(r) == /\ \A x \in executed : KeyOf[x] # KeyOf[r]
              /\ answer[r] = None
              /\ executed' = executed \union {r}
              /\ UNCHANGED answer

Reply(r) == /\ answer[r] = None
            /\ \E x \in executed : /\ KeyOf[x] = KeyOf[r]
                                   /\ answer' = [answer EXCEPT ![r] = x]
            /\ UNCHANGED executed

Refuse(r) == /\ answer[r] = None
             /\ r \notin executed
             /\ answer' = [answer EXCEPT ![r] = Error]
             /\ UNCHANGED executed

Next == \E r \in Req : Execute(r) \/ Reply(r) \/ Refuse(r)

Spec == Init /\ [][Next]_<<executed, answer>>

=============================================================================
