------------------------------ MODULE Directory ------------------------------
(***************************************************************************)
(* What the accounts promise: users join with an email of their own and    *)
(* become members in the same instant; an email that anybody has had up to *)
(* now, or had when leaving, is never given to somebody else.              *)
(***************************************************************************)
CONSTANTS User, Address, Nobody

VARIABLES
  address, \* User -> the email, Nobody before joining
  left,    \* the users who have left
  members

dvars == <<address, left, members>>

Init == /\ address = [u \in User |-> Nobody]
        /\ left = {}
        /\ members = {}

Free(e, u) == \A v \in User \ {u} : address[v] # e

Join(u, e) == /\ address[u] = Nobody
              /\ Free(e, u)
              /\ address' = [address EXCEPT ![u] = e]
              /\ members' = members \union {u}
              /\ UNCHANGED left

Rename(u, e) == /\ u \in members \ left
                /\ Free(e, u)
                /\ address' = [address EXCEPT ![u] = e]
                /\ UNCHANGED <<left, members>>

Leave(u) == /\ u \in members \ left
            /\ left' = left \union {u}
            /\ UNCHANGED <<address, members>>

Next == \E u \in User : Leave(u) \/ \E e \in Address : Join(u, e) \/ Rename(u, e)

Spec == Init /\ [][Next]_dvars

=============================================================================
