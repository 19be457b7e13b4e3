--------------------------- MODULE MCIdempotency ---------------------------
(***************************************************************************)
(* Small instances of Idempotency.  Requests whose names start with the    *)
(* same letter carry the same key; keys a and b carry the same header      *)
(* value for two paths, so they share an advisory lock and nothing else.   *)
(***************************************************************************)
EXTENDS Idempotency

Two == {"i1", "i2"}
OneLock == [ka |-> "l", kb |-> "l"]
TwoLocks == [ka |-> "la", kb |-> "lb"]

\* Three requests of one key on two instances, and one of another key that
\* evicts the first from the memory of i1.
OnceReq == {"a1", "a2", "a3", "b1"}
OnceKeyOf == [a1 |-> "ka", a2 |-> "ka", a3 |-> "ka", b1 |-> "kb"]
OnceInstOf == [a1 |-> "i1", a2 |-> "i2", a3 |-> "i1", b1 |-> "i1"]

\* The same without a3, for the runs with failures.
FewReq == {"a1", "a2", "b1"}
FewKeyOf == [a1 |-> "ka", a2 |-> "ka", b1 |-> "kb"]
FewInstOf == [a1 |-> "i1", a2 |-> "i2", b1 |-> "i1"]

\* Everything on one instance with few connections.
PoolInstOf == [a1 |-> "i1", a2 |-> "i1", b1 |-> "i1"]

=============================================================================
