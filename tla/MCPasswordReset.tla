--------------------------- MODULE MCPasswordReset ---------------------------
(***************************************************************************)
(* One user with two tokens, the first of them confirmed twice, and one    *)
(* change of the password.                                                 *)
(***************************************************************************)
EXTENDS PasswordReset

SmallOwnerOf == [t1 |-> "u1", t2 |-> "u1"]
SmallTokenOf == [c1 |-> "t1", c2 |-> "t1", d1 |-> "t2"]
SmallUserOf == [h1 |-> "u1"]

=============================================================================
