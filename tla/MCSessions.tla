----------------------------- MODULE MCSessions -----------------------------
(***************************************************************************)
(* Two tokens and two instances.  Token a is read on the instance that     *)
(* logs it out; token b changes the password on the other instance, and    *)
(* both instances sweep the table that they share.                         *)
(***************************************************************************)
EXTENDS Sessions

SmallTokOf == [aRead |-> "a", aOut |-> "a", bPass |-> "b"]
SmallInstOf == [aRead |-> "i1", aOut |-> "i1", bPass |-> "i2"]
SmallKindOf == [aRead |-> "read", aOut |-> "logout", bPass |-> "password"]

=============================================================================
