----------------------------- MODULE MCAccounts -----------------------------
(***************************************************************************)
(* Three signups, two of one email that is given in both cases; the first  *)
(* user renames itself to the email of the third, an admin renames the     *)
(* third to the first email, and two admins delete the first.              *)
(***************************************************************************)
EXTENDS Accounts

SmallLower == [a |-> "a", A |-> "a", b |-> "b", B |-> "b"]
SmallEmailOf == [r1 |-> "a", c2 |-> "A", r3 |-> "b", me1 |-> "B", ad3 |-> "a", ad2 |-> "B"]
SmallTargetOf == [me1 |-> "r1", ad3 |-> "r3", ad2 |-> "c2", d1 |-> "r1", d2 |-> "r1"]

=============================================================================
