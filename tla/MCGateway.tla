------------------------------ MODULE MCGateway ------------------------------
(***************************************************************************)
(* Three calls of the four routes, with one value of the header or none    *)
(* and with a token that claims the role of an admin or one that does not. *)
(***************************************************************************)
EXTENDS Gateway, TLC

\* No property names a call or an instance, and none is temporal.
Sym == Permutations(Call) \union Permutations(Inst)
=============================================================================
