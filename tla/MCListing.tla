------------------------------ MODULE MCListing ------------------------------
(* Four users, limits of 1 and 2, and those that are refused.              *)
EXTENDS Listing, TLC

\* No property names a user, and none is a liveness property.
Sym == Permutations(User)
=============================================================================
