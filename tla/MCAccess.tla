------------------------------- MODULE MCAccess -------------------------------
(***************************************************************************)
(* One user with two clients, so that a pair is renewed while an older one *)
(* is still in use; an access token lives one tick, a refresh token three. *)
(***************************************************************************)
EXTENDS Access

SmallUserOf == [a1 |-> "ann", a2 |-> "ann"]
SmallTTL == [access |-> 1, refresh |-> 3]

=============================================================================
