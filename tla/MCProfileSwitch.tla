-------------------------- MODULE MCProfileSwitch --------------------------
(* A user with two profiles who switches between them while an order is    *)
(* confirmed; nothing fails.                                               *)
EXTENDS Profiles
=============================================================================
