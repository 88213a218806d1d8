------------------------------ MODULE MCSignIn ------------------------------
(* SignIn for TLC: finite as it is. *)
EXTENDS SignIn
=============================================================================
