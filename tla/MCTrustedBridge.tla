-------------------------- MODULE MCTrustedBridge --------------------------
(* TrustedBridge for TLC: its constants are model values. *)
EXTENDS TrustedBridge
=============================================================================
