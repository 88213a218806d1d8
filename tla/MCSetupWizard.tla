--------------------------- MODULE MCSetupWizard ---------------------------
(* SetupWizard for TLC: its constants are model values. *)
EXTENDS SetupWizard
=============================================================================
