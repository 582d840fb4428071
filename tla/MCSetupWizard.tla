--------------------------- MODULE MCSetupWizard ---------------------------
(* Instance of SetupWizard for TLC: two requests at a time.                 *)
EXTENDS SetupWizard, TLC

Symmetry == Permutations(Request)
=============================================================================
