---------------------------- MODULE MCFirstBoot ----------------------------
(***************************************************************************)
(* Instances of FirstBoot for TLC: two personalisations, any settings      *)
(* file, two values for a random identity, and the faults anywhere.        *)
(***************************************************************************)
EXTENDS FirstBoot
=============================================================================
