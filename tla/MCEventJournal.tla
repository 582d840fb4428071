--------------------------- MODULE MCEventJournal ---------------------------
(* Instance of EventJournal for TLC: two daemons compete for one journal     *)
(* and two events.  No symmetry: the refinement is a temporal property.     *)
EXTENDS EventJournal
=============================================================================
