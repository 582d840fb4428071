----------------------------- MODULE MCPrinting -----------------------------
(***************************************************************************)
(* Instances of HuffmanTrees, PageLayout and PrintProtocol for TLC, one    *)
(* beside the other: a behaviour is one of theirs, and the other two stay  *)
(* as they begin.  Bytes have three values, so a full tree has five nodes, *)
(* and codes have up to two bits.                                          *)
(***************************************************************************)
EXTENDS HuffmanTrees, PageLayout, PrintProtocol

Plain == [speed |-> 12, density |-> 9, tracking |-> 0, copies |-> 1]

\* Each setting at its limits and just beyond them.
MCSettings ==
  {Plain, [speed |-> 1, density |-> 1, tracking |-> 0, copies |-> 1],
   [speed |-> 255, density |-> 15, tracking |-> 255, copies |-> 255]}
  \cup {[Plain EXCEPT !.speed = n] : n \in {0, 256}}
  \cup {[Plain EXCEPT !.density = n] : n \in {0, 16}}
  \cup {[Plain EXCEPT !.tracking = n] : n \in {-1, 256}}
  \cup {[Plain EXCEPT !.copies = n] : n \in {0, 256, 257}}

Begin == TreesInit /\ LayoutInit /\ Init

Step ==
  \/ LayoutInit /\ Init /\ settings = Plain /\ TreesNext /\ UNCHANGED <<layoutVars, vars>>
  \/ TreesInit /\ Init /\ settings = Plain /\ LayoutNext /\ UNCHANGED <<treesVars, vars>>
  \/ TreesInit /\ LayoutInit /\ Next /\ UNCHANGED <<treesVars, layoutVars>>

PrintingSpec == Begin /\ [][Step]_<<treesVars, layoutVars, vars>>
=============================================================================
