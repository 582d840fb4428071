----------------------------- MODULE MCPrintLed -----------------------------
(* Instances of PrintLed for TLC. *)
EXTENDS PrintLed
=============================================================================
