-------------------------- MODULE MCToolResilience --------------------------
(***************************************************************************)
(* Constants for model-checking the tool runner: three concurrent calls.   *)
(***************************************************************************)
EXTENDS ToolResilience

CONSTANTS c1, c2, c3

ThreeCalls == {c1, c2, c3}
=============================================================================
