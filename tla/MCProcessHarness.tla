------------------------- MODULE MCProcessHarness -------------------------
(***************************************************************************)
(* Instances of ProcessHarness: payloads and outputs smaller than a pipe,  *)
(* as large as one and larger.                                             *)
(***************************************************************************)
EXTENDS ProcessHarness

=============================================================================
