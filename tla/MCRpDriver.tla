----------------------------- MODULE MCRpDriver -----------------------------
(***************************************************************************)
(* A plan of three modules for RpDriver.                                   *)
(***************************************************************************)
EXTENDS RpDriver

CONSTANTS m1, m2, m3

MCPlan == <<m1, m2, m3>>

=============================================================================
