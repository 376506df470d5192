---------------------------- MODULE MCHostedRun ----------------------------
(***************************************************************************)
(* Instances of HostedRun; the .cfg files bound the tunnels and modules,   *)
(* and with them the runs that get anywhere.                               *)
(***************************************************************************)
EXTENDS HostedRun, TLC

Symmetry == Permutations(Urls) \cup Permutations(Ids)

=============================================================================
