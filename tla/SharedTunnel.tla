---------------------------- MODULE SharedTunnel ----------------------------
(***************************************************************************)
(* Several `make conformance.plan` at a time in one directory: the part of *)
(* ci/scripts/run_conformance_hosted_with_tunnel.sh and cf_tunnel.sh that  *)
(* goes through .cf-tunnel.log and .cf-tunnel.env, which they share.       *)
(* HostedRun has all of a run, one run after the other.                    *)
(*                                                                         *)
(* A run's tunnel has the run's own name for its address.                  *)
(***************************************************************************)
EXTENDS FiniteSets

CONSTANTS Runs, None

(* What the parameters can be; Toolkit assumes it.                         *)
SharedAssumption == None \notin Runs

VARIABLES
  pc,        \* Runs -> "new", "detect", "source", "suite", "done", "failed" or "killed"
  opened,    \* runs whose cloudflared is up and has not told its address
  log,       \* addresses in .cf-tunnel.log
  env,       \* RP_BASE in .cf-tunnel.env, None if there is no such file
  RP_BASE,   \* Runs -> shell variable
  disturbed  \* runs that another one met in the setup of their tunnels

vars == <<pc, opened, log, env, RP_BASE, disturbed>>

Init ==
  /\ pc = [r \in Runs |-> "new"] /\ opened = {}
  /\ log = {} /\ env = None
  /\ RP_BASE = [r \in Runs |-> None] /\ disturbed = {}

Setup == {r \in Runs : pc[r] \in {"detect", "source"}}

(* Run r touches the files.                                                *)
Touch(r) ==
  disturbed' = disturbed \cup (Setup \ {r}) \cup (IF Setup \ {r} = {} THEN {} ELSE {r})

Step(r, from, to) == pc[r] = from /\ pc' = [pc EXCEPT ![r] = to]

FaultyOpenTunnel(r) ==      \* the log is not emptied
  /\ Step(r, "new", "detect") /\ Touch(r)
  /\ opened' = opened \cup {r}
  /\ UNCHANGED <<log, env, RP_BASE>>

OpenTunnel(r) ==
  /\ Step(r, "new", "detect") /\ Touch(r)
  /\ opened' = opened \cup {r} /\ log' = {}
  /\ UNCHANGED <<env, RP_BASE>>

(* cloudflared opened the log at its start and writes where it is: it may  *)
(* write over what another one has written.                                *)
TunnelReady(r) ==
  /\ r \in opened /\ opened' = opened \ {r}
  /\ \E kept \in SUBSET log : log' = kept \cup {r}
  /\ Touch(r)
  /\ UNCHANGED <<pc, env, RP_BASE>>

(* The first address in the log; which it is the offsets of the writers    *)
(* decide.  cf_tunnel.sh ends, and its cloudflared with it.                *)
Detect(r) ==
  /\ Step(r, "detect", "source") /\ Touch(r)
  /\ env' \in log /\ opened' = opened \ {r}
  /\ UNCHANGED <<log, RP_BASE>>

(* The EXIT trap.                                                          *)
RemoveFiles(r) == env' = None

GiveUp(r) ==
  /\ Step(r, "detect", "failed") /\ Touch(r)
  /\ RemoveFiles(r) /\ opened' = opened \ {r}
  /\ UNCHANGED <<log, RP_BASE>>

Source(r) ==
  /\ Touch(r)
  /\ \/ /\ env # None /\ Step(r, "source", "suite")
        /\ RP_BASE' = [RP_BASE EXCEPT ![r] = env] /\ UNCHANGED env
     \/ env = None /\ Step(r, "source", "failed") /\ RemoveFiles(r) /\ UNCHANGED RP_BASE
  /\ UNCHANGED <<log, opened>>

Finish(r) ==
  /\ Step(r, "suite", "done") /\ Touch(r) /\ RemoveFiles(r)
  /\ UNCHANGED <<log, opened, RP_BASE>>

(* SIGKILL: no trap runs.                                                  *)
Kill(r) ==
  /\ pc[r] \in {"detect", "source", "suite"} /\ pc' = [pc EXCEPT ![r] = "killed"]
  /\ opened' = opened \ {r}
  /\ UNCHANGED <<log, env, RP_BASE, disturbed>>

Next == \E r \in Runs :
  OpenTunnel(r) \/ TunnelReady(r) \/ Detect(r) \/ GiveUp(r) \/ Source(r) \/ Finish(r) \/ Kill(r)

Spec == Init /\ [][Next]_vars

(***************************************************************************)
(* Properties                                                              *)
(***************************************************************************)

(* The variables hold what runs and files can; what is in the files was    *)
(* written by a run that got that far.                                     *)
TypeOK ==
  /\ pc \in [Runs -> {"new", "detect", "source", "suite", "done", "failed", "killed"}]
  /\ opened \subseteq {r \in Runs : pc[r] = "detect"}
  /\ log \subseteq {r \in Runs : pc[r] # "new"}
  /\ env \in {None} \cup {r \in Runs : pc[r] # "new"}
  /\ RP_BASE \in [Runs -> Runs \cup {None}]
  /\ disturbed \subseteq Runs

(* A run whose setup no other run met gives the suite the address of its   *)
(* own tunnel, whatever killed runs have left in the directory: only an    *)
(* overlap of setups can mix addresses up.                                 *)
OwnUnlessDisturbed == \A r \in Runs \ disturbed : RP_BASE[r] \in {None, r}

(* Unless a run was killed, no .cf-tunnel.env outlives the last run, so a  *)
(* later `source` cannot find an address nobody serves.                    *)
NothingIsLeft ==
  (\A r \in Runs : pc[r] \in {"new", "done", "failed"}) => env = None

(* What every step preserves: while an undisturbed run is in its setup, no *)
(* other one writes to the files, so what it reads there is its own.       *)
SharedInv ==
  /\ TypeOK /\ OwnUnlessDisturbed /\ NothingIsLeft
  /\ \A r \in Runs \ disturbed :
       /\ pc[r] = "detect" => log \subseteq {r}
       /\ pc[r] = "source" => env = r
=============================================================================
