----------------------------- MODULE HostedRun -----------------------------
(***************************************************************************)
(* `make conformance.plan`: ci/scripts/run_conformance_hosted_with_        *)
(* tunnel.sh and the ci/scripts/cf_tunnel.sh it calls.  A run opens a      *)
(* tunnel to the local relying party (RP), checks and starts the hosted    *)
(* plan, and creates and starts a module that is told the RP's address.    *)
(*                                                                         *)
(* Runs follow one another in one working directory.  A run can be killed  *)
(* between any two steps, in which case no trap runs.  Every request to    *)
(* the suite can fail, before or after the suite has acted on it; the      *)
(* scripts run under `set -e` and leave at the first failure.              *)
(***************************************************************************)
EXTENDS Integers, FiniteSets

CONSTANTS
  PublicUrl,    \* RP_BASE of a run with USE_TUNNEL=0
  Urls,         \* addresses of tunnels, one per run at most
  Ids,          \* module ids of the suite
  None

ASSUME HostedAssumption ==
  None \notin Urls /\ PublicUrl \notin Urls \cup {None}

VARIABLES
  live,      \* tunnels whose cloudflared runs
  killed,    \* tunnels whose cloudflared has been sent a kill
  used,      \* addresses given out so far
  log,       \* address to be found in .cf-tunnel.log
  env,       \* RP_BASE in .cf-tunnel.env, None if there is no such file
  plan,      \* the hosted plan: "absent", "idle" or "running"
  modules,   \* the suite's modules: id -> [status, rp_base]
  pc,        \* the step of the current run, "idle" between runs
  RP_BASE,   \* shell variable
  MODULE_ID, \* shell variable
  mine,      \* tunnel the current run has opened
  exit       \* how the last run ended

tunnel == <<live, killed, used, log>>
suite == <<plan, modules>>
shell == <<RP_BASE, MODULE_ID, mine>>
vars == <<tunnel, env, suite, pc, shell, exit>>

Init ==
  /\ live = {} /\ killed = {} /\ used = {} /\ log = None /\ env = None
  /\ plan \in {"absent", "idle", "running"} /\ modules = [i \in {} |-> None]
  /\ pc = "idle" /\ exit = "none"
  /\ RP_BASE = None /\ MODULE_ID = None /\ mine = None

Goto(label) == pc' = label /\ UNCHANGED <<env, exit>>

(* The script ends and its EXIT trap removes the files it wrote.           *)
Exit(how) == pc' = "idle" /\ exit' = how /\ env' = None

FaultyRun ==      \* USE_TUNNEL=0 is not checked for an RP_BASE
  /\ pc = "idle"
  /\ RP_BASE' = None /\ pc' \in {"tunnel", "check plan"}
  /\ MODULE_ID' = None /\ mine' = None
  /\ exit' = "none"
  /\ UNCHANGED <<tunnel, env, suite>>

Run ==
  /\ pc = "idle"
  /\ \/ RP_BASE' = None /\ pc' = "tunnel"
     \/ RP_BASE' = PublicUrl /\ pc' = "check plan"
  /\ MODULE_ID' = None /\ mine' = None
  /\ exit' = "none"
  /\ UNCHANGED <<tunnel, env, suite>>

(* SIGKILL of the process group, cloudflared included: no trap runs, the   *)
(* files stay.                                                             *)
Kill ==
  /\ pc # "idle"
  /\ pc' = "idle" /\ exit' = "killed" /\ live' = {}
  /\ UNCHANGED <<killed, used, log, env, suite, shell>>

(***************************************************************************)
(* cf_tunnel.sh                                                            *)
(***************************************************************************)

OpenTunnel ==
  /\ pc = "tunnel"
  /\ \/ /\ \E u \in Urls \ used :
             live' = live \cup {u} /\ used' = used \cup {u} /\ mine' = u
        /\ log' = None
        /\ Goto("detect")
        /\ UNCHANGED <<killed, suite, RP_BASE, MODULE_ID>>
     \/ /\ Exit("failure")      \* cloudflared is not installed
        /\ UNCHANGED <<tunnel, suite, shell>>

TunnelReady ==
  /\ mine \in live /\ pc = "detect" /\ log = None
  /\ log' = mine
  /\ UNCHANGED <<live, killed, used, env, suite, pc, shell, exit>>

(* kill "${CF_PID}", the EXIT trap of cf_tunnel.sh                         *)
KillTunnel == killed' = killed \cup {mine} /\ UNCHANGED <<live, used, log>>

FaultyGiveUp == Goto("source")      \* cf_tunnel.sh fails, the caller goes on

(* Not one of the 60 looks at the log shows an address.                    *)
GiveUp == Exit("failure")

Detect ==
  /\ pc = "detect"
  /\ \/ log # None /\ env' = log /\ pc' = "source" /\ UNCHANGED exit
     \/ log = None /\ GiveUp
  /\ KillTunnel
  /\ UNCHANGED <<suite, shell>>

Source ==
  /\ pc = "source"
  /\ RP_BASE' = env
  /\ IF env = None THEN Exit("failure") ELSE Goto("check plan")
  /\ UNCHANGED <<tunnel, suite, MODULE_ID, mine>>

(* cloudflared goes down some time after the kill, or by itself.           *)
TunnelStops ==
  /\ \E u \in live : live' = live \ {u}
  /\ UNCHANGED <<killed, used, log, env, suite, pc, shell, exit>>

(***************************************************************************)
(* Requests to the hosted suite                                            *)
(***************************************************************************)

CheckPlan ==
  /\ pc = "check plan"
  /\ \/ plan # "absent" /\ Goto("start plan")
     \/ Exit("failure")
  /\ UNCHANGED <<tunnel, suite, shell>>

(* 200 and 204, and 405 and 409 for a plan that runs already, are success. *)
StartPlan ==
  /\ pc = "start plan"
  /\ \/ plan' = "running" /\ Goto("create")
     \/ plan' \in {plan, "running"} /\ Exit("failure")
  /\ UNCHANGED <<tunnel, modules, shell>>

Created(id) ==
  modules' = [i \in DOMAIN modules \cup {id} |->
                IF i = id THEN [status |-> "created", rp_base |-> RP_BASE] ELSE modules[i]]

CreateModule ==
  /\ pc = "create"
  /\ \/ \E id \in Ids \ DOMAIN modules : Created(id) /\ MODULE_ID' = id /\ Goto("start module")
     \/ \E id \in Ids \ DOMAIN modules : Created(id) /\ UNCHANGED MODULE_ID /\ Exit("failure")
     \/ UNCHANGED <<modules, MODULE_ID>> /\ Exit("failure")
  /\ UNCHANGED <<tunnel, plan, RP_BASE, mine>>

ModuleStarted == modules' = [modules EXCEPT ![MODULE_ID].status = "started"]

FaultyStartModule ==      \* the answer is not looked at
  /\ pc = "start module"
  /\ ModuleStarted \/ UNCHANGED modules
  /\ Exit("success")
  /\ UNCHANGED <<tunnel, plan, shell>>

(* curl prints the body in front of the code here, so that the start of a  *)
(* module is a failure when the suite's answer has a body.                 *)
StartModule ==
  /\ pc = "start module"
  /\ \/ ModuleStarted /\ (Exit("success") \/ Exit("failure"))
     \/ UNCHANGED modules /\ Exit("failure")
  /\ UNCHANGED <<tunnel, plan, shell>>

Next == \/ Run \/ Kill
        \/ OpenTunnel \/ TunnelReady \/ Detect \/ Source \/ TunnelStops
        \/ CheckPlan \/ StartPlan \/ CreateModule \/ StartModule

Spec == Init /\ [][Next]_vars

(***************************************************************************)
(* Properties                                                              *)
(***************************************************************************)

(* The variables hold what the scripts, the suite and the tunnels can.     *)
TypeOK ==
  /\ live \subseteq used /\ killed \subseteq used /\ used \subseteq Urls
  /\ {log, env, mine} \subseteq Urls \cup {None}
  /\ RP_BASE \in Urls \cup {PublicUrl, None} /\ MODULE_ID \in Ids \cup {None}
  /\ plan \in {"absent", "idle", "running"}
  /\ DOMAIN modules \subseteq Ids
  /\ \A i \in DOMAIN modules :
       modules[i] \in [status : {"created", "started"}, rp_base : Urls \cup {PublicUrl}]
  /\ pc \in {"idle", "tunnel", "detect", "source", "check plan", "start plan", "create",
             "start module"}
  /\ exit \in {"none", "success", "failure", "killed"}

(* A run that exits with 0 leaves a running plan and a module that has     *)
(* been started and knows this run's RP address.                           *)
SuccessMeansStarted ==
  exit = "success" => /\ plan = "running" /\ MODULE_ID \in DOMAIN modules
                      /\ modules[MODULE_ID] = [status |-> "started", rp_base |-> RP_BASE]

(* The address a run gives to the suite is that of the tunnel it opened    *)
(* itself: a .cf-tunnel.env or .cf-tunnel.log left behind by a killed run  *)
(* is never taken for its own.                                             *)
AddressIsThisRuns == RP_BASE \in {None, PublicUrl, mine}

(* The inductive invariant behind both: at each step of a run, what the    *)
(* shell variables, the files and the suite already know of it.            *)
RunInv ==
  /\ TypeOK
  /\ AddressIsThisRuns
  /\ pc \in {"tunnel", "detect", "source"} => RP_BASE = None
  /\ pc \in {"detect", "source"} => mine \in used
  /\ pc = "detect" => log \in {None, mine}
  /\ pc = "source" => env = mine
  /\ pc \in {"check plan", "start plan", "create", "start module"} => RP_BASE # None
  /\ pc \in {"create", "start module"} => plan = "running"
  /\ pc = "start module" => MODULE_ID \in DOMAIN modules /\ modules[MODULE_ID].rp_base = RP_BASE
  /\ exit = "success" => pc = "idle"
  /\ SuccessMeansStarted

(* docs/oidf_conformance.md:64: "The tunnel is torn down automatically     *)
(* when the command finishes" - so not while the command still runs.       *)
TunnelOutlastsTheRun == mine # None /\ mine \in killed => pc = "idle"
=============================================================================
