--------------------------- MODULE HostedRunProofs ---------------------------
(***************************************************************************)
(* Theorems about HostedRun for any number of tunnels and modules, and so  *)
(* for any number of runs, each of which may be killed at any step.        *)
(***************************************************************************)
EXTENDS HostedRun, TLAPS

USE HostedAssumption DEF Goto, Exit

LEMMA RunStarts ==
  ASSUME RunInv, Run
  PROVE  RunInv'
BY DEF RunInv, TypeOK, AddressIsThisRuns, SuccessMeansStarted, Run, tunnel, suite

LEMMA KillKeeps ==
  ASSUME RunInv, Kill
  PROVE  RunInv'
BY DEF RunInv, TypeOK, AddressIsThisRuns, SuccessMeansStarted, Kill, suite, shell

(* A killed run leaves its .cf-tunnel.env, and its log is emptied by the   *)
(* next run that opens a tunnel.                                           *)
LEMMA OpenTunnelKeeps ==
  ASSUME RunInv, OpenTunnel
  PROVE  RunInv'
BY DEF RunInv, TypeOK, AddressIsThisRuns, SuccessMeansStarted, OpenTunnel, tunnel, suite, shell

LEMMA TunnelReadyKeeps ==
  ASSUME RunInv, TunnelReady
  PROVE  RunInv'
BY DEF RunInv, TypeOK, AddressIsThisRuns, SuccessMeansStarted, TunnelReady, suite, shell

(* What detection writes for `source` is the address of this run's tunnel. *)
LEMMA DetectKeeps ==
  ASSUME RunInv, Detect
  PROVE  RunInv'
BY DEF RunInv, TypeOK, AddressIsThisRuns, SuccessMeansStarted, Detect, GiveUp, KillTunnel, suite, shell

LEMMA SourceKeeps ==
  ASSUME RunInv, Source
  PROVE  RunInv'
BY DEF RunInv, TypeOK, AddressIsThisRuns, SuccessMeansStarted, Source, tunnel, suite

LEMMA TunnelStopsKeeps ==
  ASSUME RunInv, TunnelStops
  PROVE  RunInv'
BY DEF RunInv, TypeOK, AddressIsThisRuns, SuccessMeansStarted, TunnelStops, suite, shell

LEMMA PlanStepsKeep ==
  ASSUME RunInv, CheckPlan \/ StartPlan
  PROVE  RunInv'
BY DEF RunInv, TypeOK, AddressIsThisRuns, SuccessMeansStarted, CheckPlan, StartPlan, tunnel, suite, shell

(* The suite knows the module it creates by the address of this run.       *)
LEMMA CreateModuleKeeps ==
  ASSUME RunInv, CreateModule
  PROVE  RunInv'
<1>1. CASE UNCHANGED <<modules, MODULE_ID>> /\ Exit("failure")
  BY <1>1 DEF RunInv, TypeOK, AddressIsThisRuns, SuccessMeansStarted, CreateModule, tunnel
<1>2. ASSUME NEW id \in Ids \ DOMAIN modules, Created(id),
             \/ MODULE_ID' = id /\ Goto("start module")
             \/ UNCHANGED MODULE_ID /\ Exit("failure")
      PROVE  RunInv'
  <2>1. /\ pc = "create" /\ RP_BASE \in Urls \cup {PublicUrl} /\ plan = "running"
        /\ UNCHANGED <<tunnel, plan, RP_BASE, mine>>
    BY DEF CreateModule, RunInv, TypeOK
  <2>2. /\ DOMAIN modules' = DOMAIN modules \cup {id}
        /\ modules'[id] = [status |-> "created", rp_base |-> RP_BASE]
        /\ \A i \in DOMAIN modules : modules'[i] = modules[i]
    BY <1>2 DEF Created
  <2>3. /\ DOMAIN modules' \subseteq Ids
        /\ \A i \in DOMAIN modules' :
             modules'[i] \in [status : {"created", "started"}, rp_base : Urls \cup {PublicUrl}]
    BY <2>1, <2>2 DEF RunInv, TypeOK
  <2>4. /\ \/ pc' = "start module" /\ MODULE_ID' = id /\ UNCHANGED <<env, exit>>
           \/ pc' = "idle" /\ exit' = "failure" /\ env' = None /\ UNCHANGED MODULE_ID
        /\ exit # "success"
    BY <1>2, <2>1 DEF RunInv
  <2>5. TypeOK'
    BY <2>1, <2>3, <2>4 DEF RunInv, TypeOK, tunnel
  <2>6. AddressIsThisRuns'
    BY <2>1 DEF RunInv, AddressIsThisRuns
  <2>7. SuccessMeansStarted'
    BY <2>4 DEF SuccessMeansStarted
  <2> QED
    <3>1. RP_BASE' # None /\ plan' = "running" /\ exit' # "success"
      BY <2>1, <2>4
    <3>2. pc' = "start module" => MODULE_ID' \in DOMAIN modules' /\ modules'[MODULE_ID'].rp_base = RP_BASE'
      <4>1. id \in DOMAIN modules' /\ modules'[id].rp_base = RP_BASE
        BY <2>2
      <4>2. pc' = "start module" => MODULE_ID' = id
        BY <2>4
      <4> QED
        BY <2>1, <4>1, <4>2
    <3> QED
      BY <2>4, <2>5, <2>6, <2>7, <3>1, <3>2 DEF RunInv
<1> QED
  BY <1>1, <1>2 DEF CreateModule

(* Only an answer that says that the module was started ends a run well.   *)
LEMMA StartModuleKeeps ==
  ASSUME RunInv, StartModule
  PROVE  RunInv'
<1>1. /\ pc = "start module" /\ MODULE_ID \in DOMAIN modules /\ plan = "running"
      /\ modules[MODULE_ID].rp_base = RP_BASE
      /\ \A i \in DOMAIN modules :
           modules[i] \in [status : {"created", "started"}, rp_base : Urls \cup {PublicUrl}]
      /\ UNCHANGED <<tunnel, plan, shell>>
  BY DEF StartModule, RunInv, TypeOK
<1>2. CASE UNCHANGED modules /\ Exit("failure")
  BY <1>1, <1>2 DEF RunInv, TypeOK, AddressIsThisRuns, SuccessMeansStarted, tunnel, shell
<1>3. CASE ModuleStarted /\ (Exit("success") \/ Exit("failure"))
  <2>1. /\ DOMAIN modules' = DOMAIN modules
        /\ modules'[MODULE_ID] = [status |-> "started", rp_base |-> RP_BASE]
        /\ \A i \in DOMAIN modules : i # MODULE_ID => modules'[i] = modules[i]
    BY <1>1, <1>3 DEF ModuleStarted
  <2>2. RP_BASE \in Urls \cup {PublicUrl}
    BY <1>1
  <2>3. \A i \in DOMAIN modules' :
          modules'[i] \in [status : {"created", "started"}, rp_base : Urls \cup {PublicUrl}]
    <3> SUFFICES ASSUME NEW i \in DOMAIN modules
                 PROVE  modules'[i] \in [status : {"created", "started"}, rp_base : Urls \cup {PublicUrl}]
      BY <2>1
    <3>1. CASE i = MODULE_ID
      BY <2>1, <2>2, <3>1
    <3>2. CASE i # MODULE_ID
      BY <1>1, <2>1, <3>2
    <3> QED
      BY <3>1, <3>2
  <2>4. TypeOK'
    BY <1>1, <1>3, <2>1, <2>3 DEF RunInv, TypeOK, tunnel, shell
  <2>5. SuccessMeansStarted'
    BY <1>1, <2>1 DEF SuccessMeansStarted, shell
  <2> QED
    BY <1>1, <1>3, <2>4, <2>5 DEF RunInv, AddressIsThisRuns, tunnel, shell
<1> QED
  BY <1>2, <1>3 DEF StartModule

LEMMA RunInvStep ==
  ASSUME RunInv, [Next]_vars
  PROVE  RunInv'
<1>1. CASE UNCHANGED vars
  BY <1>1 DEF vars, tunnel, suite, shell, RunInv, TypeOK, AddressIsThisRuns, SuccessMeansStarted
<1> QED
  BY <1>1, RunStarts, KillKeeps, OpenTunnelKeeps, TunnelReadyKeeps, DetectKeeps, SourceKeeps,
     TunnelStopsKeeps, PlanStepsKeep, CreateModuleKeeps, StartModuleKeeps DEF Next

(* RunInv holds in every reachable state.                                  *)
THEOREM RunInvariant == Spec => []RunInv
<1>1. Init => RunInv
  BY DEF Init, RunInv, TypeOK, AddressIsThisRuns, SuccessMeansStarted
<1> QED
  BY <1>1, RunInvStep, PTL DEF Spec

(* The scripts' variables, the files and the suite's modules are typed.    *)
THEOREM TypeCorrect == Spec => []TypeOK
BY RunInvariant, PTL DEF RunInv

(* A run ends with 0 only when the plan runs and the run's own module has  *)
(* been started with the run's own address.                                *)
THEOREM SuccessIsEarned == Spec => []SuccessMeansStarted
BY RunInvariant, PTL DEF RunInv

(* No run takes an address that a killed run has left for its own.         *)
THEOREM AddressesAreOwn == Spec => []AddressIsThisRuns
BY RunInvariant, PTL DEF RunInv
=============================================================================
