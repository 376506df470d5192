------------------------------ MODULE PlanRun ------------------------------
(***************************************************************************)
(* A job that runs conformance plans: `make conformance.full` and the CI   *)
(* workflows.  It waits for the suite (ci/scripts/wait_for.sh), runs one   *)
(* plan after the other (run_conformance_plan.sh, which records the plan's *)
(* id and calls the driver) and collects reports after each, whether the   *)
(* plan's run has failed or not (collect_reports.sh).  A plan after a      *)
(* failed one is skipped; its collection is not.                           *)
(*                                                                         *)
(* The driver is known here by its DriverContract, which counts only the   *)
(* modules that the suite lists with an id, and by the two checks it makes *)
(* before it asks the suite anything.                                      *)
(***************************************************************************)
EXTENDS Integers, Sequences

CONSTANTS
  Ids,         \* plan ids of the suite
  Stale,       \* the id of a plan of an earlier job
  Modules,     \* modules of each plan
  Runs,        \* plans the job runs
  WaitBudget,  \* looks at the health endpoint before the deadline
  None

(* What the parameters can be; Toolkit assumes it.                         *)
JobAssumption ==
  /\ Stale \notin Ids /\ None \notin Ids \cup {Stale}
  /\ Runs \in Nat \ {0} /\ WaitBudget \in Nat \ {0}

VARIABLES
  hosts,      \* [suite, rp]: hosts of SUITE_BASE and RP_BASE_URL
  pc,         \* step of the job
  waited,     \* looks at the health endpoint
  run,        \* the plan it is at
  plans,      \* suite: ids of the plans that exist
  named,      \* suite: id -> modules it lists with an id of their own
  passed,     \* suite: id -> modules that have passed
  PLAN_ID,    \* shell variable of run_conformance_plan.sh
  files,      \* plan id found in a file, None if there is no such file
  reached,    \* has the driver asked the suite for the current plan
  driver,     \* "idle" before it is started, then as exit in DriverContract
  failed,     \* has a step of the job failed
  announced,  \* ids of the plans created by this job, in order
  tried       \* ids of the plans whose reports were asked for

history == <<announced, tried>>
vars == <<hosts, pc, waited, run, plans, named, passed, PLAN_ID, files, reached, driver,
          failed, history>>

PLAN_ID_FILE == "reports/.last_plan_id"

Init ==
  /\ hosts \in [suite : {"localhost", "hosted"}, rp : {"localhost", "rp"}]
  /\ pc = "wait" /\ waited = 0 /\ run = 1
  /\ plans = {Stale} /\ named = [i \in Ids |-> {}] /\ passed = [i \in Ids |-> {}]
  /\ PLAN_ID = None /\ reached = FALSE /\ driver = "idle" /\ failed = FALSE
  /\ files \in [{PLAN_ID_FILE} -> {None, Stale}]
  /\ announced = <<>> /\ tried = {}

Read(file) == IF file \in DOMAIN files THEN files[file] ELSE None

(* The modules of the current plan, of which the driver drives those that  *)
(* have an id.                                                             *)
Named == IF PLAN_ID = None THEN {} ELSE named[PLAN_ID]
Passed == IF PLAN_ID = None THEN {} ELSE passed[PLAN_ID]

Driver == INSTANCE DriverContract WITH named <- Named, passed <- Passed, exit <- driver

(* wait_for.sh polls until the suite is healthy or the deadline passes.    *)
Wait ==
  /\ pc = "wait"
  /\ \/ pc' = "plan" /\ UNCHANGED <<waited, failed>>
     \/ waited < WaitBudget /\ waited' = waited + 1 /\ UNCHANGED <<pc, failed>>
     \/ waited = WaitBudget /\ pc' = "plan" /\ failed' = TRUE /\ UNCHANGED waited
  /\ UNCHANGED <<hosts, run, plans, named, passed, PLAN_ID, files, reached, driver, history>>

(***************************************************************************)
(* run_conformance_plan.sh                                                 *)
(***************************************************************************)

Exit(ok) == pc' = "collect" /\ failed' = (failed \/ ~ok)

StartPlan ==
  /\ pc = "plan"
  /\ PLAN_ID' = None /\ driver' = "idle" /\ reached' = FALSE
  /\ \/ failed /\ Exit(FALSE)           \* the step is skipped
     \/ ~failed /\ Exit(FALSE)          \* no config for the alias, or no plan name in it
     \/ ~failed /\ pc' = "create" /\ UNCHANGED failed
  /\ UNCHANGED <<hosts, waited, run, plans, named, passed, files, history>>

(* curl --fail fails or the answer has no id; there may be a plan now.     *)
PlanNotCreated ==
  /\ plans' \in {plans} \cup {plans \cup {i} : i \in Ids \ plans}
  /\ Exit(FALSE)
  /\ UNCHANGED <<named, PLAN_ID, files, announced, driver>>

(* What the suite lists for a plan it keeps, ids or none.                  *)
CreatePlan ==
  /\ pc = "create"
  /\ \/ \E i \in Ids \ plans :
          /\ plans' = plans \cup {i} /\ PLAN_ID' = i
          /\ \E listed \in SUBSET Modules : named' = [named EXCEPT ![i] = listed]
          /\ files' = [files EXCEPT ![PLAN_ID_FILE] = i]
          /\ announced' = Append(announced, i)
          /\ driver' = "running"
          /\ pc' = "start_driver" /\ UNCHANGED failed
     \/ PlanNotCreated
  /\ UNCHANGED <<hosts, waited, run, passed, reached, tried>>

(* CONFORMANCE_ALLOWED_HOSTS as the script exports it; validate_url raises *)
(* a ValueError, which nobody catches, for a URL on another host.          *)
AllowedHosts == {"localhost", "127.0.0.1", hosts.rp}

StartDriver ==
  /\ pc = "start_driver"
  /\ pc' = "drive"
  /\ IF hosts.suite \in AllowedHosts
     THEN reached' = TRUE /\ UNCHANGED driver
     ELSE driver' = "crash" /\ UNCHANGED reached
  /\ UNCHANGED <<hosts, waited, run, plans, named, passed, PLAN_ID, files, failed, history>>

Drive ==
  /\ pc = "drive" /\ UNCHANGED <<named, passed, PLAN_ID>>
  /\ Driver!End
  /\ UNCHANGED <<hosts, pc, waited, run, plans, files, reached, failed, history>>

ModulePasses ==
  /\ pc = "drive" /\ reached
  /\ \E m \in Modules \ Passed : passed' = [passed EXCEPT ![PLAN_ID] = @ \cup {m}]
  /\ UNCHANGED <<hosts, pc, waited, run, plans, named, PLAN_ID, files, reached, driver,
                 failed, history>>

FaultyEndPlan ==      \* the exit status of the driver is masked
  /\ pc = "drive" /\ driver # "running"
  /\ Exit(TRUE)
  /\ UNCHANGED <<hosts, waited, run, plans, named, passed, PLAN_ID, files, reached, driver,
                 history>>

(* The script ends with the exit status of the driver.                     *)
EndPlan ==
  /\ pc = "drive" /\ driver # "running"
  /\ Exit(driver = "success")
  /\ UNCHANGED <<hosts, waited, run, plans, named, passed, PLAN_ID, files, reached, driver,
                 history>>

(***************************************************************************)
(* collect_reports.sh                                                      *)
(***************************************************************************)

(* It asks for the plan whose id it finds and always exits with 0, however *)
(* much of the reports it gets.                                            *)
Collect ==
  /\ pc = "collect"
  /\ tried' = tried \cup ({Read(PLAN_ID_FILE)} \ {None})
  /\ run' = run + 1
  /\ pc' = IF run = Runs THEN "over" ELSE "plan"
  /\ UNCHANGED <<hosts, waited, plans, named, passed, PLAN_ID, files, reached, driver, failed,
                 announced>>

Job == Wait \/ StartPlan \/ CreatePlan \/ StartDriver \/ Drive \/ EndPlan \/ Collect

Next == Job \/ ModulePasses

(* The shell and the scripts it calls run; every request of theirs ends,   *)
(* and the driver does, by its contract.                                   *)
Fairness == WF_vars(Job)

Spec == Init /\ [][Next]_vars /\ Fairness

(***************************************************************************)
(* Properties                                                              *)
(***************************************************************************)

(* The variables hold what the job, its scripts and the suite can.         *)
TypeOK ==
  /\ pc \in {"wait", "plan", "create", "start_driver", "drive", "collect", "over"}
  /\ waited \in 0..WaitBudget /\ run \in 1..Runs + 1
  /\ plans \subseteq Ids \cup {Stale}
  /\ named \in [Ids -> SUBSET Modules] /\ passed \in [Ids -> SUBSET Modules]
  /\ PLAN_ID \in Ids \cup {None} /\ files \in [{PLAN_ID_FILE} -> Ids \cup {Stale, None}]
  /\ reached \in BOOLEAN /\ failed \in BOOLEAN
  /\ driver \in {"idle", "running", "success", "failure", "crash"}
  /\ announced \in Seq(Ids) /\ tried \subseteq Ids \cup {Stale}

(* All the modules of plan i that have an id, and there are some, passed.  *)
AllNamedPassed(i) == named[i] # {} /\ named[i] \subseteq passed[i]

(* A job ends well only when each of its plans was created anew and every  *)
(* module the suite lists with an id, some in every plan, has passed:      *)
(* neither a skipped plan nor the collection, which always exits with 0,   *)
(* hides a failure.  Of a module that is listed without an id it says      *)
(* nothing: the driver skips it.                                           *)
GoodJobMeansNamedPassed ==
  pc = "over" /\ ~failed =>
    /\ Len(announced) = Runs
    /\ \A i \in 1..Runs : announced[i] # Stale /\ AllNamedPassed(announced[i])
    /\ \A i, j \in 1..Runs : announced[i] = announced[j] => i = j

(* The recorded id is that of the last plan the job has created, also when *)
(* a later one could not be created or gave no id.                         *)
RecordedIsLastCreated ==
  announced # <<>> => files[PLAN_ID_FILE] = announced[Len(announced)]

(* Every plan that was created has its reports collected by the end of the *)
(* job, whatever became of its modules.                                    *)
CreatedIsCollected == pc = "over" => \A i \in DOMAIN announced : announced[i] \in tried

(* The reports of an earlier job's plan are taken for this job's only by a *)
(* job that fails.                                                         *)
StaleOnlyInFailedJobs == Stale \in tried => failed

(***************************************************************************)
(* What every step preserves, of which those are parts: where the job is   *)
(* while nothing has failed says how many plans it has created, and all of *)
(* them but the one it is at have passed and are collected.                *)
(***************************************************************************)

AtPlan == pc \in {"start_driver", "drive"}

Progress ==
  /\ pc = "create" \/ AtPlan => ~failed
  /\ pc = "over" <=> run = Runs + 1
  /\ ~failed => Len(announced) = IF AtPlan \/ pc = "collect" THEN run ELSE run - 1

Current ==
  /\ AtPlan => announced # <<>> /\ PLAN_ID = announced[Len(announced)]
  /\ pc = "start_driver" => driver = "running"
  /\ pc = "drive" /\ driver = "success" => AllNamedPassed(PLAN_ID)

Accounted ==
  /\ \A i \in DOMAIN announced :
       /\ announced[i] \in plans
       /\ \A j \in DOMAIN announced : announced[i] = announced[j] => i = j
       /\ AllNamedPassed(announced[i]) \/ failed \/ (AtPlan /\ i = Len(announced))
       /\ announced[i] \in tried \/ ((pc = "collect" \/ AtPlan) /\ i = Len(announced))
  /\ Stale \in tried => failed

JobInv == TypeOK /\ RecordedIsLastCreated /\ Progress /\ Current /\ Accounted
=============================================================================
