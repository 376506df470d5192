------------------------------ MODULE RpDriver ------------------------------
(***************************************************************************)
(* ci/tools/run_rp_modules.py: it walks the modules of a conformance plan, *)
(* starts each one in the suite, triggers the relying party and polls the  *)
(* suite for the module's result.                                          *)
(*                                                                         *)
(* A request ends in one of three ways: an answer; a RuntimeError, raised  *)
(* for an HTTP error status and for a connection that was refused; or      *)
(* another exception (the connection breaks or times out after the request *)
(* was sent, the answer is not JSON), which no handler of the script       *)
(* catches.  In the last two the other side may have acted all the same.   *)
(* The suite and the relying party are outside this repository; they are   *)
(* modelled from what the script expects of them: among the modules that   *)
(* it lists for a plan there can be some without an id, and those the      *)
(* script passes over.                                                     *)
(***************************************************************************)
EXTENDS Integers, Sequences, FiniteSets

CONSTANTS
  Modules,      \* modules of the plan
  Plan,         \* Modules in the order GET /api/plan lists them
  PollBudget    \* polls that fit before the deadline (900 s, one every 2 s)

ASSUME PlanAssumption == /\ Plan \in Seq(Modules)
                         /\ \A i, j \in DOMAIN Plan : Plan[i] = Plan[j] => i = j
                         /\ \A m \in Modules : \E i \in DOMAIN Plan : Plan[i] = m
ASSUME BudgetAssumption == PollBudget \in Nat \ {0}

Ended == {"FINISHED", "INTERRUPTED"}
Status == {"CREATED", "CONFIGURED", "WAITING", "RUNNING"} \cup Ended
Result == {"none", "PASSED", "REVIEW", "FAILED"}
Acceptable == {"PASSED", "REVIEW"}

VARIABLES
  status,           \* suite: Modules -> status
  result,           \* suite: Modules -> result
  named,            \* suite: modules that it lists with an id
  triggered,        \* relying party: modules whose login it has been asked to run
  fail_fast,        \* --fail-fast
  pc,               \* where the driver is
  at,               \* position in Plan of the module being driven, 0 before the first
  polls,            \* polls made for it
  overall_success,  \* as in drive_modules
  exit              \* "running", or how the process ended

suite == <<status, result>>
inputs == <<named, fail_fast>>
vars == <<suite, inputs, triggered, pc, at, polls, overall_success, exit>>

(* The plan may have been driven before, partly or to its end.             *)
Init ==
  /\ status \in [Modules -> Status]
  /\ result \in {r \in [Modules -> Result] : \A m \in Modules : r[m] # "none" <=> status[m] = "FINISHED"}
  /\ named \in SUBSET Modules
  /\ fail_fast \in BOOLEAN
  /\ triggered = {}
  /\ pc = "plan"
  /\ at = 0
  /\ polls = 0
  /\ overall_success = TRUE
  /\ exit = "running"

Current == Plan[at]

(***************************************************************************)
(* The suite                                                               *)
(***************************************************************************)

Startable(m) == status[m] \in {"CREATED", "CONFIGURED"}

(* POST /api/runner/m or .../m/start: it acts on a module once.            *)
SuiteStarts(m) ==
  /\ status' = [status EXCEPT ![m] = IF Startable(m) THEN "WAITING" ELSE @]
  /\ UNCHANGED result

(* A module runs once the relying party logs in, and ends with a result.   *)
SuiteRuns(m) ==
  /\ \/ /\ status[m] = "WAITING" /\ m \in triggered
        /\ status' = [status EXCEPT ![m] = "RUNNING"]
        /\ UNCHANGED result
     \/ /\ status[m] = "RUNNING"
        /\ status' = [status EXCEPT ![m] = "FINISHED"]
        /\ \E r \in Result \ {"none"} : result' = [result EXCEPT ![m] = r]
  /\ UNCHANGED <<inputs, triggered, pc, at, polls, overall_success, exit>>

SuiteInterrupts(m) ==
  /\ status[m] \notin Ended
  /\ status' = [status EXCEPT ![m] = "INTERRUPTED"]
  /\ UNCHANGED <<result, inputs, triggered, pc, at, polls, overall_success, exit>>

(***************************************************************************)
(* The driver                                                              *)
(***************************************************************************)

Exit(how) ==
  /\ exit' = how
  /\ pc' = "exit"
  /\ UNCHANGED <<at, polls, overall_success>>

Goto(label) ==
  /\ pc' = label
  /\ UNCHANGED <<at, polls, overall_success, exit>>

(* An exception the script does not catch: traceback, exit status 1.       *)
Crash == Exit("crash")

(* A RuntimeError that reaches main.                                       *)
Abort == Exit("failure")

(* ensure_modules: the entries that the loop of drive_modules goes over.   *)
Driven == {i \in DOMAIN Plan : Plan[i] \in named}

FaultyIsNext(j) == j = at + 1      \* the loop goes over the entries as the suite lists them

(* j is the next of them after at, or beyond the plan.                     *)
IsNext(j) ==
  /\ at < j /\ (j <= Len(Plan) => j \in Driven)
  /\ \A i \in Driven : i <= at \/ i >= j

Proceed ==
  \E j \in 1..Len(Plan) + 1 :
    /\ IsNext(j) /\ at' = j
    /\ IF j > Len(Plan)
       THEN pc' = "exit" /\ exit' = IF overall_success' THEN "success" ELSE "failure"
       ELSE pc' = "info" /\ UNCHANGED exit

FaultyVerdict(ok) ==      \* the last verdict replaces the earlier ones
  overall_success' = ok /\ polls' = 0 /\ Proceed

(* The verdict on one module, and on to the next one or to sys.exit.       *)
Verdict(ok) ==
  overall_success' = (overall_success /\ ok) /\ polls' = 0 /\ Proceed

FaultyFailed == Verdict(FALSE)      \* --fail-fast forgotten

(* A module that failed while it was triggered or polled.                  *)
Failed == IF fail_fast THEN Abort ELSE Verdict(FALSE)

FaultyReadPlan ==      \* a plan without modules is one that has passed
  /\ pc = "plan"
  /\ \/ UNCHANGED <<polls, overall_success>> /\ Proceed
     \/ Abort \/ Crash
  /\ UNCHANGED <<suite, triggered, inputs>>

(* A plan is refused when none of its modules has an id.                   *)
ReadPlan ==
  /\ pc = "plan"
  /\ \/ Driven # {} /\ Proceed /\ UNCHANGED <<polls, overall_success>>
     \/ Abort \/ Crash
  /\ UNCHANGED <<suite, triggered, inputs>>

(* The status decides the next request; a failure here is not caught.      *)
ReadInfo ==
  /\ pc = "info"
  /\ \/ Goto(IF Startable(Current) THEN "start"
             ELSE IF status[Current] = "WAITING" THEN "trigger" ELSE "poll")
     \/ Abort
     \/ Crash
  /\ UNCHANGED <<suite, triggered, inputs>>

(* start_module: on a RuntimeError the second URL is tried, and a failure  *)
(* of that one is not caught.  After it the module is taken to be WAITING. *)
Start ==
  /\ pc \in {"start", "start again"}
  /\ \/ SuiteStarts(Current) /\ Goto("trigger")
     \/ /\ SuiteStarts(Current) \/ UNCHANGED suite
        /\ (IF pc = "start" THEN Goto("start again") ELSE Abort) \/ Crash
  /\ UNCHANGED <<triggered, inputs>>

TriggerRp ==
  /\ pc = "trigger"
  /\ \/ triggered' = triggered \cup {Current} /\ Goto("poll")
     \/ triggered' \in {triggered, triggered \cup {Current}} /\ (Failed \/ Crash)
  /\ UNCHANGED <<suite, inputs>>

FaultyPoll ==      \* the deadline moves along with the polls
  /\ pc = "poll"
  /\ \/ /\ status[Current] \in Ended
        /\ IF status[Current] = "FINISHED" /\ result[Current] \in Acceptable
           THEN Verdict(TRUE) ELSE Failed
     \/ /\ status[Current] \notin Ended
        /\ polls' = (polls + 1) % PollBudget
        /\ UNCHANGED <<pc, at, overall_success, exit>>
     \/ Failed \/ Crash
  /\ UNCHANGED <<suite, triggered, inputs>>

(* One turn of poll_module; the deadline may pass before the budget is     *)
(* used up, since the requests take time too.                              *)
Poll ==
  /\ pc = "poll"
  /\ \/ /\ polls < PollBudget /\ status[Current] \in Ended
        /\ IF status[Current] = "FINISHED" /\ result[Current] \in Acceptable
           THEN Verdict(TRUE) ELSE Failed
     \/ /\ polls < PollBudget /\ status[Current] \notin Ended
        /\ polls' = polls + 1
        /\ UNCHANGED <<pc, at, overall_success, exit>>
     \/ Failed              \* a request failed, or the deadline has passed
     \/ polls < PollBudget /\ Crash
  /\ UNCHANGED <<suite, triggered, inputs>>

Driver == ReadPlan \/ ReadInfo \/ Start \/ TriggerRp \/ Poll

Next == Driver \/ \E m \in Modules : SuiteRuns(m) \/ SuiteInterrupts(m)

Spec == Init /\ [][Next]_vars

(* The script runs; every request ends within its 30 s timeout.            *)
FairSpec == Spec /\ WF_vars(Driver)

(***************************************************************************)
(* Properties                                                              *)
(***************************************************************************)

(* The variables hold what the script and the suite can hold.              *)
TypeOK ==
  /\ status \in [Modules -> Status] /\ result \in [Modules -> Result]
  /\ named \subseteq Modules /\ fail_fast \in BOOLEAN
  /\ triggered \subseteq Modules
  /\ pc \in {"plan", "info", "start", "start again", "trigger", "poll", "exit"}
  /\ at \in 0..Len(Plan) + 1 /\ (pc \notin {"plan", "exit"} => at \in Driven)
  /\ pc = "plan" => at = 0
  /\ polls \in 0..PollBudget
  /\ overall_success \in BOOLEAN
  /\ exit \in {"running", "success", "failure", "crash"} /\ (exit = "running" <=> pc # "exit")

Passed(m) == status[m] = "FINISHED" /\ result[m] \in Acceptable

(* sys.exit(0) is reached only when some module of the plan is listed with *)
(* an id and every such one has finished in the suite with an acceptable   *)
(* result, whatever was lost, retried or timed out on the way              *)
(* (ensure_modules, drive_modules, main).  Nothing follows for the modules *)
(* that are listed without one.                                            *)
SuccessMeansNamedPassed ==
  exit = "success" => named # {} /\ \A m \in named : Passed(m)

(* run_conformance_plan.sh:17 has the driver "drive each module".  When it *)
(* ends well, each module of the plan would have run to its end.  (It may  *)
(* not have: an entry without an id is passed over without a word.)        *)
SuccessMeansEachDriven ==
  exit = "success" => \A m \in Modules : status[m] \in Ended

(* With --fail-fast ("Stop on first module failure") the relying party is  *)
(* asked to log in for a module only when every module before it in the    *)
(* plan, but for those without an id, has passed: two modules never run    *)
(* side by side under one alias.                                           *)
OneModuleAtATime ==
  fail_fast => \A i, j \in DOMAIN Plan :
    i < j /\ Plan[j] \in triggered /\ Plan[i] \in named => Passed(Plan[i])

(* The inductive invariant behind both: what was driven so far has passed  *)
(* unless a verdict was bad, with --fail-fast the verdict on a module that *)
(* failed is never given, and nothing beyond the current module has been   *)
(* triggered.                                                              *)
DriveInv ==
  /\ TypeOK
  /\ overall_success => \A i \in Driven : i < at => Passed(Plan[i])
  /\ fail_fast => overall_success
  /\ \A i \in DOMAIN Plan : Plan[i] \in triggered => i <= at
  /\ at > 0 => Driven # {}
  /\ exit = "success" => overall_success /\ at > Len(Plan)

(* The script ends, even when the suite never reports an end for a module: *)
(* poll_module gives up at its deadline.                                   *)
DriverTerminates == <>(exit # "running")

Contract == INSTANCE DriverContract WITH passed <- {m \in Modules : Passed(m)}

(* What the callers of the script rely on (DriverContract): every step of  *)
(* the driver, the suite and the relying party is one of the contract, or  *)
(* leaves its state alone.                                                 *)
ImplementsContract == Contract!Spec
=============================================================================
