--------------------------- MODULE RpDriverProofs ---------------------------
(***************************************************************************)
(* Theorems about RpDriver for every plan, whichever of its modules have an *)
(* id, with and without --fail-fast and whatever a module's deadline is.   *)
(***************************************************************************)
EXTENDS RpDriver, TLAPS

USE DEF Ended, Status, Result, Acceptable

(***************************************************************************)
(* Lemmas about the plan and the suite                                     *)
(***************************************************************************)

LEMMA PlanFacts ==
  /\ Len(Plan) \in Nat
  /\ DOMAIN Plan = 1..Len(Plan)
  /\ \A i \in DOMAIN Plan : Plan[i] \in Modules
BY PlanAssumption

LEMMA BudgetFacts == PollBudget \in Nat /\ 0 \in 0..PollBudget
BY BudgetAssumption

(* While a module is driven, the driver is at a position of the plan.      *)
LEMMA AtAModule ==
  ASSUME TypeOK, pc \notin {"plan", "exit"}
  PROVE  at \in DOMAIN Plan /\ at \in Driven /\ Current \in Modules
<1>1. at \in Driven
  BY DEF TypeOK
<1> QED
  BY <1>1, PlanFacts DEF Current, Driven

(* A module that has passed stays so: the suite takes no result back, and  *)
(* acts on a start only before the module runs.                            *)
LEMMA PassedIsStable ==
  ASSUME TypeOK, [Next]_vars, NEW m \in Modules, Passed(m)
  PROVE  Passed(m)'
<1>1. \/ UNCHANGED suite
      \/ \E k \in Modules : SuiteStarts(k) \/ SuiteRuns(k) \/ SuiteInterrupts(k)
  <2>1. CASE Start
    <3>1. Current \in Modules
      BY <2>1, AtAModule DEF Start
    <3> QED
      BY <2>1, <3>1 DEF Start
  <2> QED
    BY <2>1 DEF Next, Driver, ReadPlan, ReadInfo, TriggerRp, Poll, vars
<1>2. CASE UNCHANGED suite
  BY <1>2 DEF suite, Passed
<1>3. ASSUME NEW k \in Modules, SuiteStarts(k) \/ SuiteRuns(k) \/ SuiteInterrupts(k)
      PROVE  Passed(m)'
  BY <1>3 DEF TypeOK, Passed, SuiteStarts, SuiteRuns, SuiteInterrupts, Startable
<1> QED
  BY <1>1, <1>2, <1>3

(***************************************************************************)
(* Type correctness                                                        *)
(***************************************************************************)

(* What the suite may do to its tables keeps them typed.                   *)
LEMMA SuiteType ==
  ASSUME TypeOK, NEW m \in Modules, SuiteStarts(m)
  PROVE  status' \in [Modules -> Status] /\ result' \in [Modules -> Result]
BY DEF TypeOK, SuiteStarts

(* The parts of TypeOK that only the driver writes.                        *)
DriverTypeOK ==
  /\ pc \in {"plan", "info", "start", "start again", "trigger", "poll", "exit"}
  /\ at \in 0..Len(Plan) + 1 /\ (pc \notin {"plan", "exit"} => at \in Driven)
  /\ pc = "plan" => at = 0
  /\ polls \in 0..PollBudget
  /\ overall_success \in BOOLEAN
  /\ exit \in {"running", "success", "failure", "crash"} /\ (exit = "running" <=> pc # "exit")

(* Proceeding keeps the driver inside the plan or just beyond it.          *)
LEMMA ProceedType ==
  ASSUME TypeOK, Proceed, named' = named
  PROVE  /\ at' \in 0..Len(Plan) + 1 /\ at' > at
         /\ \/ pc' = "info" /\ exit' = exit /\ at' \in Driven'
            \/ pc' = "exit" /\ exit' \in {"success", "failure"} /\ at' > Len(Plan)
         /\ exit' = "success" /\ exit = "running" => overall_success'
         /\ \A i \in Driven : i <= at \/ i >= at'
<1>1. Driven' = Driven
  BY DEF Driven
<1>2. PICK j \in 1..Len(Plan) + 1 :
        /\ IsNext(j) /\ at' = j
        /\ IF j > Len(Plan)
           THEN pc' = "exit" /\ exit' = IF overall_success' THEN "success" ELSE "failure"
           ELSE pc' = "info" /\ UNCHANGED exit
  BY DEF Proceed
<1>3. j \in 0..Len(Plan) + 1 /\ (j > Len(Plan) \/ j <= Len(Plan))
  BY PlanFacts
<1> QED
  BY <1>1, <1>2, <1>3 DEF IsNext

LEMMA VerdictType ==
  ASSUME TypeOK, pc \notin {"plan", "exit"}, NEW ok \in BOOLEAN, Verdict(ok), named' = named
  PROVE  DriverTypeOK'
<1>1. polls' \in 0..PollBudget
  BY BudgetFacts DEF Verdict
<1>2. overall_success' \in BOOLEAN
  BY DEF Verdict
<1>3. exit = "running"
  BY DEF TypeOK
<1> QED
  BY <1>1, <1>2, <1>3, ProceedType DEF DriverTypeOK, Verdict

LEMMA ExitType ==
  ASSUME TypeOK, NEW how \in {"failure", "crash"}, Exit(how)
  PROVE  DriverTypeOK'
BY DEF TypeOK, DriverTypeOK, Exit

LEMMA FailedType ==
  ASSUME TypeOK, pc \notin {"plan", "exit"}, Failed, named' = named
  PROVE  DriverTypeOK'
BY VerdictType, ExitType DEF Failed, Abort

LEMMA GotoType ==
  ASSUME TypeOK, pc \notin {"plan", "exit"}, named' = named,
         NEW label \in {"info", "start", "start again", "trigger", "poll"}, Goto(label)
  PROVE  DriverTypeOK'
<1>1. Driven' = Driven
  BY DEF Driven
<1> QED
  BY <1>1 DEF TypeOK, DriverTypeOK, Goto

LEMMA DriverStepType ==
  ASSUME TypeOK, Driver
  PROVE  TypeOK'
<1>0. named' = named /\ named' \subseteq Modules /\ fail_fast' \in BOOLEAN
  BY DEF Driver, ReadPlan, ReadInfo, Start, TriggerRp, Poll, inputs, TypeOK
<1> SUFFICES /\ status' \in [Modules -> Status] /\ result' \in [Modules -> Result]
             /\ triggered' \subseteq Modules
             /\ DriverTypeOK'
  BY <1>0 DEF TypeOK, DriverTypeOK
<1>1. CASE ReadPlan
  <2>1. CASE Abort \/ Crash
    BY <1>1, <2>1, ExitType DEF ReadPlan, Abort, Crash, TypeOK, suite
  <2>2. CASE Proceed /\ UNCHANGED <<polls, overall_success>>
    <3>1. polls' \in 0..PollBudget /\ overall_success' \in BOOLEAN /\ exit = "running"
      BY <1>1, <2>2 DEF ReadPlan, TypeOK
    <3>2. DriverTypeOK'
      BY <1>0, <2>2, <3>1, ProceedType DEF DriverTypeOK
    <3> QED
      BY <1>1, <3>2 DEF ReadPlan, TypeOK, suite
  <2> QED
    BY <1>1, <2>1, <2>2 DEF ReadPlan
<1>2. CASE ReadInfo
  <2>1. pc \notin {"plan", "exit"}
    BY <1>2 DEF ReadInfo
  <2> QED
    BY <1>0, <1>2, <2>1, GotoType, ExitType DEF ReadInfo, Abort, Crash, TypeOK, suite
<1>3. CASE Start
  <2>1. pc \notin {"plan", "exit"} /\ Current \in Modules
    BY <1>3, AtAModule DEF Start
  <2>2. status' \in [Modules -> Status] /\ result' \in [Modules -> Result]
    BY <1>3, <2>1, SuiteType DEF Start, TypeOK, suite
  <2>3. DriverTypeOK'
    BY <1>0, <1>3, <2>1, GotoType, ExitType DEF Start, Abort, Crash
  <2> QED
    BY <1>3, <2>2, <2>3 DEF Start, TypeOK
<1>4. CASE TriggerRp
  <2>1. pc \notin {"plan", "exit"} /\ Current \in Modules
    BY <1>4, AtAModule DEF TriggerRp
  <2>2. DriverTypeOK'
    BY <1>0, <1>4, <2>1, GotoType, FailedType, ExitType DEF TriggerRp, Crash
  <2> QED
    BY <1>4, <2>1, <2>2 DEF TriggerRp, TypeOK, suite
<1>5. CASE Poll
  <2>1. pc \notin {"plan", "exit"} /\ Driven' = Driven
    BY <1>0, <1>5 DEF Poll, Driven
  <2>2. CASE polls < PollBudget /\ polls' = polls + 1 /\ UNCHANGED <<pc, at, overall_success, exit>>
    <3>1. polls \in 0..PollBudget
      BY DEF TypeOK
    <3>2. polls' \in 0..PollBudget
      BY <2>2, <3>1, BudgetFacts
    <3> QED
      BY <1>5, <2>1, <2>2, <3>2 DEF Poll, TypeOK, DriverTypeOK, suite
  <2>3. CASE Verdict(TRUE) \/ Failed \/ Crash
    BY <1>0, <1>5, <2>1, <2>3, VerdictType, FailedType, ExitType DEF Poll, Crash, TypeOK, suite
  <2> QED
    BY <1>5, <2>2, <2>3 DEF Poll
<1> QED
  BY <1>1, <1>2, <1>3, <1>4, <1>5 DEF Driver

LEMMA TypeStep ==
  ASSUME TypeOK, [Next]_vars
  PROVE  TypeOK'
<1>1. ASSUME NEW m \in Modules, SuiteRuns(m) \/ SuiteInterrupts(m)
      PROVE  TypeOK'
  <2>1. /\ UNCHANGED <<named, fail_fast, triggered, pc, at, polls, overall_success, exit>>
        /\ Driven' = Driven
    BY <1>1 DEF SuiteRuns, SuiteInterrupts, inputs, Driven
  <2>2. status' \in [Modules -> Status] /\ result' \in [Modules -> Result]
    <3>1. status \in [Modules -> Status] /\ result \in [Modules -> Result]
      BY DEF TypeOK
    <3>2. {"RUNNING", "FINISHED", "INTERRUPTED"} \subseteq Status
      BY DEF Status, Ended
    <3> QED
      BY <1>1, <3>1, <3>2 DEF SuiteRuns, SuiteInterrupts
  <2> QED
    BY <2>1, <2>2 DEF TypeOK
<1>2. CASE UNCHANGED vars
  BY <1>2 DEF TypeOK, vars, suite, inputs, Driven
<1> QED
  BY <1>1, <1>2, DriverStepType DEF Next

LEMMA TypeInit == Init => TypeOK
<1> SUFFICES ASSUME Init
             PROVE  TypeOK
  OBVIOUS
<1>1. 0 \in 0..Len(Plan) + 1
  BY PlanFacts
<1> QED
  BY <1>1, BudgetFacts DEF Init, TypeOK

(* The tables of the suite, the driver's variables and the way it ended    *)
(* are well typed in every reachable state.                                *)
THEOREM TypeCorrect == Spec => []TypeOK
BY TypeInit, TypeStep, PTL DEF Spec

(***************************************************************************)
(* What has been driven has passed                                         *)
(***************************************************************************)

(* A step of the system gives a verdict on the current module, a bad one   *)
(* only without --fail-fast, or moves on in the plan no further.           *)
LEMMA StepCases ==
  ASSUME TypeOK, [Next]_vars
  PROVE  /\ UNCHANGED inputs
         /\ \/ UNCHANGED <<at, overall_success>> /\ exit' \in {exit, "failure", "crash"}
            \/ pc = "plan" /\ Driven # {} /\ Proceed /\ UNCHANGED overall_success
            \/ pc \notin {"plan", "exit"} /\ Verdict(TRUE) /\ Passed(Current)
            \/ pc \notin {"plan", "exit"} /\ Verdict(FALSE) /\ ~fail_fast
<1>1. CASE Poll
  BY <1>1 DEF Poll, Failed, Abort, Crash, Exit, Passed
<1>2. CASE TriggerRp
  BY <1>2 DEF TriggerRp, Failed, Abort, Crash, Exit, Goto
<1>3. CASE Start
  BY <1>3 DEF Start, Abort, Crash, Exit, Goto
<1>4. CASE ReadPlan \/ ReadInfo
  BY <1>4 DEF ReadPlan, ReadInfo, Abort, Crash, Exit, Goto
<1>5. ASSUME NEW m \in Modules, SuiteRuns(m) \/ SuiteInterrupts(m)
      PROVE  UNCHANGED <<inputs, at, overall_success, exit>>
  BY <1>5 DEF SuiteRuns, SuiteInterrupts
<1>6. CASE UNCHANGED vars
  BY <1>6 DEF vars
<1> QED
  BY <1>1, <1>2, <1>3, <1>4, <1>5, <1>6 DEF Next, Driver

(* Only the module that is driven is triggered.                            *)
LEMMA OnlyCurrentTriggered ==
  ASSUME TypeOK, [Next]_vars
  PROVE  \/ triggered' = triggered
         \/ pc \notin {"plan", "exit"} /\ triggered' = triggered \cup {Current}
<1>1. CASE Driver
  BY <1>1 DEF Driver, ReadPlan, ReadInfo, Start, TriggerRp, Poll
<1>2. ASSUME NEW m \in Modules, SuiteRuns(m) \/ SuiteInterrupts(m)
      PROVE  triggered' = triggered
  BY <1>2 DEF SuiteRuns, SuiteInterrupts
<1>3. CASE UNCHANGED vars
  BY <1>3 DEF vars
<1> QED
  BY <1>1, <1>2, <1>3 DEF Next

LEMMA DriveInvStep ==
  ASSUME DriveInv, [Next]_vars
  PROVE  DriveInv'
<1>1. TypeOK /\ TypeOK'
  BY TypeStep DEF DriveInv
<1>2. \A i \in DOMAIN Plan : Passed(Plan[i]) => Passed(Plan[i])'
  BY <1>1, PlanFacts, PassedIsStable
<1>3. /\ at \in Nat /\ at' \in Nat /\ Len(Plan) \in Nat
      /\ DOMAIN Plan \subseteq Nat /\ Driven \subseteq DOMAIN Plan
  <2>1. at \in 0..Len(Plan) + 1 /\ at' \in 0..Len(Plan) + 1
    BY <1>1 DEF TypeOK
  <2> QED
    BY <2>1, PlanFacts DEF Driven
<1>4. UNCHANGED <<named, fail_fast>> /\ Driven' = Driven
  BY <1>1, StepCases DEF inputs, Driven
<1>5. \A i \in DOMAIN Plan : Plan[i] \in triggered' => i <= at
  <2>1. CASE triggered' = triggered
    BY <2>1 DEF DriveInv
  <2>2. CASE pc \notin {"plan", "exit"} /\ triggered' = triggered \cup {Current}
    <3> SUFFICES ASSUME NEW i \in DOMAIN Plan, Plan[i] = Plan[at]
                 PROVE  i <= at
      BY <2>2 DEF DriveInv, Current
    <3>1. i = at
      BY <1>1, <2>2, AtAModule, PlanAssumption
    <3> QED
      BY <1>3, <3>1
  <2> QED
    BY <1>1, <2>1, <2>2, OnlyCurrentTriggered
<1>6. CASE UNCHANGED <<at, overall_success>> /\ exit' \in {exit, "failure", "crash"}
  BY <1>1, <1>2, <1>3, <1>4, <1>5, <1>6 DEF DriveInv
<1>7. ASSUME Proceed, pc # "exit", Driven # {}, overall_success' => overall_success,
             fail_fast => overall_success',
             overall_success' => (at \in Driven => Passed(Plan[at]))
      PROVE  DriveInv'
  <2>1. /\ at' > at /\ \A i \in Driven : i <= at \/ i >= at'
        /\ exit' = "success" => overall_success' /\ at' > Len(Plan)
    <3>1. exit = "running"
      BY <1>1, <1>7 DEF TypeOK
    <3> QED
      BY <1>1, <1>4, <1>7, <3>1, ProceedType
  <2>2. overall_success' => \A i \in Driven' : i < at' => Passed(Plan[i])'
    <3> SUFFICES ASSUME overall_success', NEW i \in Driven, i < at'
                 PROVE  Passed(Plan[i])'
      BY <1>4
    <3>1. i < at \/ i = at
      BY <1>3, <2>1
    <3>2. Passed(Plan[i])
      BY <1>7, <3>1 DEF DriveInv
    <3> QED
      BY <1>2, <1>3, <3>2
  <2>3. \A i \in DOMAIN Plan : Plan[i] \in triggered' => i <= at'
    BY <1>3, <1>5, <2>1
  <2> QED
    BY <1>1, <1>4, <1>7, <2>1, <2>2, <2>3 DEF DriveInv
<1>8. CASE pc = "plan" /\ Driven # {} /\ Proceed /\ UNCHANGED overall_success
  <2>1. at \notin Driven
    <3>1. at = 0
      BY <1>1, <1>8 DEF TypeOK
    <3> QED
      BY <1>3, <3>1, PlanFacts
  <2> QED
    BY <1>7, <1>8, <2>1 DEF DriveInv
<1>9. ASSUME NEW ok \in BOOLEAN,
             pc \notin {"plan", "exit"}, Verdict(ok), ok => Passed(Current), fail_fast => ok
      PROVE  DriveInv'
  <2>1. Proceed /\ (overall_success' <=> overall_success /\ ok)
    BY <1>1, <1>9 DEF Verdict, TypeOK
  <2>2. Driven # {}
    BY <1>1, <1>9, AtAModule
  <2> QED
    BY <1>7, <1>9, <2>1, <2>2 DEF DriveInv, Current
<1> QED
  BY <1>1, <1>6, <1>8, <1>9, StepCases

(* DriveInv holds in every reachable state.                                *)
THEOREM DriveInvariant == Spec => []DriveInv
<1>1. Init => DriveInv
  <2> SUFFICES ASSUME Init
               PROVE  DriveInv
    OBVIOUS
  <2>1. \A i \in Driven : ~ i < 0
    BY PlanFacts DEF Driven
  <2> QED
    BY <2>1, TypeInit DEF Init, DriveInv
<1> QED
  BY <1>1, DriveInvStep, PTL DEF Spec

LEMMA SuccessFromDriveInv == DriveInv => SuccessMeansNamedPassed
<1> SUFFICES ASSUME DriveInv, exit = "success"
             PROVE  named # {} /\ \A m \in named : Passed(m)
  BY DEF SuccessMeansNamedPassed
<1>1. at > Len(Plan) /\ at \in 0..Len(Plan) + 1
  BY DEF DriveInv, TypeOK
<1>2. at > 0
  BY <1>1, PlanFacts
<1>3. named # {}
  BY <1>2 DEF DriveInv, Driven
<1>4. ASSUME NEW m \in named
      PROVE  Passed(m)
  <2>1. m \in Modules
    BY DEF DriveInv, TypeOK
  <2>2. PICK i \in DOMAIN Plan : Plan[i] = m
    BY <2>1, PlanAssumption
  <2>3. i \in Driven
    BY <2>2 DEF Driven
  <2>4. i < at
    BY <1>1, PlanFacts
  <2> QED
    BY <2>2, <2>3, <2>4 DEF DriveInv
<1> QED
  BY <1>3, <1>4

(* The driver ends with 0 only when the plan lists some module with an id  *)
(* and every such module has finished with an acceptable result, for every *)
(* plan and deadline, whichever entries have no id.                        *)
THEOREM SuccessIsEarned == Spec => []SuccessMeansNamedPassed
BY DriveInvariant, SuccessFromDriveInv, PTL

(* With --fail-fast no module is triggered before all that precede it in   *)
(* the plan, but for those without an id, have passed.                     *)
THEOREM ModulesRunOneByOne == Spec => []OneModuleAtATime
<1>1. DriveInv => OneModuleAtATime
  <2> SUFFICES ASSUME DriveInv, fail_fast, NEW i \in DOMAIN Plan, NEW j \in DOMAIN Plan,
                      i < j, Plan[j] \in triggered, Plan[i] \in named
               PROVE  Passed(Plan[i])
    BY DEF OneModuleAtATime
  <2>1. j <= at /\ at \in 0..Len(Plan) + 1
    BY DEF DriveInv, TypeOK
  <2>2. i < at
    BY <2>1, PlanFacts
  <2>3. i \in Driven
    BY DEF Driven
  <2> QED
    BY <2>2, <2>3 DEF DriveInv
<1> QED
  BY <1>1, DriveInvariant, PTL

(***************************************************************************)
(* The driver keeps its contract                                           *)
(***************************************************************************)

AllPassed == {m \in Modules : Passed(m)}

(* Nothing the driver does makes a module pass.                            *)
LEMMA DriverPassesNothing ==
  ASSUME TypeOK, Driver
  PROVE  UNCHANGED AllPassed
<1>1. CASE UNCHANGED suite
  BY <1>1 DEF AllPassed, Passed, suite
<1>2. CASE Start /\ SuiteStarts(Current)
  BY <1>2, AtAModule DEF Start, SuiteStarts, Startable, AllPassed, Passed, TypeOK
<1> QED
  BY <1>1, <1>2 DEF Driver, ReadPlan, ReadInfo, Start, TriggerRp, Poll

(* The way the driver ends is its own, and is said once.                   *)
LEMMA EndsOnce ==
  ASSUME DriveInv, DriveInv', Driver, exit' # exit
  PROVE  Contract!End
<1>1. exit = "running"
  BY DEF Driver, ReadPlan, ReadInfo, Start, TriggerRp, Poll, DriveInv, TypeOK
<1>2. exit' \in {"success", "failure", "crash"}
  BY <1>1 DEF DriveInv, TypeOK
<1>3. UNCHANGED AllPassed
  BY DriverPassesNothing DEF DriveInv
<1>4. named' = named
  BY DEF Driver, ReadPlan, ReadInfo, Start, TriggerRp, Poll, inputs
<1>5. exit' = "success" => named # {} /\ named \subseteq AllPassed
  <2>1. exit' = "success" => SuccessMeansNamedPassed'
    BY SuccessFromDriveInv, PTL
  <2>2. named \subseteq Modules
    BY DEF DriveInv, TypeOK
  <2> QED
    BY <1>3, <1>4, <2>1, <2>2 DEF SuccessMeansNamedPassed, AllPassed
<1> QED
  BY <1>1, <1>2, <1>3, <1>4, <1>5 DEF Contract!End, AllPassed

LEMMA ContractStep ==
  ASSUME DriveInv, DriveInv', [Next]_vars
  PROVE  [Contract!Next]_Contract!vars
<1> USE DEF AllPassed
<1>0. named' = named
  BY StepCases DEF DriveInv, inputs
<1>1. CASE Driver
  <2>1. CASE exit' = exit
    BY <1>0, <1>1, <2>1, DriverPassesNothing DEF DriveInv, Contract!vars
  <2>2. CASE exit' # exit
    BY <1>1, <2>2, EndsOnce DEF Contract!Next
  <2> QED
    BY <2>1, <2>2
<1>2. ASSUME NEW m \in Modules, SuiteRuns(m)
      PROVE  [Contract!Next]_Contract!vars
  <2>1. UNCHANGED exit
    BY <1>2 DEF SuiteRuns
  <2>2. \A k \in Modules : k # m => (Passed(k)' <=> Passed(k))
    BY <1>2 DEF SuiteRuns, Passed, DriveInv, TypeOK
  <2>3. ~Passed(m)
    BY <1>2 DEF SuiteRuns, Passed
  <2>4. CASE Passed(m)'
    <3>1. AllPassed' = AllPassed \cup {m}
      BY <2>2, <2>4
    <3> QED
      BY <1>0, <2>1, <2>3, <3>1 DEF Contract!Pass, Contract!Next
  <2>5. CASE ~Passed(m)'
    <3>1. AllPassed' = AllPassed
      BY <2>2, <2>3, <2>5
    <3> QED
      BY <1>0, <2>1, <3>1 DEF Contract!vars
  <2> QED
    BY <2>4, <2>5
<1>3. ASSUME NEW m \in Modules, SuiteInterrupts(m)
      PROVE  UNCHANGED Contract!vars
  <2>1. ~Passed(m) /\ ~Passed(m)'
    BY <1>3 DEF SuiteInterrupts, Passed, Ended, DriveInv, TypeOK
  <2>2. \A k \in Modules : k # m => (Passed(k)' <=> Passed(k))
    BY <1>3 DEF SuiteInterrupts, Passed, DriveInv, TypeOK
  <2>3. exit' = exit
    BY <1>3 DEF SuiteInterrupts
  <2> QED
    BY <1>0, <2>1, <2>2, <2>3 DEF Contract!vars
<1>4. CASE UNCHANGED vars
  BY <1>0, <1>4 DEF vars, suite, Passed, Contract!vars
<1> QED
  BY <1>1, <1>2, <1>3, <1>4 DEF Next

(* Every step of the driver, the suite and the relying party is one that   *)
(* DriverContract allows, or leaves its variables alone.                   *)
THEOREM StepsAreOfContract == Spec => Contract!Init /\ [][Contract!Next]_Contract!vars
<1>1. Init => Contract!Init
  BY DEF Init, Contract!Init
<1> QED
  BY <1>1, ContractStep, DriveInvariant, PTL DEF Spec

(* With the deadline of poll_module, which makes the driver terminate, it  *)
(* implements the whole of DriverContract.                                 *)
THEOREM DriverImplementsContract == Spec /\ DriverTerminates => ImplementsContract
BY StepsAreOfContract, PTL DEF ImplementsContract, Contract!Spec, DriverTerminates
=============================================================================
