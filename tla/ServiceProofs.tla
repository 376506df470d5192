---------------------------- MODULE ServiceProofs ----------------------------
(***************************************************************************)
(* Theorems about the parts of Toolkit that run beside other processes:    *)
(* hosted runs in one directory, a job of plans, a mock provider and the   *)
(* OAuth suite.  Each part has an inductive invariant, stated in its       *)
(* module, which holds while that part is the one that runs.               *)
(***************************************************************************)
EXTENDS Toolkit, TLAPS

(***************************************************************************)
(* SharedTunnel                                                            *)
(***************************************************************************)

(* The behaviour of this part is one of its module.                        *)
LEMMA SharedStarts ==
  ASSUME Init, part = "shared" PROVE Shared!Init
  BY DEF Init

(* A step of Toolkit is one of the part that runs, or changes nothing.     *)
LEMMA SharedSteps ==
  ASSUME [Next]_vars, part' = "shared"
  PROVE  part = "shared" /\ [Shared!Next]_(Shared!vars)
<1>1. CASE Next
  BY <1>1 DEF Next, OthersStay
<1>2. CASE UNCHANGED vars
  BY <1>2 DEF vars, sharedVars, Shared!vars
<1> QED BY <1>1, <1>2

(* Before the first step nothing has been written.                         *)
LEMMA SharedInvInit ==
  ASSUME Shared!Init PROVE Shared!SharedInv
  BY SharedParameters DEF Shared!Init, Shared!SharedInv, Shared!TypeOK, Shared!OwnUnlessDisturbed,
     Shared!NothingIsLeft, Shared!SharedAssumption

(* A step of a run keeps the types; what is in the files was written by a  *)
(* run that is not new.                                                    *)
LEMMA SharedTypes ==
  ASSUME Shared!TypeOK, Shared!Next PROVE Shared!TypeOK'
<1> USE SharedParameters DEF Shared!TypeOK, Shared!SharedAssumption
<1>1. PICK r \in Runs :
        \/ Shared!OpenTunnel(r) \/ Shared!TunnelReady(r) \/ Shared!Detect(r) \/ Shared!GiveUp(r)
        \/ Shared!Source(r) \/ Shared!Finish(r) \/ Shared!Kill(r)
  BY DEF Shared!Next
<1>2. CASE Shared!OpenTunnel(r)
  BY <1>2 DEF Shared!OpenTunnel, Shared!Step, Shared!Touch, Shared!Setup
<1>3. CASE Shared!TunnelReady(r)
  BY <1>3 DEF Shared!TunnelReady, Shared!Touch, Shared!Setup
<1>4. CASE Shared!Detect(r)
  BY <1>4 DEF Shared!Detect, Shared!Step, Shared!Touch, Shared!Setup
<1>5. CASE Shared!GiveUp(r)
  BY <1>5 DEF Shared!GiveUp, Shared!Step, Shared!Touch, Shared!Setup, Shared!RemoveFiles
<1>6. CASE Shared!Source(r)
  BY <1>6 DEF Shared!Source, Shared!Step, Shared!Touch, Shared!Setup, Shared!RemoveFiles
<1>7. CASE Shared!Finish(r)
  BY <1>7 DEF Shared!Finish, Shared!Step, Shared!Touch, Shared!Setup, Shared!RemoveFiles
<1>8. CASE Shared!Kill(r)
  BY <1>8 DEF Shared!Kill
<1> QED BY <1>1, <1>2, <1>3, <1>4, <1>5, <1>6, <1>7, <1>8

(* The .cf-tunnel.env goes with the last run, unless one was killed.       *)
LEMMA SharedFilesGo ==
  ASSUME Shared!TypeOK, Shared!NothingIsLeft, Shared!Next PROVE Shared!NothingIsLeft'
<1> USE DEF Shared!TypeOK, Shared!NothingIsLeft
<1>1. PICK r \in Runs :
        \/ Shared!OpenTunnel(r) \/ Shared!TunnelReady(r) \/ Shared!Detect(r) \/ Shared!GiveUp(r)
        \/ Shared!Source(r) \/ Shared!Finish(r) \/ Shared!Kill(r)
  BY DEF Shared!Next
<1>2. CASE Shared!OpenTunnel(r)
  BY <1>2 DEF Shared!OpenTunnel, Shared!Step
<1>3. CASE Shared!TunnelReady(r)
  BY <1>3 DEF Shared!TunnelReady
<1>4. CASE Shared!Detect(r)
  BY <1>4 DEF Shared!Detect, Shared!Step
<1>5. CASE Shared!GiveUp(r)
  BY <1>5 DEF Shared!GiveUp, Shared!RemoveFiles
<1>6. CASE Shared!Source(r)
  BY <1>6 DEF Shared!Source, Shared!Step, Shared!RemoveFiles
<1>7. CASE Shared!Finish(r)
  BY <1>7 DEF Shared!Finish, Shared!RemoveFiles
<1>8. CASE Shared!Kill(r)
  BY <1>8 DEF Shared!Kill
<1> QED BY <1>1, <1>2, <1>3, <1>4, <1>5, <1>6, <1>7, <1>8

(* Whoever writes to the files in the setup of another run disturbs that   *)
(* one, and itself.                                                        *)
LEMMA TouchDisturbs ==
  ASSUME NEW r \in Runs, NEW s \in Runs \ disturbed', Shared!Touch(r)
  PROVE  /\ s \notin disturbed
         /\ s # r => s \notin Shared!Setup
         /\ s = r => Shared!Setup \ {r} = {}
  BY DEF Shared!Touch

(* What an undisturbed run finds in the files and gives to the suite is    *)
(* its own, step by step.                                                  *)
LEMMA SharedOwn ==
  ASSUME Shared!SharedInv, Shared!Next, NEW s \in Runs \ disturbed'
  PROVE  /\ RP_BASE'[s] \in {Nothing, s}
         /\ shared_pc'[s] = "detect" => log' \subseteq {s}
         /\ shared_pc'[s] = "source" => shared_env' = s
<1> USE DEF Shared!TypeOK, Shared!SharedInv, Shared!OwnUnlessDisturbed
<1>1. PICK r \in Runs :
        \/ Shared!OpenTunnel(r) \/ Shared!TunnelReady(r) \/ Shared!Detect(r) \/ Shared!GiveUp(r)
        \/ Shared!Source(r) \/ Shared!Finish(r) \/ Shared!Kill(r)
  BY DEF Shared!Next
<1>2. CASE Shared!OpenTunnel(r)
  BY <1>2, TouchDisturbs DEF Shared!OpenTunnel, Shared!Step, Shared!Setup
<1>3. CASE Shared!TunnelReady(r)
  BY <1>3, TouchDisturbs DEF Shared!TunnelReady, Shared!Setup
<1>4. CASE Shared!Detect(r)
  BY <1>4, TouchDisturbs DEF Shared!Detect, Shared!Step, Shared!Setup
<1>5. CASE Shared!GiveUp(r)
  BY <1>5, TouchDisturbs DEF Shared!GiveUp, Shared!Step, Shared!Setup
<1>6. CASE Shared!Source(r)
  BY <1>6, TouchDisturbs DEF Shared!Source, Shared!Step, Shared!Setup
<1>7. CASE Shared!Finish(r)
  BY <1>7, TouchDisturbs DEF Shared!Finish, Shared!Step, Shared!Setup
<1>8. CASE Shared!Kill(r)
  BY <1>8 DEF Shared!Kill
<1> QED BY <1>1, <1>2, <1>3, <1>4, <1>5, <1>6, <1>7, <1>8

(* Every step preserves the invariant.                                     *)
LEMMA SharedInvStep ==
  ASSUME Shared!SharedInv, [Shared!Next]_(Shared!vars) PROVE Shared!SharedInv'
<1>1. CASE Shared!Next
  <2>1. Shared!TypeOK /\ Shared!NothingIsLeft
    BY DEF Shared!SharedInv
  <2>2. Shared!TypeOK' /\ Shared!NothingIsLeft'
    BY <1>1, <2>1, SharedTypes, SharedFilesGo
  <2> QED BY <1>1, <2>2, SharedOwn DEF Shared!SharedInv, Shared!OwnUnlessDisturbed
<1>2. CASE UNCHANGED Shared!vars
  BY <1>2 DEF Shared!vars, Shared!SharedInv, Shared!TypeOK, Shared!OwnUnlessDisturbed,
     Shared!NothingIsLeft
<1> QED BY <1>1, <1>2

(* Hosted runs that share a directory (ci/scripts/cf_tunnel.sh and         *)
(* run_conformance_hosted_with_tunnel.sh), however many: one whose setup   *)
(* no other run met gives the suite its own address, and the environment   *)
(* file goes with the last run.                                            *)
THEOREM TunnelsAreOwn == Spec => []OwnUnlessDisturbed
<1> DEFINE I == part = "shared" => Shared!SharedInv
<1>1. Init => I
  BY SharedStarts, SharedInvInit
<1>2. I /\ [Next]_vars => I'
  BY SharedSteps, SharedInvStep
<1>3. I => OwnUnlessDisturbed
  BY DEF OwnUnlessDisturbed, Shared!SharedInv
<1> HIDE DEF I
<1> QED BY <1>1, <1>2, <1>3, PTL DEF Spec

(***************************************************************************)
(* PlanRun                                                                 *)
(***************************************************************************)

(* The behaviour of this part is one of its module.                        *)
LEMMA PlanStarts ==
  ASSUME Init, part = "plan" PROVE Plan!Init
  BY DEF Init

(* A step of Toolkit is one of this part, or changes nothing in it.        *)
LEMMA PlanSteps ==
  ASSUME [Next]_vars, part' = "plan"
  PROVE  part = "plan" /\ [Plan!Next]_(Plan!vars)
<1>1. CASE Next
  BY <1>1 DEF Next, OthersStay
<1>2. CASE UNCHANGED vars
  BY <1>2 DEF vars, planVars, Plan!vars, Plan!history
<1> QED BY <1>1, <1>2

(* A job begins with no plan of its own.                                   *)
LEMMA JobInvInit ==
  ASSUME Plan!Init PROVE Plan!JobInv
<1> USE PlanParameters DEF Plan!Init, Plan!JobAssumption
<1>1. Plan!TypeOK
  <2>1. waited \in 0..WaitBudget /\ run \in 1..PlansOfJob + 1
    OBVIOUS
  <2>2. announced \in Seq(Plans) /\ tried \subseteq Plans \cup {Stale}
    OBVIOUS
  <2>3. plan_files \in [{Plan!PLAN_ID_FILE} -> Plans \cup {Stale, Nothing}]
    OBVIOUS
  <2>4. /\ plans \subseteq Plans \cup {Stale}
        /\ named \in [Plans -> SUBSET Modules] /\ passed \in [Plans -> SUBSET Modules]
    OBVIOUS
  <2>5. reached \in BOOLEAN /\ failed \in BOOLEAN
    OBVIOUS
  <2> QED BY <2>1, <2>2, <2>3, <2>4, <2>5 DEF Plan!TypeOK
<1>2. Plan!RecordedIsLastCreated /\ Plan!Progress /\ Plan!Current /\ Plan!Accounted
  BY DEF Plan!RecordedIsLastCreated, Plan!Progress, Plan!Current, Plan!Accounted, Plan!AtPlan
<1> QED BY <1>1, <1>2 DEF Plan!JobInv

(* A step of the job keeps the types.                                      *)
LEMMA JobTypes ==
  ASSUME Plan!TypeOK, Plan!Progress, Plan!Current, Plan!Next PROVE Plan!TypeOK'
<1> USE PlanParameters DEF Plan!JobAssumption, Plan!TypeOK, Plan!Current, Plan!AtPlan
<1>1. CASE Plan!Wait
  <2>1. waited' \in 0..WaitBudget
    BY <1>1 DEF Plan!Wait
  <2>2. plan_pc' \in {"wait", "plan"}
    BY <1>1 DEF Plan!Wait
  <2>3. failed' \in BOOLEAN
    BY <1>1 DEF Plan!Wait
  <2> QED BY <1>1, <2>1, <2>2, <2>3 DEF Plan!Wait, Plan!history
<1>2. CASE Plan!StartPlan
  BY <1>2 DEF Plan!StartPlan, Plan!Exit, Plan!history
<1>3. CASE Plan!CreatePlan
  <2>1. CASE Plan!PlanNotCreated
    BY <1>3, <2>1 DEF Plan!CreatePlan, Plan!PlanNotCreated, Plan!Exit
  <2>2. CASE ~Plan!PlanNotCreated
    <3>1. PICK i \in Plans \ plans :
            /\ plans' = plans \cup {i} /\ PLAN_ID' = i
            /\ plan_files' = [plan_files EXCEPT ![Plan!PLAN_ID_FILE] = i]
            /\ announced' = Append(announced, i)
            /\ driver' = "running" /\ plan_pc' = "start_driver" /\ failed' = failed
      BY <1>3, <2>2 DEF Plan!CreatePlan
    <3>2. plan_files' \in [{Plan!PLAN_ID_FILE} -> Plans \cup {Stale, Nothing}]
      BY <3>1
    <3>3. announced' \in Seq(Plans)
      BY <3>1
    <3>4. named' \in [Plans -> SUBSET Modules]
      BY <1>3, <2>2 DEF Plan!CreatePlan
    <3> QED BY <1>3, <3>1, <3>2, <3>3, <3>4 DEF Plan!CreatePlan
  <2> QED BY <2>1, <2>2
<1>4. CASE Plan!StartDriver
  BY <1>4 DEF Plan!StartDriver, Plan!AllowedHosts, Plan!history
<1>5. CASE Plan!Drive
  BY <1>5 DEF Plan!Drive, Plan!Driver!End, Plan!history
<1>6. CASE Plan!EndPlan
  BY <1>6 DEF Plan!EndPlan, Plan!Exit, Plan!history
<1>7. CASE Plan!Collect
  <2>1. tried' \subseteq Plans \cup {Stale}
    BY <1>7 DEF Plan!Collect, Plan!Read
  <2>2. run' \in 1..PlansOfJob + 1 /\ plan_pc' \in {"over", "plan"}
    BY <1>7 DEF Plan!Collect, Plan!Progress
  <2> QED BY <1>7, <2>1, <2>2 DEF Plan!Collect
<1>8. CASE Plan!ModulePasses
  BY <1>8 DEF Plan!ModulePasses, Plan!Passed, Plan!history
<1> QED BY <1>1, <1>2, <1>3, <1>4, <1>5, <1>6, <1>7, <1>8 DEF Plan!Next, Plan!Job

(* The file has the id of the last plan that was created.                  *)
LEMMA JobRecords ==
  ASSUME Plan!TypeOK, Plan!RecordedIsLastCreated, Plan!Next PROVE Plan!RecordedIsLastCreated'
<1> USE PlanParameters DEF Plan!JobAssumption, Plan!TypeOK, Plan!RecordedIsLastCreated
<1>1. CASE Plan!Wait
  BY <1>1 DEF Plan!Wait, Plan!history
<1>2. CASE Plan!StartPlan
  BY <1>2 DEF Plan!StartPlan, Plan!Exit, Plan!history
<1>3. CASE Plan!CreatePlan
  BY <1>3 DEF Plan!CreatePlan, Plan!PlanNotCreated, Plan!Exit, Plan!PLAN_ID_FILE
<1>4. CASE Plan!StartDriver
  BY <1>4 DEF Plan!StartDriver, Plan!AllowedHosts, Plan!history
<1>5. CASE Plan!Drive
  BY <1>5 DEF Plan!Drive, Plan!Driver!End, Plan!history
<1>6. CASE Plan!EndPlan
  BY <1>6 DEF Plan!EndPlan, Plan!Exit, Plan!history
<1>7. CASE Plan!Collect
  BY <1>7 DEF Plan!Collect, Plan!Read, Plan!PLAN_ID_FILE
<1>8. CASE Plan!ModulePasses
  BY <1>8 DEF Plan!ModulePasses, Plan!Passed, Plan!history
<1> QED BY <1>1, <1>2, <1>3, <1>4, <1>5, <1>6, <1>7, <1>8 DEF Plan!Next, Plan!Job

(* While nothing fails, one plan is created for each turn.                 *)
LEMMA JobProgress ==
  ASSUME Plan!TypeOK, Plan!Progress, Plan!Next PROVE Plan!Progress'
<1> USE PlanParameters DEF Plan!JobAssumption, Plan!TypeOK, Plan!Progress, Plan!AtPlan
<1>1. CASE Plan!Wait
  BY <1>1 DEF Plan!Wait, Plan!history
<1>2. CASE Plan!StartPlan
  <2>1. /\ (plan_pc' = "collect" /\ failed') \/ (plan_pc' = "create" /\ ~failed /\ failed' = failed)
        /\ run' = run /\ announced' = announced
    BY <1>2 DEF Plan!StartPlan, Plan!Exit, Plan!history
  <2> QED BY <1>2, <2>1 DEF Plan!StartPlan
<1>3. CASE Plan!CreatePlan
  <2>1. CASE Plan!PlanNotCreated
    BY <1>3, <2>1 DEF Plan!CreatePlan, Plan!PlanNotCreated, Plan!Exit
  <2>2. CASE ~Plan!PlanNotCreated
    <3>1. PICK i \in Plans \ plans :
            announced' = Append(announced, i) /\ plan_pc' = "start_driver" /\ failed' = failed
      BY <1>3, <2>2 DEF Plan!CreatePlan
    <3>2. Len(announced') = Len(announced) + 1
      BY <3>1
    <3> QED BY <1>3, <3>1, <3>2 DEF Plan!CreatePlan
  <2> QED BY <2>1, <2>2
<1>4. CASE Plan!StartDriver
  BY <1>4 DEF Plan!StartDriver, Plan!AllowedHosts, Plan!history
<1>5. CASE Plan!Drive
  BY <1>5 DEF Plan!Drive, Plan!Driver!End, Plan!history
<1>6. CASE Plan!EndPlan
  BY <1>6 DEF Plan!EndPlan, Plan!Exit, Plan!history
<1>7. CASE Plan!Collect
  BY <1>7 DEF Plan!Collect, Plan!Read, Plan!PLAN_ID_FILE
<1>8. CASE Plan!ModulePasses
  BY <1>8 DEF Plan!ModulePasses, Plan!Passed, Plan!history
<1> QED BY <1>1, <1>2, <1>3, <1>4, <1>5, <1>6, <1>7, <1>8 DEF Plan!Next, Plan!Job

(* The driver is at the plan created last, and succeeds only with it.      *)
LEMMA JobCurrent ==
  ASSUME Plan!TypeOK, Plan!Current, Plan!Next PROVE Plan!Current'
<1> USE PlanParameters DEF Plan!JobAssumption, Plan!TypeOK, Plan!Current, Plan!AtPlan, Plan!AllNamedPassed
<1>1. CASE Plan!Wait
  BY <1>1 DEF Plan!Wait, Plan!history
<1>2. CASE Plan!StartPlan
  BY <1>2 DEF Plan!StartPlan, Plan!Exit, Plan!history
<1>3. CASE Plan!CreatePlan
  BY <1>3 DEF Plan!CreatePlan, Plan!PlanNotCreated, Plan!Exit, Plan!PLAN_ID_FILE
<1>4. CASE Plan!StartDriver
  BY <1>4 DEF Plan!StartDriver, Plan!AllowedHosts, Plan!history
<1>5. CASE Plan!Drive
  BY <1>5 DEF Plan!Drive, Plan!Driver!End, Plan!Named, Plan!Passed, Plan!history
<1>6. CASE Plan!EndPlan
  BY <1>6 DEF Plan!EndPlan, Plan!Exit, Plan!history
<1>7. CASE Plan!Collect
  BY <1>7 DEF Plan!Collect, Plan!Read, Plan!PLAN_ID_FILE
<1>8. CASE Plan!ModulePasses
  BY <1>8 DEF Plan!ModulePasses, Plan!Passed, Plan!history
<1> QED BY <1>1, <1>2, <1>3, <1>4, <1>5, <1>6, <1>7, <1>8 DEF Plan!Next, Plan!Job

(* Every plan but the one the job is at has passed and is collected.       *)
LEMMA JobAccounted ==
  ASSUME Plan!JobInv, Plan!Next PROVE Plan!Accounted'
<1> USE PlanParameters DEF Plan!JobAssumption, Plan!JobInv, Plan!TypeOK, Plan!Progress, Plan!Current, Plan!Accounted, Plan!RecordedIsLastCreated, Plan!AtPlan, Plan!AllNamedPassed
<1>1. CASE Plan!Wait
  BY <1>1 DEF Plan!Wait, Plan!history
<1>2. CASE Plan!StartPlan
  BY <1>2 DEF Plan!StartPlan, Plan!Exit, Plan!history
<1>3. CASE Plan!CreatePlan
  <2>1. \A i \in DOMAIN announced :
          /\ announced[i] \in plans
          /\ \A j \in DOMAIN announced : announced[i] = announced[j] => i = j
          /\ Plan!AllNamedPassed(announced[i]) \/ failed
          /\ announced[i] \in tried
    BY <1>3 DEF Plan!CreatePlan
  <2>2. passed' = passed /\ tried' = tried /\ (Stale \in tried => failed)
    BY <1>3 DEF Plan!CreatePlan
  <2>3. CASE Plan!PlanNotCreated
    <3>1. announced' = announced /\ failed' /\ named' = named
      BY <2>3 DEF Plan!PlanNotCreated, Plan!Exit
    <3>2. plans \subseteq plans'
      BY <2>3 DEF Plan!PlanNotCreated
    <3> HIDE DEF Plan!JobInv, Plan!TypeOK, Plan!Progress, Plan!Current
    <3> QED BY <2>1, <2>2, <3>1, <3>2
  <2>4. CASE ~Plan!PlanNotCreated
    <3>1. PICK i \in Plans \ plans :
            /\ plans' = plans \cup {i} /\ announced' = Append(announced, i)
            /\ plan_pc' = "start_driver" /\ failed' = failed
            /\ \A j \in Plans \ {i} : named'[j] = named[j]
      BY <1>3, <2>4 DEF Plan!CreatePlan
    <3>2. /\ Len(announced') = Len(announced) + 1 /\ announced'[Len(announced')] = i
          /\ \A j \in DOMAIN announced : announced'[j] = announced[j]
          /\ \A j \in DOMAIN announced' : j \in DOMAIN announced \/ j = Len(announced')
      BY <3>1
    <3>3. \A j \in DOMAIN announced : announced[j] \in Plans \ {i}
      BY <2>1
    <3> HIDE DEF Plan!JobInv, Plan!TypeOK, Plan!Progress, Plan!Current
    <3> QED BY <2>1, <2>2, <3>1, <3>2, <3>3
  <2> QED BY <2>3, <2>4
<1>4. CASE Plan!StartDriver
  BY <1>4 DEF Plan!StartDriver, Plan!AllowedHosts, Plan!history
<1>5. CASE Plan!Drive
  BY <1>5 DEF Plan!Drive, Plan!Driver!End, Plan!history
<1>6. CASE Plan!EndPlan
  BY <1>6 DEF Plan!EndPlan, Plan!Exit, Plan!history
<1>7. CASE Plan!Collect
  BY <1>7 DEF Plan!Collect, Plan!Read, Plan!PLAN_ID_FILE
<1>8. CASE Plan!ModulePasses
  BY <1>8 DEF Plan!ModulePasses, Plan!Passed, Plan!history
<1> QED BY <1>1, <1>2, <1>3, <1>4, <1>5, <1>6, <1>7, <1>8 DEF Plan!Next, Plan!Job

(* Every step preserves the invariant.                                     *)
LEMMA JobInvStep ==
  ASSUME Plan!JobInv, [Plan!Next]_(Plan!vars) PROVE Plan!JobInv'
<1>1. CASE Plan!Next
  <2>1. /\ Plan!TypeOK /\ Plan!RecordedIsLastCreated /\ Plan!Progress /\ Plan!Current
    BY DEF Plan!JobInv
  <2>2. Plan!TypeOK' /\ Plan!RecordedIsLastCreated' /\ Plan!Progress' /\ Plan!Current'
    BY <1>1, <2>1, JobTypes, JobRecords, JobProgress, JobCurrent
  <2> QED BY <1>1, <2>2, JobAccounted DEF Plan!JobInv
<1>2. CASE UNCHANGED Plan!vars
  BY <1>2 DEF Plan!vars, Plan!history, Plan!JobInv, Plan!TypeOK, Plan!RecordedIsLastCreated,
     Plan!Progress, Plan!Current, Plan!Accounted, Plan!AtPlan,
     Plan!AllNamedPassed
<1> QED BY <1>1, <1>2

(* What the job promises follows.                                          *)
LEMMA JobInvSuffices ==
  ASSUME Plan!JobInv
  PROVE  /\ Plan!GoodJobMeansNamedPassed /\ Plan!RecordedIsLastCreated
         /\ Plan!CreatedIsCollected /\ Plan!StaleOnlyInFailedJobs
<1> USE PlanParameters DEF Plan!JobAssumption, Plan!JobInv
<1>1. Plan!GoodJobMeansNamedPassed
  <2> SUFFICES ASSUME plan_pc = "over", ~failed PROVE Plan!GoodJobMeansNamedPassed
    BY DEF Plan!GoodJobMeansNamedPassed
  <2>1. Len(announced) = PlansOfJob
    BY DEF Plan!TypeOK, Plan!Progress, Plan!AtPlan
  <2>2. DOMAIN announced = 1..PlansOfJob /\ \A i \in 1..PlansOfJob : announced[i] \in Plans
    BY <2>1 DEF Plan!TypeOK
  <2> QED BY <2>1, <2>2 DEF Plan!GoodJobMeansNamedPassed, Plan!Accounted, Plan!AtPlan
<1>2. Plan!CreatedIsCollected
  BY DEF Plan!CreatedIsCollected, Plan!Accounted, Plan!AtPlan
<1>3. Plan!StaleOnlyInFailedJobs
  BY DEF Plan!StaleOnlyInFailedJobs, Plan!Accounted
<1> QED BY <1>1, <1>2, <1>3

(* A job of plans (Makefile, ci/scripts), however many plans and modules:  *)
(* it ends well only when every plan was created anew and all the modules  *)
(* listed in it with an id, some in every plan, have passed, collects what *)
(* it created, and takes an old report for its own only when it fails.     *)
THEOREM GoodJobsHavePassed == Spec => []GoodJobMeansNamedPassed
<1> DEFINE I == part = "plan" => Plan!JobInv
<1>1. Init => I
  BY PlanStarts, JobInvInit
<1>2. I /\ [Next]_vars => I'
  BY PlanSteps, JobInvStep
<1>3. I => GoodJobMeansNamedPassed
  BY JobInvSuffices DEF GoodJobMeansNamedPassed, Plan!JobInv
<1> HIDE DEF I
<1> QED BY <1>1, <1>2, <1>3, PTL DEF Spec

(***************************************************************************)
(* MockServer                                                              *)
(***************************************************************************)

(* The behaviour of this part is one of its module.                        *)
LEMMA ServerStarts ==
  ASSUME Init, part = "server" PROVE Server!Init
  BY DEF Init

(* A step of Toolkit is one of this part, or changes nothing in it.        *)
LEMMA ServerSteps ==
  ASSUME [Next]_vars, part' = "server"
  PROVE  part = "server" /\ [Server!Next]_(Server!vars)
<1>1. CASE Next
  BY <1>1 DEF Next, OthersStay
<1>2. CASE UNCHANGED vars
  BY <1>2 DEF vars, serverVars, Server!vars, Server!builder, Server!server, Server!traffic
<1> QED BY <1>1, <1>2

(* A builder starts with the default client and nothing else.              *)
LEMMA ServerInvInit ==
  ASSUME Server!Init PROVE Server!ServerInv
<1> USE ServerParameters DEF Server!Init, Server!ServerAssumption
<1>1. Server!TypeOK
  <2>1. server_calls \in Seq(Server!Credentials) /\ Len(server_calls) \in 1 .. MaxClients + 1
    BY DEF Server!Credentials
  <2>2. clients \in [Clients -> Secrets \cup {Nothing}]
    OBVIOUS
  <2>3. /\ conn \in [Connections -> {"none", "backlog", "idle", "arriving", "handling", "closed", "reset", "left"}]
        /\ status \in [Connections -> {0, 200, 401, 404}]
    OBVIOUS
  <2>4. \A c \in Connections : request[c] = Nothing
    OBVIOUS
  <2>5. suffix \in BOOLEAN /\ known \in BOOLEAN
    OBVIOUS
  <2> QED BY <2>1, <2>2, <2>3, <2>4, <2>5 DEF Server!TypeOK
<1>2. Server!HostAndTask
  BY DEF Server!HostAndTask
<1>3. Server!Registered
  BY DEF Server!Registered
<1>4. Server!Answers
  BY DEF Server!Answers, Server!Answered
<1>5. Server!ServesWhileHeld /\ Server!RootIssuerIsServed
  BY DEF Server!ServesWhileHeld, Server!RootIssuerIsServed
<1> QED BY <1>1, <1>2, <1>3, <1>4, <1>5 DEF Server!ServerInv

(* Whatever a client sends, the id in its credentials is configured.       *)
LEMMA SentIsRequest ==
  ASSUME Server!TypeOK, Server!HostAndTask, Server!Registered, NEW c \in Connections, Server!Send(c)
  PROVE  \E r \in Server!Requests :
           request' = [request EXCEPT ![c] = r] /\ clients[r.client.id] # Nothing
<1>1. PICK url \in Server!Urls,
           client \in {server_calls[i] : i \in DOMAIN server_calls} \cup {Server!DefaultClient} :
        request' = [request EXCEPT ![c] = [url |-> url, client |-> client]]
  BY DEF Server!Send
<1>2. url \in [base : {"base_url", "issuer"}, route : {"discovery", "token"}]
  BY DEF Server!Urls, Server!Url, Server!Document
<1>3. client \in Server!Credentials /\ clients[client.id] # Nothing
  <2>1. CASE client = Server!DefaultClient
    <3>1. first \in Clients /\ clients[first] # Nothing
      BY DEF Server!Send, Server!HostAndTask
    <3>2. clients[first] \in Secrets
      BY <3>1 DEF Server!TypeOK
    <3> QED BY <2>1, <3>1, <3>2 DEF Server!DefaultClient, Server!Credentials
  <2>2. CASE client \in {server_calls[i] : i \in DOMAIN server_calls}
    <3>1. PICK i \in DOMAIN server_calls : client = server_calls[i]
      BY <2>2
    <3>2. client \in Server!Credentials
      BY <3>1 DEF Server!TypeOK
    <3>3. client.id \in Clients
      BY <3>2 DEF Server!Credentials
    <3> QED BY <3>1, <3>2, <3>3 DEF Server!Registered
  <2> QED BY <2>1, <2>2
<1>4. [url |-> url, client |-> client] \in Server!Requests
  BY <1>2, <1>3 DEF Server!Requests
<1> QED BY <1>1, <1>3, <1>4

(* A step keeps the types.                                                 *)
LEMMA ServerTypes ==
  ASSUME Server!TypeOK, Server!HostAndTask, Server!Registered, Server!Answers, Server!Next PROVE Server!TypeOK'
<1> USE ServerParameters DEF Server!ServerAssumption, Server!TypeOK
<1>1. CASE \E client \in Server!Credentials : Server!WithClient(client)
  BY <1>1 DEF Server!WithClient, Server!builder, Server!server, Server!traffic, Server!Credentials
<1>2. CASE Server!WithIssuerSuffix
  BY <1>2 DEF Server!WithIssuerSuffix, Server!builder, Server!server, Server!traffic
<1>3. CASE Server!Bind
  BY <1>3 DEF Server!HostAndTask, Server!Bind, Server!builder, Server!server, Server!traffic
<1>4. CASE Server!Spawn
  BY <1>4 DEF Server!Spawn, Server!builder, Server!server, Server!traffic
<1>5. CASE Server!DropServer
  BY <1>5 DEF Server!DropServer, Server!builder, Server!server, Server!traffic
<1>6. CASE Server!Shutdown
  BY <1>6 DEF Server!Shutdown, Server!builder, Server!server, Server!traffic
<1>7. CASE Server!TaskEnds
  BY <1>7 DEF Server!TaskEnds, Server!builder, Server!server, Server!traffic
<1>8. CASE \E c \in Connections : Server!Connect(c)
  BY <1>8 DEF Server!Connect, Server!builder, Server!server, Server!traffic
<1>9. CASE \E c \in Connections : Server!Send(c)
  <2>1. PICK c \in Connections : Server!Send(c)
    BY <1>9
  <2>2. PICK r \in Server!Requests : request' = [request EXCEPT ![c] = r]
    BY <2>1, SentIsRequest
  <2>3. r.client \in Server!Credentials
    BY DEF Server!Requests
  <2>4. request \in [Connections -> Server!Requests \cup {Nothing}]
    BY DEF Server!Answers
  <2>5. \A d \in Connections : request'[d] # Nothing => request'[d].client \in Server!Credentials
    BY <2>2, <2>3, <2>4
  <2>6. conn' \in [Connections -> {"none", "backlog", "idle", "arriving", "handling", "closed", "reset", "left"}]
    BY <2>1 DEF Server!Send
  <2> QED BY <2>1, <2>5, <2>6 DEF Server!Send, Server!builder, Server!server, Server!traffic
<1>10. CASE \E c \in Connections : Server!Leave(c)
  BY <1>10 DEF Server!Leave, Server!builder, Server!server, Server!traffic
<1>11. CASE \E c \in Connections : Server!Accept(c)
  BY <1>11 DEF Server!Accept, Server!builder, Server!server, Server!traffic
<1>12. CASE \E c \in Connections : Server!Answer(c)
  <2>1. PICK c \in Connections : Server!Answer(c)
    BY <1>12
  <2>2. status' \in [Connections -> {0, 200, 401, 404}] /\ known' \in BOOLEAN
    BY <2>1 DEF Server!Answer, Server!Handled
  <2>3. conn' \in [Connections -> {"none", "backlog", "idle", "arriving", "handling", "closed", "reset", "left"}]
    BY <2>1 DEF Server!Answer
  <2> QED BY <2>1, <2>2, <2>3 DEF Server!Answer, Server!builder, Server!server, Server!traffic
<1>13. CASE \E c \in Connections : Server!Begin(c)
  BY <1>13 DEF Server!Begin, Server!builder, Server!server, Server!traffic
<1> QED BY <1>1, <1>2, <1>3, <1>4, <1>5, <1>6, <1>7, <1>8, <1>9, <1>10,
            <1>11, <1>12, <1>13 DEF Server!Next

(* Host and task keep step: only Drop ends the task.                       *)
LEMMA ServerHost ==
  ASSUME Server!TypeOK, Server!HostAndTask, Server!ServesWhileHeld, Server!Next PROVE Server!HostAndTask' /\ Server!ServesWhileHeld'
<1> USE ServerParameters DEF Server!ServerAssumption, Server!TypeOK, Server!HostAndTask, Server!ServesWhileHeld
<1>1. CASE \E client \in Server!Credentials : Server!WithClient(client)
  BY <1>1 DEF Server!WithClient, Server!builder, Server!server, Server!traffic, Server!Credentials
<1>2. CASE Server!WithIssuerSuffix
  BY <1>2 DEF Server!WithIssuerSuffix, Server!builder, Server!server, Server!traffic
<1>3. CASE Server!Bind
  BY <1>3 DEF Server!Bind, Server!builder, Server!server, Server!traffic
<1>4. CASE Server!Spawn
  BY <1>4 DEF Server!Spawn, Server!builder, Server!server, Server!traffic
<1>5. CASE Server!DropServer
  BY <1>5 DEF Server!DropServer, Server!builder, Server!server, Server!traffic
<1>6. CASE Server!Shutdown
  BY <1>6 DEF Server!Shutdown, Server!builder, Server!server, Server!traffic
<1>7. CASE Server!TaskEnds
  BY <1>7 DEF Server!TaskEnds, Server!builder, Server!server, Server!traffic
<1>8. CASE \E c \in Connections : Server!Connect(c)
  BY <1>8 DEF Server!Connect, Server!builder, Server!server, Server!traffic
<1>9. CASE \E c \in Connections : Server!Send(c)
  BY <1>9 DEF Server!Send, Server!builder, Server!server, Server!traffic
<1>10. CASE \E c \in Connections : Server!Leave(c)
  BY <1>10 DEF Server!Leave, Server!builder, Server!server, Server!traffic
<1>11. CASE \E c \in Connections : Server!Accept(c)
  BY <1>11 DEF Server!Accept, Server!builder, Server!server, Server!traffic
<1>12. CASE \E c \in Connections : Server!Answer(c)
  BY <1>12 DEF Server!Answer, Server!builder, Server!server, Server!traffic
<1>13. CASE \E c \in Connections : Server!Begin(c)
  BY <1>13 DEF Server!Begin, Server!builder, Server!server, Server!traffic
<1> QED BY <1>1, <1>2, <1>3, <1>4, <1>5, <1>6, <1>7, <1>8, <1>9, <1>10,
            <1>11, <1>12, <1>13 DEF Server!Next

(* The map has the secret an id was configured with last.                  *)
LEMMA ServerRegistered ==
  ASSUME Server!TypeOK, Server!Registered, Server!Next PROVE Server!Registered'
<1> USE ServerParameters DEF Server!ServerAssumption, Server!TypeOK, Server!Registered
<1>1. CASE \E client \in Server!Credentials : Server!WithClient(client)
  <2>1. PICK client \in Server!Credentials : Server!WithClient(client)
    BY <1>1
  <2>2. /\ client.id \in Clients /\ client.secret \in Secrets /\ client.secret # Nothing
        /\ client = [id |-> client.id, secret |-> client.secret]
    BY DEF Server!Credentials
  <2>3. /\ server_calls' = Append(server_calls, client)
        /\ clients' = [clients EXCEPT ![client.id] = client.secret]
    BY <2>1 DEF Server!WithClient
  <2>4. /\ DOMAIN server_calls' = 1 .. Len(server_calls) + 1
        /\ server_calls'[Len(server_calls) + 1] = client
        /\ \A i \in DOMAIN server_calls : i \in DOMAIN server_calls' /\ server_calls'[i] = server_calls[i]
    BY <2>3
  <2>5. \A i \in DOMAIN server_calls' : i \in DOMAIN server_calls \/ i = Len(server_calls) + 1
    BY <2>4
  <2>6. \A i \in DOMAIN server_calls' : i <= Len(server_calls) + 1
    BY <2>4
  <2> SUFFICES ASSUME NEW id \in Clients
               PROVE  IF clients'[id] = Nothing THEN \A i \in DOMAIN server_calls' : server_calls'[i].id # id
                      ELSE \E i \in DOMAIN server_calls' :
                             /\ server_calls'[i] = [id |-> id, secret |-> clients'[id]]
                             /\ \A j \in DOMAIN server_calls' : server_calls'[j].id = id => j <= i
    OBVIOUS
  <2>7. CASE id = client.id
    <3>1. clients'[id] = client.secret
      BY <2>2, <2>3, <2>7
    <3>2. server_calls'[Len(server_calls) + 1] = [id |-> id, secret |-> clients'[id]]
      BY <2>2, <2>4, <2>7, <3>1
    <3>3. Len(server_calls) + 1 \in DOMAIN server_calls'
      BY <2>4
    <3> QED BY <2>2, <2>6, <3>1, <3>2, <3>3
  <2>8. CASE id # client.id
    <3>1. clients'[id] = clients[id]
      BY <2>2, <2>3, <2>8
    <3> QED BY <2>4, <2>5, <2>8, <3>1
  <2> QED BY <2>7, <2>8
<1>2. CASE Server!WithIssuerSuffix
  BY <1>2 DEF Server!WithIssuerSuffix, Server!builder, Server!server, Server!traffic
<1>3. CASE Server!Bind
  BY <1>3 DEF Server!Bind, Server!builder, Server!server, Server!traffic
<1>4. CASE Server!Spawn
  BY <1>4 DEF Server!Spawn, Server!builder, Server!server, Server!traffic
<1>5. CASE Server!DropServer
  BY <1>5 DEF Server!DropServer, Server!builder, Server!server, Server!traffic
<1>6. CASE Server!Shutdown
  BY <1>6 DEF Server!Shutdown, Server!builder, Server!server, Server!traffic
<1>7. CASE Server!TaskEnds
  <2>1. UNCHANGED <<clients, server_calls>>
    BY <1>7 DEF Server!TaskEnds, Server!builder, Server!server, Server!traffic
  <2> QED BY <2>1
<1>8. CASE \E c \in Connections : Server!Connect(c)
  <2>1. UNCHANGED <<clients, server_calls>>
    BY <1>8 DEF Server!Connect, Server!builder, Server!server, Server!traffic
  <2> QED BY <2>1
<1>9. CASE \E c \in Connections : Server!Send(c)
  <2>1. UNCHANGED <<clients, server_calls>>
    BY <1>9 DEF Server!Send, Server!builder, Server!server, Server!traffic
  <2> QED BY <2>1
<1>10. CASE \E c \in Connections : Server!Leave(c)
  <2>1. UNCHANGED <<clients, server_calls>>
    BY <1>10 DEF Server!Leave, Server!builder, Server!server, Server!traffic
  <2> QED BY <2>1
<1>11. CASE \E c \in Connections : Server!Accept(c)
  <2>1. UNCHANGED <<clients, server_calls>>
    BY <1>11 DEF Server!Accept, Server!builder, Server!server, Server!traffic
  <2> QED BY <2>1
<1>12. CASE \E c \in Connections : Server!Answer(c)
  <2>1. UNCHANGED <<clients, server_calls>>
    BY <1>12 DEF Server!Answer, Server!builder, Server!server, Server!traffic
  <2> QED BY <2>1
<1>13. CASE \E c \in Connections : Server!Begin(c)
  <2>1. UNCHANGED <<clients, server_calls>>
    BY <1>13 DEF Server!Begin, Server!builder, Server!server, Server!traffic
  <2> QED BY <2>1
<1> QED BY <1>1, <1>2, <1>3, <1>4, <1>5, <1>6, <1>7, <1>8, <1>9, <1>10,
            <1>11, <1>12, <1>13 DEF Server!Next

(* An answer is right for the last request of its connection.              *)
LEMMA ServerAnswers ==
  ASSUME Server!TypeOK, Server!HostAndTask, Server!Registered, Server!Answers, Server!Next PROVE Server!Answers'
<1> USE ServerParameters DEF Server!ServerAssumption, Server!TypeOK, Server!HostAndTask, Server!Answers, Server!Answered, Server!Handled, Server!Routed
<1>1. CASE \E client \in Server!Credentials : Server!WithClient(client)
  BY <1>1 DEF Server!WithClient, Server!builder, Server!server, Server!traffic, Server!Credentials
<1>2. CASE Server!WithIssuerSuffix
  BY <1>2 DEF Server!WithIssuerSuffix, Server!builder, Server!server, Server!traffic
<1>3. CASE Server!Bind
  BY <1>3 DEF Server!Bind, Server!builder, Server!server, Server!traffic
<1>4. CASE Server!Spawn
  BY <1>4 DEF Server!Spawn, Server!builder, Server!server, Server!traffic
<1>5. CASE Server!DropServer
  BY <1>5 DEF Server!DropServer, Server!builder, Server!server, Server!traffic
<1>6. CASE Server!Shutdown
  <2>1. /\ UNCHANGED <<clients, suffix, request, status>> /\ server_task' # "none"
        /\ server_task # "none"
    BY <1>6 DEF Server!Shutdown, Server!builder
  <2>2. \A c \in Connections :
          conn'[c] = conn[c] \/ conn'[c] = "reset" \/ (conn'[c] = "closed" /\ conn[c] = "idle")
            \/ (conn'[c] = "closed" /\ conn[c] = "arriving")
    BY <1>6 DEF Server!Shutdown
  <2> QED BY <2>1, <2>2
<1>7. CASE Server!TaskEnds
  BY <1>7 DEF Server!TaskEnds, Server!builder, Server!server, Server!traffic
<1>8. CASE \E c \in Connections : Server!Connect(c)
  BY <1>8 DEF Server!Connect, Server!builder, Server!server, Server!traffic
<1>9. CASE \E c \in Connections : Server!Send(c)
  <2>1. PICK c \in Connections : Server!Send(c)
    BY <1>9
  <2>2. PICK r \in Server!Requests :
          request' = [request EXCEPT ![c] = r] /\ clients[r.client.id] # Nothing
    BY <2>1, SentIsRequest
  <2>3. conn' = [conn EXCEPT ![c] = "handling"] /\ conn[c] \in {"idle", "arriving"}
    BY <2>1 DEF Server!Send
  <2>4. server_task # "none"
    BY <2>3
  <2> QED BY <2>1, <2>2, <2>3, <2>4 DEF Server!Send, Server!builder, Server!server, Server!traffic
<1>10. CASE \E c \in Connections : Server!Leave(c)
  BY <1>10 DEF Server!Leave, Server!builder, Server!server, Server!traffic
<1>11. CASE \E c \in Connections : Server!Accept(c)
  BY <1>11 DEF Server!Accept, Server!builder, Server!server, Server!traffic
<1>12. CASE \E c \in Connections : Server!Answer(c)
  BY <1>12 DEF Server!Answer, Server!builder, Server!server, Server!traffic
<1>13. CASE \E c \in Connections : Server!Begin(c)
  BY <1>13 DEF Server!Begin, Server!builder, Server!server, Server!traffic
<1> QED BY <1>1, <1>2, <1>3, <1>4, <1>5, <1>6, <1>7, <1>8, <1>9, <1>10,
            <1>11, <1>12, <1>13 DEF Server!Next

(* Without a suffix of the issuer no request misses the routes.            *)
LEMMA ServerRoot ==
  ASSUME Server!TypeOK, Server!RootIssuerIsServed, Server!Next PROVE Server!RootIssuerIsServed'
<1> USE ServerParameters DEF Server!ServerAssumption, Server!TypeOK, Server!RootIssuerIsServed
<1>1. CASE \E client \in Server!Credentials : Server!WithClient(client)
  BY <1>1 DEF Server!WithClient, Server!builder, Server!server, Server!traffic
<1>2. CASE Server!WithIssuerSuffix
  BY <1>2 DEF Server!WithIssuerSuffix, Server!builder, Server!server, Server!traffic
<1>3. CASE Server!Bind
  BY <1>3 DEF Server!Bind, Server!builder, Server!server, Server!traffic
<1>4. CASE Server!Spawn
  BY <1>4 DEF Server!Spawn, Server!builder, Server!server, Server!traffic
<1>5. CASE Server!DropServer
  BY <1>5 DEF Server!DropServer, Server!builder, Server!server, Server!traffic
<1>6. CASE Server!Shutdown
  BY <1>6 DEF Server!Shutdown, Server!builder, Server!server, Server!traffic
<1>7. CASE Server!TaskEnds
  BY <1>7 DEF Server!TaskEnds, Server!builder, Server!server, Server!traffic
<1>8. CASE \E c \in Connections : Server!Connect(c)
  BY <1>8 DEF Server!Connect, Server!builder, Server!server, Server!traffic
<1>9. CASE \E c \in Connections : Server!Send(c)
  BY <1>9 DEF Server!Send, Server!builder, Server!server, Server!traffic
<1>10. CASE \E c \in Connections : Server!Leave(c)
  BY <1>10 DEF Server!Leave, Server!builder, Server!server, Server!traffic
<1>11. CASE \E c \in Connections : Server!Accept(c)
  BY <1>11 DEF Server!Accept, Server!builder, Server!server, Server!traffic
<1>12. CASE \E c \in Connections : Server!Answer(c)
  BY <1>12 DEF Server!Answer, Server!builder, Server!server, Server!traffic, Server!Handled, Server!Routed
<1>13. CASE \E c \in Connections : Server!Begin(c)
  BY <1>13 DEF Server!Begin, Server!builder, Server!server, Server!traffic
<1> QED BY <1>1, <1>2, <1>3, <1>4, <1>5, <1>6, <1>7, <1>8, <1>9, <1>10,
            <1>11, <1>12, <1>13 DEF Server!Next

(* Every step preserves the invariant.                                     *)
LEMMA ServerInvStep ==
  ASSUME Server!ServerInv, [Server!Next]_(Server!vars) PROVE Server!ServerInv'
<1>1. CASE Server!Next
  <2>1. /\ Server!TypeOK /\ Server!HostAndTask /\ Server!Registered /\ Server!Answers
        /\ Server!ServesWhileHeld /\ Server!RootIssuerIsServed
    BY DEF Server!ServerInv
  <2> QED BY <1>1, <2>1, ServerTypes, ServerHost, ServerRegistered, ServerAnswers, ServerRoot
          DEF Server!ServerInv
<1>2. CASE UNCHANGED Server!vars
  BY <1>2 DEF Server!vars, Server!builder, Server!server, Server!traffic, Server!ServerInv,
     Server!TypeOK, Server!HostAndTask, Server!Registered, Server!Answers, Server!Answered,
     Server!Handled, Server!Routed, Server!ServesWhileHeld, Server!RootIssuerIsServed
<1> QED BY <1>1, <1>2

(* The secret in the map is the one configured last.                       *)
LEMMA LatestIsRegistered ==
  ASSUME Server!TypeOK, Server!Registered, NEW id \in Clients, clients[id] # Nothing
  PROVE  Server!Latest(id) = clients[id]
<1> DEFINE IsLast(i) ==
      server_calls[i].id = id /\ \A j \in DOMAIN server_calls : server_calls[j].id = id => j <= i
<1>1. PICK i \in DOMAIN server_calls : IsLast(i) /\ server_calls[i].secret = clients[id]
  BY DEF Server!Registered
<1>2. \A j \in DOMAIN server_calls : IsLast(j) => j = i
  BY <1>1 DEF Server!TypeOK
<1>3. (CHOOSE j \in DOMAIN server_calls : IsLast(j)) = i
  BY <1>1, <1>2
<1> QED BY <1>1, <1>3 DEF Server!Latest

(* What is promised of the mock provider follows.                          *)
LEMMA ServerInvSuffices ==
  ASSUME Server!ServerInv PROVE Server!LastConfigurationCounts
<1> SUFFICES ASSUME NEW c \in Connections,
                    Server!Answered(c), request[c].url.route = "token", status[c] # 404
             PROVE  (status[c] = 200) = (request[c].client.secret = Server!Latest(request[c].client.id))
  BY DEF Server!LastConfigurationCounts
<1> DEFINE client == request[c].client
<1>1. request[c] \in Server!Requests /\ clients[client.id] # Nothing /\ status[c] = Server!Handled(request[c])
  BY DEF Server!ServerInv, Server!Answers, Server!Answered
<1>2. client.id \in Clients
  BY <1>1 DEF Server!Requests, Server!Credentials
<1>3. Server!Latest(client.id) = clients[client.id]
  BY <1>1, <1>2, LatestIsRegistered DEF Server!ServerInv
<1>4. status[c] = IF clients[client.id] # client.secret THEN 401 ELSE 200
  BY <1>1 DEF Server!Handled
<1> QED BY <1>3, <1>4

(* A mock provider (crates/oauth-mock/src/lib.rs), whatever its clients    *)
(* and its host do: its task serves while a test holds it, with every URL  *)
(* of a root issuer, and only the secret configured last counts.           *)
THEOREM HeldServersServe == Spec => []HeldServerServes
<1> DEFINE I == part = "server" => Server!ServerInv
<1>1. Init => I
  BY ServerStarts, ServerInvInit
<1>2. I /\ [Next]_vars => I'
  BY ServerSteps, ServerInvStep
<1>3. I => HeldServerServes
  BY ServerInvSuffices DEF HeldServerServes, Server!ServerInv
<1> HIDE DEF I
<1> QED BY <1>1, <1>2, <1>3, PTL DEF Spec

(***************************************************************************)
(* OAuthSuite                                                              *)
(***************************************************************************)

(* The behaviour of this part is one of its module.                        *)
LEMMA OAuthStarts ==
  ASSUME Init, part = "oauth" PROVE OAuth!Init
  BY DEF Init

(* A step of Toolkit is one of this part, or changes nothing in it.        *)
LEMMA OAuthSteps ==
  ASSUME [Next]_vars, part' = "oauth"
  PROVE  part = "oauth" /\ [OAuth!Next]_(OAuth!vars)
<1>1. CASE Next
  BY <1>1 DEF Next, OthersStay
<1>2. CASE UNCHANGED vars
  BY <1>2 DEF vars, oauthVars, OAuth!vars, OAuth!config, OAuth!provider
<1> QED BY <1>1, <1>2

(* An outcome is appended, and the next lane is the next live provider.    *)
Pushed(stat) ==
  /\ Len(live_providers) \in Nat /\ live_providers' = live_providers
  /\ lane \in 0..Len(live_providers) /\ Len(outcomes) = lane
  /\ outcomes' \in Seq([lane : 0..Len(live_providers), status : {"passed", "skipped"}])
  /\ Len(outcomes') = lane + 1 /\ lane' = lane + 1
  /\ \A i \in 1..lane : outcomes'[i] = outcomes[i]
  /\ outcomes'[lane + 1] = [lane |-> lane, status |-> stat]
  /\ \/ oauth_pc' = "end" /\ oauth_result' = "report" /\ lane' = Len(live_providers) + 1
     \/ oauth_pc' = "live_lane" /\ oauth_result' = oauth_result /\ lane' \in 1..Len(live_providers)

(* That is what Push does.                                                 *)
LEMMA PushResult ==
  ASSUME OAuth!TypeOK, OAuth!Lanes, oauth_result = "running", live_providers' = live_providers,
         NEW stat \in {"passed", "skipped"}, OAuth!Push(stat)
  PROVE  Pushed(stat)
<1>1. /\ Len(live_providers) \in Nat /\ lane \in 0..Len(live_providers) /\ Len(outcomes) = lane
      /\ outcomes \in Seq([lane : 0..Len(live_providers), status : {"passed", "skipped"}])
  BY DEF OAuth!TypeOK, OAuth!Lanes
<1> DEFINE o == [lane |-> lane, status |-> stat]
<1>2. o \in [lane : 0..Len(live_providers), status : {"passed", "skipped"}]
  BY <1>1
<1>3. outcomes' = Append(outcomes, o) /\ lane' = lane + 1
  BY DEF OAuth!Push
<1> HIDE DEF o
<1>4. /\ outcomes' \in Seq([lane : 0..Len(live_providers), status : {"passed", "skipped"}])
      /\ Len(outcomes') = lane + 1 /\ outcomes'[lane + 1] = o
      /\ \A i \in 1..lane : outcomes'[i] = outcomes[i]
  BY <1>1, <1>2, <1>3
<1>5. \/ oauth_pc' = "end" /\ oauth_result' = "report" /\ lane' = Len(live_providers) + 1
      \/ oauth_pc' = "live_lane" /\ oauth_result' = oauth_result /\ lane' \in 1..Len(live_providers)
  BY <1>1, <1>3 DEF OAuth!Push
<1> QED BY <1>1, <1>3, <1>4, <1>5 DEF o, Pushed

(* The suite begins with nothing read, done or asked.                      *)
LEMMA SuiteInvInit ==
  ASSUME OAuth!Init PROVE OAuth!SuiteInv
<1> USE OAuthParameters DEF OAuth!Init, OAuth!ProvidersAssumption, OAuth!None
<1>1. OAuth!TypeOK
  <2>1. looked \in 0..Len(DefaultLive) /\ live_providers \in Seq(Providers)
    OBVIOUS
  <2>2. Len(live_providers) = 0
    OBVIOUS
  <2>3. /\ lane \in 0..Len(live_providers) + 1
        /\ outcomes \in Seq([lane : 0..Len(live_providers), status : {"passed", "skipped"}])
    BY <2>2
  <2>4. answer \in [Providers -> OAuth!Endings \cup {"none"}]
    OBVIOUS
  <2> QED BY <2>1, <2>3, <2>4 DEF OAuth!TypeOK
<1>2. OAuth!LiveOnes /\ OAuth!Lanes
  BY DEF OAuth!LiveOnes, OAuth!Lanes
<1>3. OAuth!Asked
  BY DEF OAuth!Asked
<1>4. OAuth!PassedMeansTokenAndStopped /\ OAuth!NetworkFailsNoLiveLane
  BY DEF OAuth!PassedMeansTokenAndStopped, OAuth!NetworkFailsNoLiveLane
<1> QED BY <1>1, <1>2, <1>3, <1>4 DEF OAuth!SuiteInv

(* A live lane that is at its provider is skipped, answered or at fault.   *)
LEMMA LiveLaneResult ==
  ASSUME OAuth!TypeOK, OAuth!Lanes, OAuth!LiveLane
  PROVE  /\ oauth_pc = "live_lane" /\ oauth_result = "running" /\ live_providers[lane] \in Providers
         /\ UNCHANGED <<flags, creds, looked, live_providers, code, token, shutdown, task>>
         /\ \/ ~OAuth!RunLive /\ Pushed("skipped") /\ answer' = answer
            \/ /\ OAuth!RunLive
               /\ \E ending \in OAuth!Endings \ {"unexpected_status"} :
                    answer' = [answer EXCEPT ![live_providers[lane]] = ending]
               /\ Pushed("passed") \/ Pushed("skipped")
            \/ /\ OAuth!RunLive /\ oauth_pc' = "end" /\ oauth_result' = "error"
               /\ lane' = lane /\ outcomes' = outcomes
               /\ \/ answer' = answer
                  \/ answer' = [answer EXCEPT ![live_providers[lane]] = "unexpected_status"]
<1>1. oauth_pc = "live_lane" /\ oauth_result = "running" /\ live_providers[lane] \in Providers
  BY DEF OAuth!LiveLane, OAuth!TypeOK
<1>2. UNCHANGED <<flags, creds, looked, live_providers, code, token, shutdown, task>>
  BY DEF OAuth!LiveLane, OAuth!config, OAuth!provider
<1>3. CASE ~OAuth!RunLive
  BY <1>1, <1>2, <1>3, PushResult DEF OAuth!LiveLane
<1>4. CASE OAuth!RunLive
  <2>1. CASE oauth_pc' = "end" /\ oauth_result' = "error" /\ UNCHANGED <<lane, outcomes, answer>>
    BY <1>1, <1>2, <1>4, <2>1
  <2>2. CASE ~(oauth_pc' = "end" /\ oauth_result' = "error" /\ UNCHANGED <<lane, outcomes, answer>>)
    <3>1. PICK ending \in OAuth!Endings :
            /\ answer' = [answer EXCEPT ![live_providers[lane]] = ending]
            /\ IF OAuth!OfLive(ending) = "error"
               THEN oauth_pc' = "end" /\ oauth_result' = "error" /\ UNCHANGED <<lane, outcomes>>
               ELSE OAuth!Push(OAuth!OfLive(ending))
      BY <1>4, <2>2 DEF OAuth!LiveLane
    <3>2. CASE ending = "unexpected_status"
      <4>1. OAuth!OfLive(ending) = "error"
        BY <3>2 DEF OAuth!OfLive
      <4> QED BY <1>1, <1>2, <1>4, <3>1, <3>2, <4>1
    <3>3. CASE ending # "unexpected_status"
      <4>1. OAuth!OfLive(ending) = "passed" \/ OAuth!OfLive(ending) = "skipped"
        BY <3>1, <3>3 DEF OAuth!OfLive, OAuth!Endings
      <4>2. OAuth!OfLive(ending) # "error"
        BY <4>1
      <4>3. Pushed("passed") \/ Pushed("skipped")
        BY <1>1, <1>2, <3>1, <4>1, <4>2, PushResult
      <4> QED BY <1>1, <1>2, <1>4, <3>1, <3>3, <4>3
    <3> QED BY <3>2, <3>3
  <2> QED BY <2>1, <2>2
<1> QED BY <1>3, <1>4

(* A step keeps the types.                                                 *)
LEMMA SuiteTypes ==
  ASSUME OAuth!TypeOK, OAuth!Lanes, OAuth!Next PROVE OAuth!TypeOK'
<1> USE OAuthParameters DEF OAuth!ProvidersAssumption, OAuth!None, OAuth!config, OAuth!provider, OAuth!TypeOK, OAuth!Lanes
<1>1. CASE OAuth!FromEnv
  <2>1. CASE looked < Len(DefaultLive)
    <3>1. DefaultLive[looked + 1] \in Providers
      BY <2>1
    <3>2. live_providers' \in Seq(Providers)
      <4>1. live_providers' = live_providers \/ live_providers' = Append(live_providers, DefaultLive[looked + 1])
        BY <1>1, <2>1 DEF OAuth!FromEnv
      <4>2. live_providers \in Seq(Providers)
        OBVIOUS
      <4> HIDE DEF OAuth!TypeOK, OAuth!Lanes
      <4> QED BY <3>1, <4>1, <4>2
    <3>3. looked' \in 0..Len(DefaultLive)
      BY <1>1, <2>1 DEF OAuth!FromEnv
    <3>4. /\ Len(live_providers) = Len(live_providers') \/ Len(live_providers') = Len(live_providers) + 1
          /\ lane = 0 /\ Len(outcomes) = 0
      BY <1>1, <2>1, <3>1 DEF OAuth!FromEnv
    <3>5. /\ lane' \in 0..Len(live_providers') + 1
          /\ outcomes' \in Seq([lane : 0..Len(live_providers'), status : {"passed", "skipped"}])
      BY <1>1, <3>2, <3>4 DEF OAuth!FromEnv
    <3> QED BY <1>1, <2>1, <3>2, <3>3, <3>5 DEF OAuth!FromEnv
  <2>2. CASE ~(looked < Len(DefaultLive))
    BY <1>1, <2>2 DEF OAuth!FromEnv
  <2> QED BY <2>1, <2>2
<1>2. CASE OAuth!MockLane
  <2>1. CASE ~OAuth!RunMock /\ OAuth!Push("skipped")
    <3>1. Pushed("skipped")
      BY <1>2, <2>1, PushResult DEF OAuth!MockLane, OAuth!Goto, OAuth!Fail
    <3> QED BY <1>2, <2>1, <3>1 DEF OAuth!MockLane, Pushed
  <2>2. CASE ~(~OAuth!RunMock /\ OAuth!Push("skipped"))
    BY <1>2, <2>2 DEF OAuth!MockLane, OAuth!Goto, OAuth!Fail
  <2> QED BY <2>1, <2>2
<1>3. CASE OAuth!Discovery
  BY <1>3 DEF OAuth!Discovery, OAuth!Goto, OAuth!Fail
<1>4. CASE OAuth!AuthorizeStep
  <2>1. UNCHANGED <<flags, creds, looked, live_providers, lane, outcomes, answer, token, task>>
    BY <1>4 DEF OAuth!AuthorizeStep, OAuth!Goto, OAuth!Fail
  <2>2. /\ oauth_pc = "authorize"
        /\ \/ oauth_pc' = "token" /\ oauth_result' = oauth_result
           \/ oauth_pc' = "end" /\ oauth_result' = "error"
        /\ shutdown' \in BOOLEAN
    BY <1>4 DEF OAuth!AuthorizeStep, OAuth!Goto, OAuth!Fail
  <2>3. code' \in {code, "mock-code"}
    BY <1>4 DEF OAuth!AuthorizeStep, OAuth!AuthorizeAnswer, OAuth!Authorize, OAuth!Mock, OAuth!Refusal
  <2> QED BY <2>1, <2>2, <2>3 DEF OAuth!Mock
<1>5. CASE OAuth!TokenStep
  <2>1. UNCHANGED <<flags, creds, looked, live_providers, lane, outcomes, answer, code, task>>
    BY <1>5 DEF OAuth!TokenStep, OAuth!Goto, OAuth!Fail
  <2>2. /\ oauth_pc = "token"
        /\ \/ oauth_pc' = "stop" /\ oauth_result' = oauth_result
           \/ oauth_pc' = "end" /\ oauth_result' = "error"
        /\ shutdown' \in BOOLEAN
    BY <1>5 DEF OAuth!TokenStep, OAuth!Goto, OAuth!Fail
  <2>3. token' = token \/ (OAuth!TokenAnswer.json /\ token' = OAuth!TokenAnswer.body)
    BY <1>5 DEF OAuth!TokenStep, OAuth!Goto, OAuth!Fail
  <2>4. token' \in {token, "token"}
    BY <2>3 DEF OAuth!TokenAnswer, OAuth!Token, OAuth!Mock, OAuth!Refusal
  <2> QED BY <2>1, <2>2, <2>4
<1>6. CASE OAuth!Stop
  <2>1. CASE OAuth!Push("passed") /\ UNCHANGED <<OAuth!config, token, OAuth!provider, answer>>
    <3>1. Pushed("passed")
      BY <1>6, <2>1, PushResult DEF OAuth!Stop
    <3> QED BY <1>6, <2>1, <3>1 DEF OAuth!Stop, Pushed
  <2>2. CASE ~(OAuth!Push("passed") /\ UNCHANGED <<OAuth!config, token, OAuth!provider, answer>>)
    BY <1>6, <2>2 DEF OAuth!Stop, OAuth!Fail
  <2> QED BY <2>1, <2>2
<1>7. CASE OAuth!LiveLane
  <2>1. answer' \in [Providers -> OAuth!Endings \cup {"none"}]
    BY <1>7, LiveLaneResult DEF OAuth!Endings
  <2>2. CASE Pushed("passed") \/ Pushed("skipped")
    <3>1. PICK stat \in {"passed", "skipped"} : Pushed(stat)
      BY <2>2
    <3>2. /\ UNCHANGED <<flags, creds, looked, live_providers, code, token, shutdown, task>>
          /\ oauth_pc = "live_lane" /\ oauth_result = "running"
      BY <1>7, LiveLaneResult
    <3> QED BY <2>1, <3>1, <3>2 DEF Pushed
  <2>3. CASE ~(Pushed("passed") \/ Pushed("skipped"))
    BY <1>7, <2>1, <2>3, LiveLaneResult
  <2> QED BY <2>2, <2>3
<1>8. CASE OAuth!TaskReturns
  BY <1>8 DEF OAuth!TaskReturns, OAuth!Task
<1>9. CASE OAuth!TaskFails
  BY <1>9 DEF OAuth!TaskFails, OAuth!Task
<1> QED BY <1>1, <1>2, <1>3, <1>4, <1>5, <1>6, <1>7, <1>8, <1>9 DEF OAuth!Next, OAuth!Suite

(* from_env takes every configured definition once.                        *)
LEMMA SuiteLiveOnes ==
  ASSUME OAuth!TypeOK, OAuth!LiveOnes, OAuth!Next PROVE OAuth!LiveOnes'
<1> USE OAuthParameters DEF OAuth!ProvidersAssumption, OAuth!None, OAuth!config, OAuth!provider, OAuth!TypeOK, OAuth!LiveOnes, OAuth!Configured
<1>1. CASE OAuth!FromEnv
  <2> DEFINE p == DefaultLive[looked + 1]
  <2>1. CASE looked < Len(DefaultLive) /\ creds[p] = OAuth!Credentials
    <3>1. /\ looked' = looked + 1 /\ creds' = creds /\ live_providers' = Append(live_providers, p)
      BY <1>1, <2>1 DEF OAuth!FromEnv
    <3>2. looked + 1 \in DOMAIN DefaultLive /\ p \in Providers
      BY <2>1
    <3>3. \A i \in DOMAIN live_providers : live_providers[i] # p
      <4>1. \A k \in 1..looked : k \in DOMAIN DefaultLive /\ k # looked + 1
        BY <3>2
      <4> QED BY <3>2, <4>1
    <3>4. /\ DOMAIN live_providers' = 1..Len(live_providers) + 1
          /\ live_providers'[Len(live_providers) + 1] = p
          /\ \A i \in DOMAIN live_providers :
               i \in DOMAIN live_providers' /\ live_providers'[i] = live_providers[i]
      BY <3>1, <3>2
    <3>5. \A i \in DOMAIN live_providers' : i \in DOMAIN live_providers \/ i = Len(live_providers) + 1
      BY <3>4
    <3>6. \A k \in 1..looked : k \in 1..looked'
      BY <3>1
    <3>7. looked + 1 \in 1..looked'
      BY <3>1
    <3>8. \A i \in DOMAIN live_providers' :
            /\ creds'[live_providers'[i]] = OAuth!Credentials
            /\ \E k \in 1..looked' : live_providers'[i] = DefaultLive[k]
      <4> SUFFICES ASSUME NEW i \in DOMAIN live_providers'
                   PROVE  /\ creds'[live_providers'[i]] = OAuth!Credentials
                          /\ \E k \in 1..looked' : live_providers'[i] = DefaultLive[k]
        OBVIOUS
      <4>1. CASE i \in DOMAIN live_providers
        <5>1. live_providers'[i] = live_providers[i]
          BY <3>4, <4>1
        <5>2. PICK k \in 1..looked : live_providers[i] = DefaultLive[k]
          BY <4>1
        <5> QED BY <3>1, <3>6, <4>1, <5>1, <5>2
      <4>2. CASE i = Len(live_providers) + 1
        <5>1. live_providers'[i] = p /\ creds'[p] = OAuth!Credentials
          BY <2>1, <3>1, <3>4, <4>2
        <5> QED BY <3>7, <5>1
      <4> QED BY <3>5, <4>1, <4>2
    <3>9. \A i, j \in DOMAIN live_providers' : live_providers'[i] = live_providers'[j] => i = j
      BY <3>3, <3>4, <3>5
    <3> QED BY <3>8, <3>9
  <2>2. CASE ~(looked < Len(DefaultLive) /\ creds[p] = OAuth!Credentials)
    <3>1. live_providers' = live_providers /\ creds' = creds /\ looked' \in {looked, looked + 1}
      BY <1>1, <2>2 DEF OAuth!FromEnv
    <3> QED BY <3>1
  <2> QED BY <2>1, <2>2
<1>2. CASE OAuth!MockLane
  BY <1>2 DEF OAuth!MockLane, OAuth!Goto, OAuth!Fail, OAuth!Push
<1>3. CASE OAuth!Discovery
  <2>1. UNCHANGED <<creds, looked, live_providers>>
    BY <1>3 DEF OAuth!Discovery, OAuth!Goto, OAuth!Fail
  <2> QED BY <2>1
<1>4. CASE OAuth!AuthorizeStep
  <2>1. UNCHANGED <<creds, looked, live_providers>>
    BY <1>4 DEF OAuth!AuthorizeStep, OAuth!Goto, OAuth!Fail
  <2> QED BY <2>1
<1>5. CASE OAuth!TokenStep
  <2>1. UNCHANGED <<creds, looked, live_providers>>
    BY <1>5 DEF OAuth!TokenStep, OAuth!Goto, OAuth!Fail
  <2> QED BY <2>1
<1>6. CASE OAuth!Stop
  <2>1. UNCHANGED <<creds, looked, live_providers>>
    BY <1>6 DEF OAuth!Stop, OAuth!Push, OAuth!Fail
  <2> QED BY <2>1
<1>7. CASE OAuth!LiveLane
  <2>1. UNCHANGED <<creds, looked, live_providers>>
    BY <1>7 DEF OAuth!LiveLane, OAuth!Push
  <2> QED BY <2>1
<1>8. CASE OAuth!TaskReturns
  BY <1>8 DEF OAuth!TaskReturns, OAuth!Task
<1>9. CASE OAuth!TaskFails
  BY <1>9 DEF OAuth!TaskFails, OAuth!Task
<1> QED BY <1>1, <1>2, <1>3, <1>4, <1>5, <1>6, <1>7, <1>8, <1>9 DEF OAuth!Next, OAuth!Suite

(* Each lane has its outcome before the next one.                          *)
LEMMA SuiteLanes ==
  ASSUME OAuth!TypeOK, OAuth!Lanes, OAuth!Next PROVE OAuth!Lanes'
<1> USE OAuthParameters DEF OAuth!ProvidersAssumption, OAuth!None, OAuth!config, OAuth!provider, OAuth!TypeOK, OAuth!Lanes
<1>1. CASE OAuth!FromEnv
  BY <1>1 DEF OAuth!FromEnv
<1>2. CASE OAuth!MockLane
  <2>1. CASE ~OAuth!RunMock /\ OAuth!Push("skipped")
    <3>1. Pushed("skipped")
      BY <1>2, <2>1, PushResult DEF OAuth!MockLane, OAuth!Goto, OAuth!Fail
    <3> QED BY <3>1 DEF Pushed
  <2>2. CASE ~(~OAuth!RunMock /\ OAuth!Push("skipped"))
    BY <1>2, <2>2 DEF OAuth!MockLane, OAuth!Goto, OAuth!Fail
  <2> QED BY <2>1, <2>2
<1>3. CASE OAuth!Discovery
  BY <1>3 DEF OAuth!Discovery, OAuth!Goto, OAuth!Fail
<1>4. CASE OAuth!AuthorizeStep
  BY <1>4 DEF OAuth!AuthorizeStep, OAuth!Goto, OAuth!Fail
<1>5. CASE OAuth!TokenStep
  BY <1>5 DEF OAuth!TokenStep, OAuth!Goto, OAuth!Fail, OAuth!TokenAnswer, OAuth!Token, OAuth!Mock, OAuth!Refusal
<1>6. CASE OAuth!Stop
  <2>1. CASE OAuth!Push("passed") /\ UNCHANGED <<OAuth!config, token, OAuth!provider, answer>>
    <3>1. Pushed("passed")
      BY <1>6, <2>1, PushResult DEF OAuth!Stop
    <3> QED BY <1>6, <3>1 DEF OAuth!Stop, Pushed
  <2>2. CASE ~(OAuth!Push("passed") /\ UNCHANGED <<OAuth!config, token, OAuth!provider, answer>>)
    BY <1>6, <2>2 DEF OAuth!Stop, OAuth!Fail
  <2> QED BY <2>1, <2>2
<1>7. CASE OAuth!LiveLane
  <2>1. CASE Pushed("passed") \/ Pushed("skipped")
    <3>1. PICK stat \in {"passed", "skipped"} : Pushed(stat)
      BY <2>1
    <3>2. /\ UNCHANGED <<flags, creds, looked, live_providers, code, token, shutdown, task>>
          /\ oauth_pc = "live_lane" /\ oauth_result = "running"
      BY <1>7, LiveLaneResult
    <3>3. \A i \in DOMAIN outcomes' : outcomes'[i].lane = i - 1
      <4>1. /\ Len(outcomes') = lane + 1 /\ outcomes'[lane + 1].lane = lane
            /\ \A i \in 1..lane : outcomes'[i] = outcomes[i]
            /\ DOMAIN outcomes' = 1..Len(outcomes') /\ DOMAIN outcomes = 1..lane /\ lane \in Nat
        BY <3>1 DEF Pushed
      <4>2. \A i \in 1..lane : outcomes[i].lane = i - 1
        BY <4>1
      <4>3. \A i \in DOMAIN outcomes' : i \in 1..lane \/ i = lane + 1
        BY <4>1
      <4> HIDE DEF OAuth!TypeOK, OAuth!Lanes
      <4> QED BY <4>1, <4>2, <4>3
    <3>4. Len(outcomes') = lane' /\ (lane' <= Len(live_providers') <=> oauth_result' # "report")
      BY <3>1, <3>2 DEF Pushed
    <3>5. oauth_pc' \in {"live_lane", "end"}
      BY <3>1 DEF Pushed
    <3> QED BY <3>3, <3>4, <3>5
  <2>2. CASE ~(Pushed("passed") \/ Pushed("skipped"))
    BY <1>7, <2>2, LiveLaneResult
  <2> QED BY <2>1, <2>2
<1>8. CASE OAuth!TaskReturns
  BY <1>8 DEF OAuth!TaskReturns, OAuth!Task
<1>9. CASE OAuth!TaskFails
  BY <1>9 DEF OAuth!TaskFails, OAuth!Task
<1> QED BY <1>1, <1>2, <1>3, <1>4, <1>5, <1>6, <1>7, <1>8, <1>9 DEF OAuth!Next, OAuth!Suite

(* Providers are asked lane by lane, and only while none has failed.       *)
LEMMA SuiteAsked ==
  ASSUME OAuth!TypeOK, OAuth!LiveOnes, OAuth!Lanes, OAuth!Asked, OAuth!Next PROVE OAuth!Asked'
<1> USE OAuthParameters DEF OAuth!ProvidersAssumption, OAuth!None, OAuth!config, OAuth!provider, OAuth!TypeOK, OAuth!Lanes, OAuth!Asked, OAuth!RunLive
<1>1. CASE OAuth!FromEnv
  BY <1>1 DEF OAuth!FromEnv
<1>2. CASE OAuth!MockLane
  BY <1>2 DEF OAuth!MockLane, OAuth!Goto, OAuth!Fail, OAuth!Push
<1>3. CASE OAuth!Discovery
  BY <1>3 DEF OAuth!Discovery, OAuth!Goto, OAuth!Fail
<1>4. CASE OAuth!AuthorizeStep
  BY <1>4 DEF OAuth!AuthorizeStep, OAuth!Goto, OAuth!Fail
<1>5. CASE OAuth!TokenStep
  BY <1>5 DEF OAuth!TokenStep, OAuth!Goto, OAuth!Fail
<1>6. CASE OAuth!Stop
  BY <1>6 DEF OAuth!Stop, OAuth!Push, OAuth!Fail
<1>7. CASE OAuth!LiveLane
  <2>1. lane \in DOMAIN live_providers /\ live_providers[lane] \in Providers /\ lane' \in {lane, lane + 1}
    BY <1>7, LiveLaneResult DEF Pushed
  <2>2. \A i \in 1..lane - 1 :
          i \in DOMAIN live_providers /\ live_providers[i] \in Providers /\ live_providers[i] # live_providers[lane]
    BY <2>1 DEF OAuth!LiveOnes
  <2>3. UNCHANGED <<flags, live_providers>>
    BY <1>7, LiveLaneResult
  <2>4. CASE ~OAuth!RunLive
    BY <1>7, <2>3, <2>4, LiveLaneResult DEF Pushed
  <2>5. CASE OAuth!RunLive /\ (Pushed("passed") \/ Pushed("skipped"))
    <3>1. PICK stat \in {"passed", "skipped"} : Pushed(stat)
      BY <2>5
    <3>2. PICK ending \in OAuth!Endings \ {"unexpected_status"} :
            answer' = [answer EXCEPT ![live_providers[lane]] = ending]
      BY <1>7, <2>5, LiveLaneResult DEF Pushed
    <3>3. lane' = lane + 1
      BY <3>1 DEF Pushed
    <3>4. \A q \in Providers : answer'[q] # OAuth!None =>
            \E i \in DOMAIN live_providers' :
              live_providers'[i] = q /\ (i < lane' \/ (i = lane' /\ oauth_pc' = "end"))
      <4> SUFFICES ASSUME NEW q \in Providers, answer'[q] # OAuth!None
                   PROVE  \E i \in DOMAIN live_providers : live_providers[i] = q /\ i < lane'
        BY <2>3
      <4>1. CASE q = live_providers[lane]
        BY <2>1, <3>3, <4>1
      <4>2. CASE q # live_providers[lane]
        <5>1. answer[q] # OAuth!None
          BY <3>2, <4>2
        <5>2. PICK i \in DOMAIN live_providers : live_providers[i] = q /\ i <= lane
          BY <5>1
        <5> QED BY <3>3, <5>2
      <4> QED BY <4>1, <4>2
    <3>5. \A i \in 1..lane' - 1 : answer'[live_providers'[i]] \in OAuth!Endings \ {"unexpected_status"}
      <4> SUFFICES ASSUME NEW i \in 1..lane' - 1
                   PROVE  answer'[live_providers[i]] \in OAuth!Endings \ {"unexpected_status"}
        BY <2>3
      <4>1. CASE i = lane
        BY <2>1, <3>2, <4>1
      <4>2. CASE i # lane
        <5>1. i \in 1..lane - 1
          BY <3>3, <4>2
        <5> QED BY <2>2, <2>5, <3>2, <5>1
      <4> QED BY <4>1, <4>2
    <3> QED BY <2>3, <2>5, <3>4, <3>5
  <2>6. CASE OAuth!RunLive /\ ~(Pushed("passed") \/ Pushed("skipped"))
    BY <1>7, <2>1, <2>2, <2>3, <2>6, LiveLaneResult
  <2> QED BY <2>4, <2>5, <2>6
<1>8. CASE OAuth!TaskReturns
  BY <1>8 DEF OAuth!TaskReturns, OAuth!Task
<1>9. CASE OAuth!TaskFails
  BY <1>9 DEF OAuth!TaskFails, OAuth!Task
<1> QED BY <1>1, <1>2, <1>3, <1>4, <1>5, <1>6, <1>7, <1>8, <1>9 DEF OAuth!Next, OAuth!Suite

(* The mock lane passes after its token, and with its task.                *)
LEMMA SuitePassed ==
  ASSUME OAuth!TypeOK, OAuth!Lanes, OAuth!PassedMeansTokenAndStopped, OAuth!Next PROVE OAuth!PassedMeansTokenAndStopped'
<1> USE OAuthParameters DEF OAuth!ProvidersAssumption, OAuth!None, OAuth!config, OAuth!provider, OAuth!TypeOK, OAuth!Lanes, OAuth!PassedMeansTokenAndStopped
<1>1. CASE OAuth!FromEnv
  BY <1>1 DEF OAuth!FromEnv
<1>2. CASE OAuth!MockLane
  BY <1>2 DEF OAuth!MockLane, OAuth!Goto, OAuth!Fail, OAuth!Push
<1>3. CASE OAuth!Discovery
  BY <1>3 DEF OAuth!Discovery, OAuth!Goto, OAuth!Fail
<1>4. CASE OAuth!AuthorizeStep
  BY <1>4 DEF OAuth!AuthorizeStep, OAuth!Goto, OAuth!Fail
<1>5. CASE OAuth!TokenStep
  BY <1>5 DEF OAuth!TokenStep, OAuth!Goto, OAuth!Fail
<1>6. CASE OAuth!Stop
  BY <1>6 DEF OAuth!Stop, OAuth!Push, OAuth!Fail
<1>7. CASE OAuth!LiveLane
  <2>1. CASE Pushed("passed") \/ Pushed("skipped")
    <3>1. PICK stat \in {"passed", "skipped"} : Pushed(stat)
      BY <2>1
    <3>2. /\ UNCHANGED <<flags, creds, looked, live_providers, code, token, shutdown, task>>
          /\ oauth_pc = "live_lane" /\ oauth_result = "running"
      BY <1>7, LiveLaneResult
    <3> QED BY <3>1, <3>2 DEF Pushed
  <2>2. CASE ~(Pushed("passed") \/ Pushed("skipped"))
    BY <1>7, <2>2, LiveLaneResult
  <2> QED BY <2>1, <2>2
<1>8. CASE OAuth!TaskReturns
  BY <1>8 DEF OAuth!TaskReturns, OAuth!Task
<1>9. CASE OAuth!TaskFails
  BY <1>9 DEF OAuth!TaskFails, OAuth!Task
<1> QED BY <1>1, <1>2, <1>3, <1>4, <1>5, <1>6, <1>7, <1>8, <1>9 DEF OAuth!Next, OAuth!Suite

(* An unreachable provider is a skipped lane.                              *)
LEMMA SuiteNetwork ==
  ASSUME OAuth!TypeOK, OAuth!LiveOnes, OAuth!Lanes, OAuth!Asked, OAuth!NetworkFailsNoLiveLane, OAuth!Next PROVE OAuth!NetworkFailsNoLiveLane'
<1> USE OAuthParameters DEF OAuth!ProvidersAssumption, OAuth!None, OAuth!config, OAuth!provider, OAuth!TypeOK, OAuth!Lanes, OAuth!NetworkFailsNoLiveLane
<1>1. CASE OAuth!FromEnv
  BY <1>1 DEF OAuth!FromEnv
<1>2. CASE OAuth!MockLane
  BY <1>2 DEF OAuth!MockLane, OAuth!Goto, OAuth!Fail, OAuth!Push
<1>3. CASE OAuth!Discovery
  BY <1>3 DEF OAuth!Discovery, OAuth!Goto, OAuth!Fail
<1>4. CASE OAuth!AuthorizeStep
  BY <1>4 DEF OAuth!AuthorizeStep, OAuth!Goto, OAuth!Fail
<1>5. CASE OAuth!TokenStep
  BY <1>5 DEF OAuth!TokenStep, OAuth!Goto, OAuth!Fail
<1>6. CASE OAuth!Stop
  BY <1>6 DEF OAuth!Stop, OAuth!Push, OAuth!Fail
<1>7. CASE OAuth!LiveLane
  BY <1>7 DEF OAuth!LiveLane, OAuth!Push, OAuth!OfLive, OAuth!Endings, OAuth!LiveOnes, OAuth!Asked
<1>8. CASE OAuth!TaskReturns
  BY <1>8 DEF OAuth!TaskReturns, OAuth!Task
<1>9. CASE OAuth!TaskFails
  BY <1>9 DEF OAuth!TaskFails, OAuth!Task
<1> QED BY <1>1, <1>2, <1>3, <1>4, <1>5, <1>6, <1>7, <1>8, <1>9 DEF OAuth!Next, OAuth!Suite

(* Every step preserves the invariant.                                     *)
LEMMA SuiteInvStep ==
  ASSUME OAuth!SuiteInv, [OAuth!Next]_(OAuth!vars) PROVE OAuth!SuiteInv'
<1>1. CASE OAuth!Next
  <2>1. /\ OAuth!TypeOK /\ OAuth!LiveOnes /\ OAuth!Lanes /\ OAuth!Asked
        /\ OAuth!PassedMeansTokenAndStopped /\ OAuth!NetworkFailsNoLiveLane
    BY DEF OAuth!SuiteInv
  <2> QED BY <1>1, <2>1, SuiteTypes, SuiteLiveOnes, SuiteLanes, SuiteAsked, SuitePassed, SuiteNetwork
          DEF OAuth!SuiteInv
<1>2. CASE UNCHANGED OAuth!vars
  BY <1>2 DEF OAuth!vars, OAuth!config, OAuth!provider, OAuth!SuiteInv, OAuth!TypeOK, OAuth!LiveOnes,
     OAuth!Configured, OAuth!Lanes, OAuth!Asked, OAuth!RunLive, OAuth!PassedMeansTokenAndStopped,
     OAuth!NetworkFailsNoLiveLane
<1> QED BY <1>1, <1>2

(* What is promised of the suite follows.                                  *)
LEMMA SuiteInvSuffices ==
  ASSUME OAuth!SuiteInv PROVE OAuth!OneOutcomePerLane /\ OAuth!LiveOnlyWhenEnabled
<1>1. /\ OAuth!TypeOK /\ OAuth!LiveOnes /\ OAuth!Lanes /\ OAuth!Asked
  BY DEF OAuth!SuiteInv
<1>2. OAuth!OneOutcomePerLane
  BY <1>1 DEF OAuth!OneOutcomePerLane, OAuth!Lanes, OAuth!TypeOK
<1>3. OAuth!LiveOnlyWhenEnabled
  <2> SUFFICES ASSUME NEW p \in Providers, answer[p] # OAuth!None
               PROVE  /\ OAuth!RunLive /\ creds[p] = OAuth!Credentials
                      /\ \A i \in 1..Len(live_providers) : live_providers[i] = p =>
                           \A j \in 1..i - 1 :
                             answer[live_providers[j]] \in OAuth!Endings \ {"unexpected_status"}
    BY DEF OAuth!LiveOnlyWhenEnabled, OAuth!RunLive
  <2>1. PICK k \in DOMAIN live_providers : live_providers[k] = p /\ k <= lane
    BY <1>1 DEF OAuth!Asked, OAuth!TypeOK
  <2>2. OAuth!RunLive /\ creds[p] = OAuth!Credentials
    BY <1>1, <2>1 DEF OAuth!Asked, OAuth!LiveOnes, OAuth!Configured
  <2>3. \A i \in 1..Len(live_providers) : live_providers[i] = p => i = k
    BY <1>1, <2>1 DEF OAuth!LiveOnes, OAuth!TypeOK
  <2>4. \A j \in 1..k - 1 : j \in 1..lane - 1
    BY <1>1, <2>1 DEF OAuth!TypeOK
  <2>5. \A j \in 1..k - 1 : answer[live_providers[j]] \in OAuth!Endings \ {"unexpected_status"}
    BY <1>1, <2>2, <2>4 DEF OAuth!Asked
  <2> QED BY <2>2, <2>3, <2>5
<1> QED BY <1>2, <1>3

(* The OAuth suite (src/suites/oauth.rs), whatever fails and whatever its  *)
(* live providers answer, however many: a report has one outcome per lane, *)
(* the mock lane passes only with a token and a task that has ended well,  *)
(* and a real provider is asked only when enabled.                         *)
THEOREM LanesAreTrue == Spec => []LaneOutcomesAreTrue
<1> DEFINE I == part = "oauth" => OAuth!SuiteInv
<1>1. Init => I
  BY OAuthStarts, SuiteInvInit
<1>2. I /\ [Next]_vars => I'
  BY OAuthSteps, SuiteInvStep
<1>3. I => LaneOutcomesAreTrue
  BY SuiteInvSuffices DEF LaneOutcomesAreTrue, OAuth!SuiteInv
<1> HIDE DEF I
<1> QED BY <1>1, <1>2, <1>3, PTL DEF Spec

=============================================================================
