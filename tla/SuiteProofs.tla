---------------------------- MODULE SuiteProofs ----------------------------
(***************************************************************************)
(* Theorems about the parts of Toolkit that compute a report on what they  *)
(* are given: records that refer to one another, the commands of the       *)
(* command line, the policy, flow and pack suites.  Each part has an       *)
(* inductive invariant, stated in its module, which holds while that part  *)
(* is the one that runs.                                                   *)
(***************************************************************************)
EXTENDS Toolkit, FiniteSetTheorems, SequenceTheorems, WellFoundedInduction, TLAPS

(***************************************************************************)
(* Records: the two instances differ in what is given to the validators,   *)
(* not in what these do, so that one invariant does for both.              *)
(***************************************************************************)

RecordsRun == part \in {"published", "events"}

(* A behaviour of these parts begins with no verdict.                      *)
LEMMA RecordsStart ==
  ASSUME Init, RecordsRun
  PROVE  said = [v \in Published!Validators |-> "not_run"] /\ Published!IsEventRecord(events)
<1> USE RecordsParameters
<1>1. CASE part = "published"
  BY <1>1 DEF Init, Published!Init, Published!RecordsAssumption
<1>2. CASE part = "events"
  <2>1. said = [v \in Published!Validators |-> "not_run"] /\ Eventful!IsEventRecord(events)
    BY <1>2 DEF Init, Eventful!Init, Eventful!Validators, Published!Validators,
       Eventful!RecordsAssumption
  <2> QED BY <2>1 DEF Eventful!IsEventRecord, Published!IsEventRecord, Eventful!Items,
               Published!Items
<1> QED BY <1>1, <1>2 DEF RecordsRun

(* A step of Toolkit is that of a validator, or changes no record.         *)
LEMMA RecordsSteps ==
  ASSUME [Next]_vars, RecordsRun'
  PROVE  RecordsRun /\ [Published!Next]_(Published!vars)
<1>1. CASE part = "events" /\ Eventful!Next /\ OthersStay
  <2>1. Eventful!Next => Published!Next
    BY DEF Eventful!Next, Published!Next,
       Eventful!ValidateRepoMetadata, Published!ValidateRepoMetadata,
       Eventful!ValidateStoreSubscriptions, Published!ValidateStoreSubscriptions,
       Eventful!ValidateDistributorTarget, Published!ValidateDistributorTarget,
       Eventful!ValidateProviders, Published!ValidateProviders,
       Eventful!ValidateEventFlow, Published!ValidateEventFlow,
       Eventful!Say, Published!Say, Eventful!MetadataFits, Published!MetadataFits,
       Eventful!SubscriptionsFit, Published!SubscriptionsFit,
       Eventful!TargetFits, Published!TargetFits, Eventful!ProvidersFit, Published!ProvidersFit,
       Eventful!EventFlowFits, Published!EventFlowFits, Eventful!Items, Published!Items,
       Eventful!Key, Published!Key, Eventful!Enabled, Published!Enabled
  <2> QED BY <1>1, <2>1 DEF RecordsRun, OthersStay
<1>2. CASE Next /\ ~(part = "events" /\ Eventful!Next /\ OthersStay)
  BY <1>2 DEF Next, OthersStay, RecordsRun, recordsVars, Published!vars
<1>3. CASE UNCHANGED vars
  BY <1>3 DEF vars, recordsVars, Published!vars, RecordsRun
<1> QED BY <1>1, <1>2, <1>3

(* Nothing is asked of records without a verdict.                          *)
LEMMA RecordsInvInit ==
  ASSUME said = [v \in Published!Validators |-> "not_run"], Published!IsEventRecord(events)
  PROVE  Published!RecordsInv
  BY DEF Published!RecordsInv, Published!TypeOK, Published!Validators

(* What a validator looks at does not change under it.                     *)
LEMMA RecordsRest ==
  ASSUME UNCHANGED <<pub, events>>
  PROVE  /\ Published!MetadataFits' <=> Published!MetadataFits
         /\ Published!SubscriptionsFit' <=> Published!SubscriptionsFit
         /\ Published!TargetFits' <=> Published!TargetFits
         /\ Published!ProvidersFit' <=> Published!ProvidersFit
         /\ Published!EventFlowFits' <=> Published!EventFlowFits
         /\ Published!IsEventRecord(events)' <=> Published!IsEventRecord(events)
  BY DEF Published!IsEventRecord, Published!MetadataFits, Published!SubscriptionsFit, Published!TargetFits,
     Published!ProvidersFit, Published!EventFlowFits, Published!Items, Published!Key,
     Published!Enabled

(* A validator that accepts has found what it asks for; one that refuses   *)
(* had something to look at.                                               *)
LEMMA RecordsInvStep ==
  ASSUME Published!RecordsInv, [Published!Next]_(Published!vars) PROVE Published!RecordsInv'
<1> USE DEF Published!RecordsInv, Published!Validators
<1>1. ~Published!SubscriptionsFit => pub.subs # <<>>
  BY DEF Published!SubscriptionsFit, Published!Items
<1>2. ~Published!ProvidersFit => events.providers # <<>>
  BY DEF Published!ProvidersFit, Published!Items
<1>3. CASE Published!ValidateRepoMetadata
  BY <1>3, RecordsRest DEF Published!ValidateRepoMetadata, Published!Say, Published!TypeOK
<1>4. CASE Published!ValidateStoreSubscriptions
  BY <1>1, <1>4, RecordsRest
     DEF Published!ValidateStoreSubscriptions, Published!Say, Published!TypeOK
<1>5. CASE Published!ValidateDistributorTarget
  BY <1>5, RecordsRest DEF Published!ValidateDistributorTarget, Published!Say, Published!TypeOK
<1>6. CASE Published!ValidateProviders
  BY <1>2, <1>6, RecordsRest DEF Published!ValidateProviders, Published!Say, Published!TypeOK
<1>7. CASE Published!ValidateEventFlow
  BY <1>7, RecordsRest DEF Published!ValidateEventFlow, Published!Say, Published!TypeOK
<1>8. CASE UNCHANGED Published!vars
  BY <1>8, RecordsRest DEF Published!vars, Published!TypeOK
<1> QED BY <1>3, <1>4, <1>5, <1>6, <1>7, <1>8 DEF Published!Next

(* Descriptors that the repository accepts have different keys: that of a  *)
(* subscription, being there, is there once.                               *)
LEMMA AcceptedAreDeliverable ==
  ASSUME Published!RecordsInv PROVE Published!SubscriptionsAreDeliverable
<1> SUFFICES ASSUME Published!Accepted({"repo", "store", "distributor"})
             PROVE  Published!SubscriptionsAreDeliverable
  BY DEF Published!SubscriptionsAreDeliverable
<1> USE DEF Published!Items, Published!Enabled
<1>0. Published!MetadataFits /\ Published!TargetFits
  BY DEF Published!RecordsInv, Published!Accepted
<1>1. ASSUME NEW t \in Published!Enabled(pub.target)
      PROVE  \E i \in DOMAIN pub.metadata : Published!Key(pub.metadata[i]) = Published!Key(t)
  BY <1>0, <1>1 DEF Published!TargetFits
<1>2. ASSUME NEW s \in Published!Enabled(pub.subs)
      PROVE  \E t \in Published!Enabled(pub.target) : Published!Key(t) = Published!Key(s)
  BY <1>0, <1>2 DEF Published!TargetFits
<1>3. ASSUME NEW s \in Published!Enabled(pub.subs)
      PROVE  Published!Cardinality({i \in DOMAIN pub.metadata :
               Published!Key(pub.metadata[i]) = Published!Key(s)}) = 1
  <2>1. PICK i \in DOMAIN pub.metadata : Published!Key(pub.metadata[i]) = Published!Key(s)
    BY <1>1, <1>2, <1>3
  <2>2. {j \in DOMAIN pub.metadata : Published!Key(pub.metadata[j]) = Published!Key(s)} = {i}
    BY <1>0, <2>1 DEF Published!MetadataFits
  <2>3. Published!Cardinality({i}) = Cardinality({i})
    BY DEF Published!Cardinality, Cardinality, Published!IsFiniteSet, IsFiniteSet
  <2> QED BY <2>2, <2>3, FS_Singleton
<1>4. ASSUME NEW t \in Published!Enabled(pub.target)
      PROVE  Blank \notin {t.pack_id, t.pack_version}
  <2>1. PICK i \in DOMAIN pub.metadata : Published!Key(pub.metadata[i]) = Published!Key(t)
    BY <1>1, <1>4
  <2>2. Blank \notin {pub.metadata[i].pack_id, pub.metadata[i].pack_version}
    BY <1>0, <2>1 DEF Published!MetadataFits
  <2> QED BY <2>1, <2>2 DEF Published!Key
<1> QED BY <1>2, <1>3, <1>4 DEF Published!SubscriptionsAreDeliverable

(* A provider that is known to a node of an accepted flow was accepted     *)
(* with the others.                                                        *)
LEMMA AcceptedHaveProviders ==
  ASSUME Published!RecordsInv PROVE Eventful!NodesHaveProviders
<1> USE DEF Published!Items, Eventful!Items
<1> SUFFICES ASSUME Published!ProvidersFit, Published!EventFlowFits,
                    NEW n \in Eventful!Items(events.flow.nodes)
             PROVE  \E p \in Eventful!Items(events.providers) :
                      n.provider = {p.name} /\ Blank \notin {p.name, p.kind}
  BY DEF Published!RecordsInv, Eventful!NodesHaveProviders, Eventful!Accepted
<1>1. PICK x \in n.provider : TRUE
  BY DEF Published!EventFlowFits
<1>2. n.provider = {x}
  BY DEF Published!RecordsInv, Published!TypeOK, Published!IsEventRecord
<1>3. PICK p \in Published!Items(events.providers) : x = p.name
  BY <1>1 DEF Published!EventFlowFits
<1> QED BY <1>2, <1>3 DEF Published!ProvidersFit

(* Records of any number that all their validators accept                  *)
(* (src/repo_store_suite.rs, src/events_suite.rs) fit together: each       *)
(* enabled subscription leads to one descriptor and an enabled target, and *)
(* each node of an event flow to a provider that was accepted.             *)
THEOREM RecordsFit == Spec => []AcceptedRecordsFit
<1> DEFINE I == RecordsRun => Published!RecordsInv
<1>1. Init => I
  BY RecordsStart, RecordsInvInit
<1>2. I /\ [Next]_vars => I'
  BY RecordsSteps, RecordsInvStep
<1>3. I => AcceptedRecordsFit
  <2>1. Published!RecordsInv => Eventful!TypeOK
    BY DEF Published!RecordsInv, Published!TypeOK, Eventful!TypeOK, Published!Validators,
       Eventful!Validators, Published!IsEventRecord, Eventful!IsEventRecord, Published!Items,
       Eventful!Items
  <2>2. Published!RecordsInv => Published!TypeOK
    BY DEF Published!RecordsInv
  <2> QED BY <2>1, <2>2, AcceptedAreDeliverable, AcceptedHaveProviders
         DEF AcceptedRecordsFit, RecordsRun
<1> HIDE DEF I
<1> QED BY <1>1, <1>2, <1>3, PTL DEF Spec

(***************************************************************************)
(* Counting                                                                *)
(***************************************************************************)

(* The elements of a sequence are fewer than its length exactly when one   *)
(* of them is there twice.                                                 *)
LEMMA FewerMeansTwice ==
  ASSUME NEW n \in Nat, NEW f, f = [k \in 1..n |-> f[k]]
  PROVE  LET T == {f[k] : k \in 1..n}
         IN  /\ Cardinality(T) \in Nat
             /\ Cardinality(T) < n <=> \E i, j \in 1..n : i # j /\ f[i] = f[j]
<1> DEFINE T == {f[k] : k \in 1..n}
<1>1. f \in Surjection(1..n, T)
  BY DEF Surjection
<1>2. IsFiniteSet(1..n) /\ Cardinality(1..n) = n
  BY FS_Interval
<1>3. /\ Cardinality(T) \in Nat /\ Cardinality(T) <= n
      /\ Cardinality(T) = n <=> f \in Injection(1..n, T)
  BY <1>1, <1>2, FS_Surjection, FS_CardinalityType
<1>4. f \in Injection(1..n, T) <=> \A i, j \in 1..n : f[i] = f[j] => i = j
  BY <1>1 DEF Injection, IsInjective, Surjection
<1> HIDE DEF T
<1>5. Cardinality(T) < n <=> \E i, j \in 1..n : i # j /\ f[i] = f[j]
  BY <1>3, <1>4
<1> QED BY <1>3, <1>5 DEF T

(***************************************************************************)
(* CliVerdicts                                                             *)
(***************************************************************************)

(* The behaviour of this part is one of its module.                        *)
LEMMA CliStarts ==
  ASSUME Init, part = "cli" PROVE Cli!Init
  BY DEF Init

(* A step of Toolkit is one of a command, or changes nothing of it.        *)
LEMMA CliSteps ==
  ASSUME [Next]_vars, part' = "cli"
  PROVE  part = "cli" /\ [Cli!Next]_(Cli!vars)
<1>1. CASE Next
  BY <1>1 DEF Next, OthersStay
<1>2. CASE UNCHANGED vars
  BY <1>2 DEF vars, cliVars, Cli!vars, Cli!asked, Cli!found
<1> QED BY <1>1, <1>2

(* The library's facts on Cardinality are those of each instance.          *)
LEMMA CliCardinality ==
  ASSUME NEW S PROVE Cli!Cardinality(S) = Cardinality(S)
  BY DEF Cli!Cardinality, Cardinality, Cli!IsFiniteSet, IsFiniteSet

(* Nothing has been looked at.                                             *)
LEMMA CliInvInit ==
  ASSUME Cli!Init PROVE Cli!CliInv
<1> USE DEF Cli!Init, Cli!Commands, Cli!Begin
<1>1. Cli!TypeOK
  <2>1. Cardinality({}) = 0
    BY FS_EmptySet
  <2>2. Cli!Cardinality(pack) = 0
    BY <2>1, CliCardinality
  <2>3. applied \in Seq(DeployerOutputs) /\ Len(applied) = 0
    OBVIOUS
  <2>4. args \subseteq Cli!Flags[command]
    OBVIOUS
  <2> QED BY <2>2, <2>3, <2>4 DEF Cli!TypeOK
<1>2. Cli!Progress
  BY DEF Cli!Progress
<1>3. Cli!VerdictsAreEarned /\ Cli!VerdictsMatchIssues
  BY DEF Cli!VerdictsAreEarned, Cli!VerdictsMatchIssues
<1>4. /\ Cli!FullPacksAreSigned /\ Cli!SignatureIsOkOrWarned
      /\ Cli!EntryFlowsAreComplete /\ Cli!IdempotentMeansEqual
  BY DEF Cli!FullPacksAreSigned, Cli!SignatureIsOkOrWarned, Cli!EntryFlowsAreComplete,
     Cli!IdempotentMeansEqual
<1> QED BY <1>1, <1>2, <1>3, <1>4 DEF Cli!CliInv

(* A pack with as many ids as flows has no two flows of one id.            *)
LEMMA CliIdsAreUnique ==
  ASSUME NEW p \in Packs, ~(Cli!Cardinality(Cli!Ids(p)) < Len(p.flows)),
         NEW i \in DOMAIN p.flows, NEW j \in DOMAIN p.flows, p.flows[i].id = p.flows[j].id
  PROVE  i = j
<1> DEFINE n == Len(p.flows)
           f == [k \in 1..n |-> p.flows[k].id]
<1>1. p.flows \in Seq({p.flows[k] : k \in DOMAIN p.flows})
  BY CliParameters DEF Cli!CliAssumption, Cli!IsPack
<1>2. n \in Nat /\ DOMAIN p.flows = 1..n
  BY <1>1
<1>3. Cli!Ids(p) = {f[k] : k \in 1..n}
  BY <1>2 DEF Cli!Ids
<1>4. ~(Cardinality(Cli!Ids(p)) < n)
  BY CliCardinality
<1>5. \A k, l \in 1..n : f[k] = f[l] => k = l
  <2>1. f = [k \in 1..n |-> f[k]]
    OBVIOUS
  <2> HIDE DEF f
  <2> QED BY <1>2, <1>3, <1>4, <2>1, FewerMeansTwice
<1> QED BY <1>2, <1>5

(* What a pack without defects and cautions is like.                       *)
LEMMA CliSoundPacks ==
  ASSUME NEW p \in Packs
  PROVE  /\ Cli!Full(p) => Cli!Defects(p) = {} /\ p.signature_ok /\ p.sbom_ok /\ ~p.warned
         /\ "signature_ok" \in Cli!Marks(p) =>
              p.signature_ok \/ ("signature" \in Cli!Cautions(p) /\ ~Cli!Full(p))
         /\ "signature_ok" \notin Cli!Marks(p) => "signature" \in Cli!Defects(p)
         /\ Cli!Defects(p) = {} => \A id \in p.entry_flows :
              \E i \in DOMAIN p.flows : /\ {j \in DOMAIN p.flows : p.flows[j].id = id} = {i}
                                        /\ p.flows[i].files \subseteq p.sbom \ {"blank"}
<1>1. ASSUME Cli!Full(p) PROVE Cli!Defects(p) = {} /\ p.signature_ok /\ p.sbom_ok /\ ~p.warned
  <2>1. "pack" \notin Cli!Cautions(p)
    BY <1>1 DEF Cli!Full
  <2> QED BY <1>1, <2>1 DEF Cli!Full, Cli!Cautions
<1>2. ASSUME Cli!Defects(p) = {}, NEW id \in p.entry_flows
      PROVE  \E i \in DOMAIN p.flows : /\ {j \in DOMAIN p.flows : p.flows[j].id = id} = {i}
                                       /\ p.flows[i].files \subseteq p.sbom \ {"blank"}
  <2>1. "duplicate_flow" \notin Cli!Defects(p) /\ "file" \notin Cli!Defects(p)
        /\ "entry_flow" \notin Cli!Defects(p)
    BY <1>2
  <2>2. /\ ~(Cli!Cardinality(Cli!Ids(p)) < Len(p.flows))
        /\ Cli!Absent(p) = {}
        /\ p.entry_flows \subseteq Cli!Ids(p)
    BY <2>1 DEF Cli!Defects
  <2>3. PICK i \in DOMAIN p.flows : p.flows[i].id = id
    BY <1>2, <2>2 DEF Cli!Ids
  <2>4. {j \in DOMAIN p.flows : p.flows[j].id = id} = {i}
    BY <2>2, <2>3, CliIdsAreUnique
  <2>5. p.flows[i].files \subseteq p.sbom \ {"blank"}
    BY <2>2 DEF Cli!Absent
  <2> QED BY <2>4, <2>5
<1>3. ASSUME "signature_ok" \in Cli!Marks(p), ~p.signature_ok
      PROVE  "signature" \in Cli!Cautions(p) /\ ~Cli!Full(p)
  BY <1>3 DEF Cli!Marks, Cli!Cautions, Cli!Full
<1>4. ASSUME "signature_ok" \notin Cli!Marks(p) PROVE "signature" \in Cli!Defects(p)
  BY <1>4 DEF Cli!Marks, Cli!Defects
<1> QED BY <1>1, <1>2, <1>3, <1>4

(* check-pack: one look at the archive, or an error.                       *)
LEMMA CliCheckPack ==
  ASSUME Cli!CliInv, Cli!CheckPack PROVE Cli!CliInv'
<1> USE DEF Cli!CliInv
<1>0. cli_pc = "open" /\ command = "pack" /\ verdicts = {} /\ applied = <<>>
      /\ cli_exit = -1
  BY DEF Cli!CheckPack, Cli!TypeOK, Cli!Progress, Cli!Begin, Cli!Commands
<1>1. CASE Cli!Error /\ UNCHANGED pack /\ UNCHANGED applied
  BY <1>0, <1>1 DEF Cli!Error, Cli!asked, Cli!found, Cli!TypeOK, Cli!Progress,
     Cli!VerdictsAreEarned, Cli!VerdictsMatchIssues, Cli!FullPacksAreSigned,
     Cli!SignatureIsOkOrWarned, Cli!EntryFlowsAreComplete, Cli!IdempotentMeansEqual
<1>2. CASE \E p \in Packs :
             /\ pack' = {p} /\ issues' = Cli!Defects(p) /\ cli_warnings' = Cli!Cautions(p)
             /\ verdicts' = (IF Cli!Defects(p) = {} THEN {"pack_v1_basic"} ELSE {})
                             \cup (IF Cli!Full(p) THEN {"pack_v1_full"} ELSE {})
                             \cup Cli!Marks(p)
             /\ cli_seen' = {Cli!Policy}
             /\ Cli!Report /\ UNCHANGED Cli!asked /\ UNCHANGED applied
  <2>1. PICK p \in Packs :
             /\ pack' = {p} /\ issues' = Cli!Defects(p) /\ cli_warnings' = Cli!Cautions(p)
             /\ verdicts' = (IF Cli!Defects(p) = {} THEN {"pack_v1_basic"} ELSE {})
                             \cup (IF Cli!Full(p) THEN {"pack_v1_full"} ELSE {})
                             \cup Cli!Marks(p)
             /\ Cli!Report /\ UNCHANGED Cli!asked /\ UNCHANGED applied
    BY <1>2
  <2>2. command' = "pack" /\ args' = args /\ applied' = <<>> /\ cli_pc' = "end" /\ cli_exit' = 0
    BY <1>0, <2>1 DEF Cli!Report, Cli!asked
  <2>3. Cli!TypeOK'
    <3>1. Cli!Cardinality(pack') = 1
      BY <2>1, CliCardinality, FS_Singleton
    <3>2. verdicts' \subseteq {"pack_v1_basic", "pack_v1_full", "signature_ok", "sbom_ok"}
      BY <2>1 DEF Cli!Marks
    <3> QED BY <2>1, <2>2, <3>1, <3>2, <1>0 DEF Cli!TypeOK, Cli!Basic, Cli!Strong
  <2>4. /\ "pack_v1_basic" \in verdicts' <=> Cli!Defects(p) = {}
        /\ "pack_v1_full" \in verdicts' <=> Cli!Full(p)
        /\ "signature_ok" \in verdicts' <=> "signature_ok" \in Cli!Marks(p)
        /\ "idempotent_ok" \notin verdicts'
    BY <2>1 DEF Cli!Marks
  <2>5. Cli!Progress' /\ Cli!VerdictsAreEarned' /\ Cli!IdempotentMeansEqual'
    BY <2>2, <2>4 DEF Cli!Progress, Cli!VerdictsAreEarned, Cli!IdempotentMeansEqual
  <2>6. Cli!VerdictsMatchIssues'
    BY <2>1, <2>2, <2>4, CliSoundPacks DEF Cli!VerdictsMatchIssues, Cli!Basic, Cli!Strong
  <2>7. Cli!FullPacksAreSigned' /\ Cli!EntryFlowsAreComplete'
    BY <2>1, <2>4, CliSoundPacks DEF Cli!FullPacksAreSigned, Cli!EntryFlowsAreComplete
  <2>8. Cli!SignatureIsOkOrWarned'
    BY <2>1, <2>4, CliSoundPacks DEF Cli!SignatureIsOkOrWarned
  <2> QED BY <2>3, <2>5, <2>6, <2>7, <2>8
<1> QED BY <1>1, <1>2 DEF Cli!CheckPack

(* Only check-pack and check-deployer have verdicts that tell of an        *)
(* archive or of two outputs.                                              *)
LEMMA CliOwnVerdicts ==
  ASSUME Cli!TypeOK'
  PROVE  /\ command' # "pack" =>
              Cli!FullPacksAreSigned' /\ Cli!SignatureIsOkOrWarned' /\ Cli!EntryFlowsAreComplete'
         /\ command' # "deployer" => Cli!IdempotentMeansEqual'
<1>1. command' # "pack" => "pack_v1_basic" \notin verdicts' /\ "pack_v1_full" \notin verdicts'
  BY DEF Cli!TypeOK, Cli!Commands, Cli!Basic, Cli!Strong
<1>2. command' # "deployer" => "idempotent_ok" \notin verdicts'
  BY DEF Cli!TypeOK, Cli!Commands, Cli!Basic, Cli!Strong
<1> QED BY <1>1, <1>2 DEF Cli!FullPacksAreSigned, Cli!SignatureIsOkOrWarned,
           Cli!EntryFlowsAreComplete, Cli!IdempotentMeansEqual

(* An error of any command leaves no report.                               *)
LEMMA CliError ==
  ASSUME Cli!CliInv, Cli!Error, UNCHANGED <<pack, applied>> PROVE Cli!CliInv'
  BY DEF Cli!CliInv, Cli!Error, Cli!asked, Cli!found, Cli!TypeOK, Cli!Progress,
     Cli!VerdictsAreEarned, Cli!VerdictsMatchIssues, Cli!FullPacksAreSigned,
     Cli!SignatureIsOkOrWarned, Cli!EntryFlowsAreComplete, Cli!IdempotentMeansEqual

(* check-flow: what the flow suite answers.                                *)
LEMMA CliCheckFlow ==
  ASSUME Cli!CliInv, Cli!CheckFlow PROVE Cli!CliInv'
<1>1. /\ command' = "flow" /\ args' = args /\ cli_pc' = "end" /\ cli_exit' = 0
      /\ UNCHANGED <<pack, applied>>
  BY DEF Cli!CliInv, Cli!CheckFlow, Cli!Report, Cli!asked, Cli!TypeOK, Cli!Progress, Cli!Begin,
     Cli!Commands
<1>2. /\ verdicts' \subseteq {"flow_v1_basic", "flow_v1_safe"}
      /\ "flow_v1_basic" \in verdicts' <=> issues' = {}
      /\ "flow_v1_safe" \in verdicts' => issues' = {}
  BY DEF Cli!CheckFlow
<1>3. Cli!TypeOK'
  BY <1>1, <1>2 DEF Cli!CliInv, Cli!TypeOK, Cli!Commands, Cli!Basic, Cli!Strong,
     Cli!CheckFlow, Cli!asked
<1>4. Cli!Progress' /\ Cli!VerdictsAreEarned' /\ Cli!VerdictsMatchIssues'
  BY <1>1, <1>2 DEF Cli!Progress, Cli!VerdictsAreEarned, Cli!VerdictsMatchIssues, Cli!Basic,
     Cli!Strong
<1> QED BY <1>1, <1>3, <1>4, CliOwnVerdicts DEF Cli!CliInv

(* What the three commands that run a binary have in common.               *)
LEMMA CliStat ==
  ASSUME Cli!CliInv, Cli!Stat PROVE Cli!CliInv'
<1> USE DEF Cli!CliInv
<1>1. CASE Cli!Error /\ UNCHANGED pack /\ UNCHANGED applied
  BY <1>1, CliError
<1>2. CASE \E bad \in SUBSET Cli!Wrong, notes \in SUBSET {"not_executable"} :
             /\ issues' = bad /\ cli_warnings' = notes
             /\ verdicts' = IF bad = {} THEN Cli!Presumed[command] ELSE {}
             /\ IF bad = {} \/ command = "runner" THEN Cli!Goto(Cli!Trial[command]) ELSE Cli!Report
             /\ UNCHANGED <<Cli!asked, cli_seen>>
             /\ UNCHANGED <<pack, applied>>
  <2>1. /\ command \in {"component", "runner", "deployer"} /\ command' = command /\ args' = args
        /\ cli_exit = -1 /\ cli_seen' = {} /\ UNCHANGED pack /\ applied' = <<>> /\ applied = <<>>
    BY <1>2 DEF Cli!Stat, Cli!asked, Cli!TypeOK, Cli!Progress, Cli!Begin, Cli!Commands
  <2>2. /\ verdicts' = IF issues' = {} THEN Cli!Presumed[command] ELSE {}
        /\ IF issues' = {} \/ command = "runner"
           THEN cli_pc' = Cli!Trial[command] /\ cli_exit' = -1
           ELSE cli_pc' = "end" /\ cli_exit' = 0
    BY <1>2, <2>1 DEF Cli!Goto, Cli!Report
  <2>3. Cli!TypeOK'
    <3>1. cli_pc' \in {"exports", "pack", "help", "end"} /\ cli_exit' \in {-1, 0}
          /\ (cli_exit' = -1 <=> cli_pc' # "end")
      BY <2>1, <2>2 DEF Cli!Trial
    <3>2. verdicts' \subseteq {Cli!Basic[command]}
                               \cup {Cli!Strong[c] : c \in DOMAIN Cli!Strong \cap {command}}
      <4>1. verdicts' \subseteq Cli!Presumed[command]
        BY <2>2
      <4>2. CASE command = "component"
        BY <4>1, <4>2 DEF Cli!Basic, Cli!Strong, Cli!Presumed
      <4>3. CASE command = "runner"
        BY <4>1, <4>3 DEF Cli!Basic, Cli!Presumed
      <4>4. CASE command = "deployer"
        BY <4>1, <4>4 DEF Cli!Presumed
      <4> QED BY <2>1, <4>2, <4>3, <4>4
    <3> QED BY <2>1, <3>1, <3>2 DEF Cli!TypeOK
  <2>4. Cli!Progress'
    BY <2>1, <2>2 DEF Cli!Progress, Cli!Presumed, Cli!Trial, Cli!Begin
  <2>5. Cli!VerdictsAreEarned' /\ Cli!VerdictsMatchIssues'
    BY <2>1, <2>2 DEF Cli!VerdictsAreEarned, Cli!VerdictsMatchIssues, Cli!Basic, Cli!Strong,
       Cli!Presumed, Cli!Trial
  <2>6. Cli!IdempotentMeansEqual'
    BY <2>1, <2>2 DEF Cli!IdempotentMeansEqual, Cli!Presumed
  <2> QED BY <2>1, <2>3, <2>4, <2>5, <2>6, CliOwnVerdicts
<1> QED BY <1>1, <1>2 DEF Cli!Stat

(* check-component: the exports, if they can be compared, and the          *)
(* operation, if one was given.                                            *)
LEMMA CliComponent ==
  ASSUME Cli!CliInv, Cli!Exports \/ Cli!Invoke PROVE Cli!CliInv'
<1> USE DEF Cli!CliInv
<1>1. CASE Cli!Error /\ UNCHANGED pack /\ UNCHANGED applied
  BY <1>1, CliError
<1>2. CASE ~(Cli!Error /\ UNCHANGED pack /\ UNCHANGED applied)
  <2>1. /\ command = "component" /\ command' = command /\ args' = args /\ UNCHANGED pack
        /\ cli_exit = -1 /\ applied' = <<>> /\ applied = <<>>
        /\ verdicts = IF issues = {} THEN Cli!Presumed[command] ELSE {}
    BY <1>2 DEF Cli!Exports, Cli!Invoke, Cli!asked, Cli!TypeOK, Cli!Progress
  <2>2. \/ cli_pc' = "invoke" /\ cli_exit' = -1 /\ "operation" \in args
        \/ cli_pc' = "end" /\ cli_exit' = 0
    BY <1>2, <2>1 DEF Cli!Exports, Cli!Invoke, Cli!Goto, Cli!Report
  <2>3. verdicts' = IF issues' = {} THEN Cli!Presumed[command] ELSE {}
    <3>1. CASE Cli!Exports
      BY <1>2, <2>1, <3>1 DEF Cli!Exports
    <3>2. CASE Cli!Invoke
      BY <2>1, <3>2 DEF Cli!Invoke
    <3> QED BY <3>1, <3>2
  <2>4. issues' = {} => /\ "exports" \in cli_seen'
                        /\ cli_pc' = "end" /\ "operation" \in args => "invocation" \in cli_seen'
    <3>1. CASE Cli!Exports
      BY <1>2, <2>1, <3>1 DEF Cli!Exports, Cli!Goto, Cli!Report
    <3>2. CASE Cli!Invoke
      BY <2>1, <3>2 DEF Cli!Invoke, Cli!Progress
    <3> QED BY <3>1, <3>2
  <2>5. Cli!TypeOK'
    <3>1. verdicts' \subseteq {"component_v1_wit_only", "component_v1_hosted"}
      BY <2>1, <2>3 DEF Cli!Presumed
    <3> QED BY <2>1, <2>2, <3>1 DEF Cli!TypeOK, Cli!Basic, Cli!Strong
  <2>6. Cli!Progress' /\ Cli!VerdictsAreEarned'
    BY <2>1, <2>2, <2>3, <2>4 DEF Cli!Progress, Cli!VerdictsAreEarned, Cli!Basic
  <2>7. Cli!VerdictsMatchIssues'
    BY <2>1, <2>2, <2>3 DEF Cli!VerdictsMatchIssues, Cli!Basic, Cli!Strong, Cli!Presumed
  <2> QED BY <2>1, <2>5, <2>6, <2>7, CliOwnVerdicts
<1> QED BY <1>1, <1>2

(* check-runner: the pack is looked for, and the runner tried on it.       *)
LEMMA CliRunner ==
  ASSUME Cli!CliInv, Cli!FindPack \/ Cli!Smoke PROVE Cli!CliInv'
<1> USE DEF Cli!CliInv
<1>1. CASE Cli!Error /\ UNCHANGED pack /\ UNCHANGED applied
  BY <1>1, CliError
<1>2. CASE ~(Cli!Error /\ UNCHANGED pack /\ UNCHANGED applied)
  <2>1. /\ command = "runner" /\ command' = command /\ args' = args /\ UNCHANGED pack
        /\ cli_exit = -1 /\ applied' = <<>> /\ applied = <<>>
        /\ verdicts = IF issues = {} THEN {"runner_v1"} ELSE {}
    BY <1>2 DEF Cli!FindPack, Cli!Smoke, Cli!asked, Cli!TypeOK, Cli!Progress, Cli!Presumed
  <2>2. \/ cli_pc' = "smoke" /\ cli_exit' = -1 /\ issues' = {}
           /\ {"pack", "GREENTIC_PACK_PATH"} \cap args # {}
        \/ cli_pc' = "end" /\ cli_exit' = 0
    BY <1>2, <2>1 DEF Cli!FindPack, Cli!Smoke, Cli!Goto, Cli!Report
  <2>3. verdicts' = IF issues' = {} THEN {"runner_v1"} ELSE {}
    <3>1. CASE Cli!FindPack
      BY <2>1, <3>1 DEF Cli!FindPack
    <3>2. CASE Cli!Smoke
      BY <1>2, <2>1, <3>2 DEF Cli!Smoke, Cli!Progress
    <3> QED BY <3>1, <3>2
  <2>4. cli_pc' = "end" /\ issues' = {} =>
          IF {"pack", "GREENTIC_PACK_PATH"} \cap args # {}
          THEN "smoke" \in cli_seen' ELSE "no_pack" \in cli_warnings'
    <3>1. CASE Cli!FindPack
      BY <2>1, <3>1 DEF Cli!FindPack, Cli!Goto, Cli!Report
    <3>2. CASE Cli!Smoke
      BY <1>2, <2>1, <3>2 DEF Cli!Smoke, Cli!Progress
    <3> QED BY <3>1, <3>2
  <2>5. Cli!TypeOK'
    <3>1. verdicts' \subseteq {"runner_v1"}
      BY <2>3
    <3> QED BY <2>1, <2>2, <3>1 DEF Cli!TypeOK, Cli!Basic
  <2>6. Cli!Progress' /\ Cli!VerdictsAreEarned'
    BY <2>1, <2>2, <2>3, <2>4 DEF Cli!Progress, Cli!VerdictsAreEarned, Cli!Presumed
  <2>7. Cli!VerdictsMatchIssues'
    BY <2>1, <2>2, <2>3 DEF Cli!VerdictsMatchIssues, Cli!Basic, Cli!Strong
  <2> QED BY <2>1, <2>5, <2>6, <2>7, CliOwnVerdicts
<1> QED BY <1>1, <1>2

(* check-deployer: what the report concludes from the last trial.          *)
LEMMA CliConclude ==
  ASSUME Cli!CliInv, NEW bad, NEW notes, NEW facts, Cli!Conclude(bad, notes, facts),
         command = "deployer", cli_exit = -1, cli_pc # "end", UNCHANGED pack,
         applied' \in Seq(DeployerOutputs), Len(applied') <= 2, bad \subseteq {"help", "not_idempotent", "no_such_config"},
         bad = {} => /\ "help" \in cli_seen \cup facts
                     /\ IF "config" \in args THEN "idempotent" \in facts
                        ELSE "no_config" \in notes,
         "idempotent" \in facts => Len(applied') = 2 /\ applied'[1] = applied'[2]
  PROVE  Cli!CliInv'
<1> USE DEF Cli!CliInv
<1>1. /\ command' = "deployer" /\ args' = args /\ cli_pc' = "end" /\ cli_exit' = 0
      /\ cli_seen' = cli_seen \cup facts /\ cli_warnings' = cli_warnings \cup notes
      /\ verdicts' = (IF issues' = {} THEN {"deployer_v1"} ELSE {})
                       \cup (IF "idempotent" \in facts THEN {"idempotent_ok"} ELSE {})
  BY DEF Cli!Conclude, Cli!Report, Cli!asked
<1>2. issues' = {} => bad = {}
  BY DEF Cli!Conclude
<1>3. Cli!TypeOK'
  <2>1. verdicts' \subseteq {"deployer_v1", "idempotent_ok"}
    BY <1>1
  <2> QED BY <1>1, <2>1 DEF Cli!TypeOK, Cli!Basic
<1>4. Cli!Progress' /\ Cli!IdempotentMeansEqual'
  BY <1>1 DEF Cli!Progress, Cli!IdempotentMeansEqual
<1>5. Cli!VerdictsAreEarned' /\ Cli!VerdictsMatchIssues'
  BY <1>1, <1>2 DEF Cli!VerdictsAreEarned, Cli!VerdictsMatchIssues, Cli!Basic, Cli!Strong
<1> QED BY <1>1, <1>3, <1>4, <1>5, CliOwnVerdicts

(* Appending to a sequence that has one element at most, and has one.      *)
LEMMA SecondElement ==
  ASSUME NEW S, NEW s \in Seq(S), Len(s) <= 1, s # <<>>, NEW x \in S
  PROVE  Len(s) = 1 /\ Len(Append(s, x)) = 2 /\ Append(s, x)[1] = s[1] /\ Append(s, x)[2] = x
<1>1. Len(s) = 1
  BY EmptySeq
<1> QED BY <1>1, AppendProperties

(* check-deployer: --help, the configuration, and two applies.             *)
LEMMA CliDeployer ==
  ASSUME Cli!CliInv, Cli!Help \/ Cli!Apply PROVE Cli!CliInv'
<1> USE DEF Cli!CliInv
<1>1. command = "deployer" /\ cli_exit = -1 /\ cli_pc # "end" /\ issues = {} /\ UNCHANGED pack
      /\ verdicts = {} /\ applied \in Seq(DeployerOutputs) /\ Len(applied) <= 1
  BY DEF Cli!Help, Cli!Apply, Cli!TypeOK, Cli!Progress
<1>2. CASE Cli!Help
  <2>1. applied' = <<>> /\ applied = <<>>
    BY <1>2 DEF Cli!Help, Cli!Progress
  <2>2. CASE Cli!Error
    BY <1>1, <2>1, <2>2, CliError
  <2>3. CASE Cli!Conclude({"help"}, {}, {})
    BY <1>1, <2>1, <2>3, CliConclude
  <2>4. CASE "config" \notin args /\ Cli!Conclude({}, {"no_config"}, {"help"})
    BY <1>1, <2>1, <2>4, CliConclude
  <2>5. CASE "config" \in args /\ Cli!Conclude({"no_such_config"}, {}, {"help"})
    BY <1>1, <2>1, <2>5, CliConclude
  <2>6. CASE /\ "config" \in args /\ cli_seen' = {"help"} /\ Cli!Goto("apply")
             /\ UNCHANGED <<Cli!asked, issues, cli_warnings, verdicts>>
    <3>1. /\ command' = "deployer" /\ args' = args /\ cli_pc' = "apply" /\ cli_exit' = -1
          /\ verdicts' = {} /\ issues' = {}
      BY <1>1, <2>6 DEF Cli!Goto, Cli!asked
    <3>2. Cli!TypeOK'
      BY <1>1, <2>1, <3>1 DEF Cli!TypeOK
    <3>3. /\ Cli!Progress' /\ Cli!VerdictsAreEarned' /\ Cli!VerdictsMatchIssues'
          /\ Cli!IdempotentMeansEqual'
      BY <2>1, <2>6, <3>1 DEF Cli!Progress, Cli!VerdictsAreEarned, Cli!VerdictsMatchIssues,
         Cli!IdempotentMeansEqual
    <3> QED BY <3>1, <3>2, <3>3, CliOwnVerdicts
  <2> QED BY <1>2, <2>2, <2>3, <2>4, <2>5, <2>6 DEF Cli!Help
<1>3. CASE Cli!Apply
  <2>1. "help" \in cli_seen /\ "config" \in args /\ cli_pc = "apply"
    BY <1>3 DEF Cli!Apply, Cli!Progress
  <2>2. CASE Cli!Conclude({"not_idempotent"}, {}, {}) /\ UNCHANGED applied
    BY <1>1, <2>1, <2>2, CliConclude
  <2>3. CASE \E out \in DeployerOutputs :
               /\ applied' = Append(applied, out)
               /\ IF applied = <<>> THEN Cli!Goto("apply") /\ UNCHANGED <<Cli!asked, Cli!found>>
                  ELSE IF out = applied[1] THEN Cli!Conclude({}, {}, {"idempotent"})
                  ELSE Cli!Conclude({"not_idempotent"}, {}, {})
    <3>1. PICK out \in DeployerOutputs :
               /\ applied' = Append(applied, out)
               /\ IF applied = <<>> THEN Cli!Goto("apply") /\ UNCHANGED <<Cli!asked, Cli!found>>
                  ELSE IF out = applied[1] THEN Cli!Conclude({}, {}, {"idempotent"})
                  ELSE Cli!Conclude({"not_idempotent"}, {}, {})
      BY <2>3
    <3>2. applied' \in Seq(DeployerOutputs) /\ Len(applied') = Len(applied) + 1
      BY <1>1, <3>1
    <3>3. CASE applied = <<>>
      <4>1. /\ command' = "deployer" /\ args' = args /\ cli_pc' = "apply" /\ cli_exit' = -1
            /\ verdicts' = {} /\ issues' = {} /\ cli_seen' = cli_seen /\ Len(applied') = 1
        BY <1>1, <2>1, <3>1, <3>2, <3>3 DEF Cli!Goto, Cli!asked, Cli!found
      <4>2. Cli!TypeOK'
        BY <1>1, <3>2, <4>1 DEF Cli!TypeOK
      <4>3. /\ Cli!Progress' /\ Cli!VerdictsAreEarned' /\ Cli!VerdictsMatchIssues'
            /\ Cli!IdempotentMeansEqual'
        BY <2>1, <4>1 DEF Cli!Progress, Cli!VerdictsAreEarned, Cli!VerdictsMatchIssues,
           Cli!IdempotentMeansEqual
      <4> QED BY <4>1, <4>2, <4>3, CliOwnVerdicts
    <3>4. CASE applied # <<>>
      <4>1. Len(applied) = 1 /\ Len(applied') = 2 /\ applied'[1] = applied[1] /\ applied'[2] = out
        BY <1>1, <3>1, <3>4, SecondElement
      <4>2. CASE out = applied[1]
        BY <1>1, <2>1, <3>1, <3>2, <3>4, <4>1, <4>2, CliConclude
      <4>3. CASE out # applied[1]
        BY <1>1, <2>1, <3>1, <3>2, <3>4, <4>1, <4>3, CliConclude
      <4> QED BY <4>2, <4>3
    <3> QED BY <3>3, <3>4
  <2> QED BY <1>3, <2>2, <2>3 DEF Cli!Apply
<1> QED BY <1>2, <1>3

(* Every step preserves the invariant.                                     *)
LEMMA CliInvStep ==
  ASSUME Cli!CliInv, [Cli!Next]_(Cli!vars) PROVE Cli!CliInv'
<1>1. CASE UNCHANGED Cli!vars
  BY <1>1 DEF Cli!CliInv, Cli!vars, Cli!asked, Cli!found, Cli!TypeOK, Cli!Progress,
     Cli!VerdictsAreEarned, Cli!VerdictsMatchIssues, Cli!FullPacksAreSigned,
     Cli!SignatureIsOkOrWarned, Cli!EntryFlowsAreComplete, Cli!IdempotentMeansEqual
<1>2. CASE Cli!Next
  BY <1>2, CliCheckPack, CliCheckFlow, CliStat, CliComponent, CliRunner, CliDeployer
     DEF Cli!Next
<1> QED BY <1>1, <1>2

(* The command line (src/bin/greentic-conformance.rs) on any archives and  *)
(* deployers: a report always exits with 0, but its verdicts are given     *)
(* only after every trial that the flags ask for and never beside an       *)
(* issue; a full pack is signed, its entry flows are there once with all   *)
(* their files, and idempotent is what was applied twice with one output.  *)
THEOREM VerdictsMeanTrials == Spec => []VerdictsAreEarned
<1> DEFINE I == part = "cli" => Cli!CliInv
<1>1. Init => I
  BY CliStarts, CliInvInit
<1>2. I /\ [Next]_vars => I'
  BY CliSteps, CliInvStep
<1>3. I => VerdictsAreEarned
  BY DEF VerdictsAreEarned, Cli!CliInv
<1> HIDE DEF I
<1> QED BY <1>1, <1>2, <1>3, PTL DEF Spec

(***************************************************************************)
(* PolicySuite                                                             *)
(***************************************************************************)

(* The behaviour of this part is one of its module.                        *)
LEMMA PolicyStarts ==
  ASSUME Init, part = "policy" PROVE Policy!Init
  BY DEF Init

(* A step of Toolkit is one of the suite, or changes nothing of it.        *)
LEMMA PolicySteps ==
  ASSUME [Next]_vars, part' = "policy"
  PROVE  part = "policy" /\ [Policy!Next]_(Policy!vars)
<1>1. CASE Next
  BY <1>1 DEF Next, OthersStay
<1>2. CASE UNCHANGED vars
  BY <1>2 DEF vars, policyVars, Policy!vars, Policy!input, Policy!output
<1> QED BY <1>1, <1>2

(* What a configuration is.                                                *)
LEMMA PolicyConfigs ==
  ASSUME Policy!TypeOK
  PROVE  /\ policy_config.seeded \in Seq(SecretKeys) /\ policy_config.denied \in Seq(SecretKeys)
         /\ policy_config.messages \in
              Seq({policy_config.messages[n] : n \in DOMAIN policy_config.messages})
         /\ policy_config.attempts \in Nat /\ policy_config.base \in Nat
         /\ Modulus \in Nat \ {0}
<1>1. Policy!IsConfig(policy_config) /\ Modulus \in Nat \ {0}
  BY PolicyParameters DEF Policy!PolicyAssumption, Policy!TypeOK
<1>2. policy_config.attempts \in Nat /\ policy_config.base \in 0..Modulus - 1
  BY <1>1 DEF Policy!IsConfig
<1>3. policy_config.base \in Nat
  BY <1>1, <1>2
<1> QED BY <1>1, <1>2, <1>3 DEF Policy!IsConfig

(* Products and remainders: they stay in their range, a remainder of less  *)
(* than the modulus is the number itself, and products grow.               *)
LEMMA Remainders ==
  ASSUME NEW m \in Nat \ {0}, NEW b \in Nat, NEW n \in Nat
  PROVE  /\ (b * n) % m \in 0..m - 1
         /\ b * n < m => (b * n) % m = n * b
<1>1. b * n \in Nat /\ b * n = n * b
  OBVIOUS
<1>2. ASSUME NEW x \in Nat PROVE x % m \in 0..m - 1 /\ (x < m => x % m = x)
  OBVIOUS
<1> HIDE DEF Nat
<1> QED BY <1>1, <1>2

(* A product grows with its factor.                                        *)
LEMMA ProductsGrow ==
  ASSUME NEW a \in Nat, NEW b \in Nat, NEW n \in Nat, n <= a PROVE b * n <= a * b
<1>1. PICK d \in Nat : a = n + d
  BY n + (a - n) = a
<1>2. a * b = b * n + b * d
  BY <1>1
<1>3. b * d \in Nat /\ b * n \in Nat
  BY <1>1
<1> QED BY <1>2, <1>3

(* The loops have not begun.                                               *)
LEMMA PolicyInvInit ==
  ASSUME Policy!Init PROVE Policy!PolicyInv
<1>1. Policy!TypeOK
  <2>1. /\ granted \in Seq(SecretKeys)
        /\ denied \in Seq({"access_denied", "secret", "missing"})
        /\ schedule \in Seq(0..Modulus - 1)
    BY EmptySeq DEF Policy!Init
  <2>2. tenant \in [Policy!Fields -> {"none", "default", "own"}]
    BY DEF Policy!Init
  <2>3. Policy!IsConfig(policy_config)
    BY PolicyParameters DEF Policy!Init, Policy!PolicyAssumption
  <2>4. ci \in BOOLEAN /\ checked \in BOOLEAN /\ duplicate_detected \in BOOLEAN
    BY DEF Policy!Init
  <2>5. policy_pc = "detect" /\ policy_result = "running" /\ policy_i \in Nat \ {0} /\ store \subseteq SecretKeys
    BY DEF Policy!Init
  <2> QED BY <2>1, <2>2, <2>3, <2>4, <2>5 DEF Policy!TypeOK
<1>2. Policy!Loops /\ Policy!Delays
  BY DEF Policy!Init, Policy!Loops, Policy!Delays, Policy!Past
<1> QED BY <1>1, <1>2 DEF Policy!PolicyInv

(* A step of a loop keeps the types.                                       *)
LEMMA PolicyTypes ==
  ASSUME Policy!TypeOK, Policy!Loops, Policy!Next PROVE Policy!TypeOK'
<1> USE DEF Policy!TypeOK, Policy!Return, Policy!Goto, Policy!Again, Policy!input, Policy!output
<1>1. CASE Policy!Detect
  BY <1>1 DEF Policy!Detect, Policy!Value
<1>2. CASE Policy!Seed
  <2>1. Len(policy_config.seeded) \in Nat /\ policy_i \in Nat \ {0}
    BY PolicyConfigs
  <2>2. CASE policy_i > Len(policy_config.seeded)
    <3>1. denied = <<>> /\ Len(denied) = 0
      BY <1>2 DEF Policy!Seed, Policy!Loops
    <3> QED BY <1>2, <2>2, <3>1 DEF Policy!Seed
  <2>3. CASE ~(policy_i > Len(policy_config.seeded))
    <3>1. policy_config.seeded[policy_i] \in SecretKeys
      BY <2>1, <2>3, PolicyConfigs
    <3>2. /\ store' = store \cup {policy_config.seeded[policy_i]}
          /\ granted' = Append(granted, policy_config.seeded[policy_i])
          /\ policy_i' = policy_i + 1 /\ policy_pc' = policy_pc /\ policy_result' = policy_result
          /\ UNCHANGED <<policy_config, ci, checked, tenant, denied, duplicate_detected, schedule>>
      BY <1>2, <2>3 DEF Policy!Seed
    <3>3. store' \subseteq SecretKeys /\ granted' \in Seq(SecretKeys)
      BY <3>1, <3>2, AppendProperties
    <3>4. policy_pc = "seed" /\ policy_i' \in Nat \ {0}
      BY <1>2, <2>1, <3>2 DEF Policy!Seed
    <3> QED BY <3>2, <3>3, <3>4
  <2> QED BY <2>2, <2>3
<1>3. CASE Policy!Deny
  <2>1. CASE policy_i > Len(policy_config.denied)
    BY <1>3, <2>1 DEF Policy!Deny
  <2>2. CASE ~(policy_i > Len(policy_config.denied))
    <3>1. Policy!Get(policy_config.denied[policy_i]) \in {"access_denied", "secret", "missing"}
      BY DEF Policy!Get
    <3>2. /\ denied' = Append(denied, Policy!Get(policy_config.denied[policy_i]))
          /\ policy_i' = policy_i + 1 /\ policy_pc' = policy_pc /\ policy_result' = policy_result
          /\ UNCHANGED <<policy_config, ci, checked, tenant, store, granted,
                         duplicate_detected, schedule>>
      BY <1>3, <2>2 DEF Policy!Deny
    <3>3. /\ denied' \in Seq({"access_denied", "secret", "missing"})
          /\ Len(denied') = Len(denied) + 1
      BY <3>1, <3>2, AppendProperties
    <3>4. policy_pc = "deny" /\ policy_i' \in Nat \ {0} /\ Len(denied') = policy_i' - 1
      BY <1>3, <3>2, <3>3 DEF Policy!Deny
    <3> QED BY <3>2, <3>3, <3>4
  <2> QED BY <2>1, <2>2
<1>4. CASE Policy!Messages
  BY <1>4 DEF Policy!Messages
<1>5. CASE Policy!Duplicate
  BY <1>5 DEF Policy!Duplicate
<1>6. CASE Policy!Backoff
  <2>1. CASE UNCHANGED schedule
    BY <1>6, <2>1 DEF Policy!Backoff
  <2>2. CASE schedule' # schedule
    <3>1. Policy!Delay(policy_config.base, policy_i) \in 0..Modulus - 1
      BY PolicyConfigs, Remainders DEF Policy!Delay
    <3>2. /\ schedule' = Append(schedule, Policy!Delay(policy_config.base, policy_i))
          /\ policy_i' = policy_i + 1 /\ policy_pc' = policy_pc /\ policy_result' = policy_result
          /\ UNCHANGED <<policy_config, ci, checked, tenant, store, granted, denied,
                         duplicate_detected>>
      BY <1>6, <2>2 DEF Policy!Backoff
    <3>3. schedule' \in Seq(0..Modulus - 1)
      BY <3>1, <3>2, AppendProperties
    <3>4. policy_pc = "backoff" /\ policy_i' \in Nat \ {0}
      BY <1>6, <3>2 DEF Policy!Backoff
    <3> QED BY <3>2, <3>3, <3>4
  <2> QED BY <2>1, <2>2
<1> QED BY <1>1, <1>2, <1>3, <1>4, <1>5, <1>6 DEF Policy!Next

(* The tenant is settled before all the loops.                             *)
LEMMA PolicyDetect ==
  ASSUME Policy!PolicyInv, Policy!Detect PROVE Policy!Loops' /\ Policy!Delays'
<1> USE DEF Policy!PolicyInv
<1>1. /\ policy_pc = "detect" /\ policy_result = "running" /\ denied = <<>> /\ schedule = <<>>
      /\ UNCHANGED <<policy_config, ci, checked, store, granted, denied, policy_seen,
                     duplicate_detected, schedule>>
      /\ store = {} /\ policy_seen = {}
  BY DEF Policy!Detect, Policy!TypeOK, Policy!Loops, Policy!input, Policy!output
<1>2. \/ policy_pc' = "seed" /\ policy_i' = 1 /\ policy_result' = "running"
         /\ (ci => \A f \in Policy!Fields : tenant'[f] = "own")
      \/ policy_pc' = "end" /\ policy_result' = "tenant"
  BY <1>1 DEF Policy!Detect, Policy!Accepts, Policy!Value, Policy!Goto, Policy!Return
<1>3. CASE policy_pc' = "end" /\ policy_result' = "tenant"
  BY <1>3 DEF Policy!Loops, Policy!Delays, Policy!Past
<1>4. CASE /\ policy_pc' = "seed" /\ policy_i' = 1 /\ policy_result' = "running"
           /\ (ci => \A f \in Policy!Fields : tenant'[f] = "own")
  <2>1. store' = {policy_config'.seeded[n] : n \in 1..policy_i' - 1}
    BY <1>1, <1>4
  <2>2. policy_i' <= Len(policy_config'.seeded) + 1
    BY <1>1, <1>4, PolicyConfigs
  <2> QED BY <1>1, <1>4, <2>1, <2>2 DEF Policy!Loops, Policy!Delays, Policy!Past
<1> QED BY <1>2, <1>3, <1>4

(* The store has the keys that were put so far.                            *)
LEMMA PolicySeed ==
  ASSUME Policy!PolicyInv, Policy!Seed PROVE Policy!Loops' /\ Policy!Delays'
<1> USE DEF Policy!PolicyInv
<1> DEFINE n == Len(policy_config.seeded)
<1>1. /\ policy_pc = "seed" /\ policy_result = "running" /\ denied = <<>> /\ schedule = <<>>
      /\ UNCHANGED <<policy_config, ci, checked, tenant, denied, policy_seen,
                     duplicate_detected, schedule>>
      /\ policy_seen = {} /\ policy_i <= n + 1
      /\ store = {policy_config.seeded[k] : k \in 1..policy_i - 1}
      /\ (ci => \A f \in Policy!Fields : tenant[f] = "own")
  BY DEF Policy!Seed, Policy!TypeOK, Policy!Loops, Policy!Past, Policy!input, Policy!output
<1>2. n \in Nat /\ policy_i \in Nat \ {0} /\ DOMAIN policy_config.seeded = 1..n
      /\ Len(policy_config.denied) \in Nat
  BY PolicyConfigs DEF Policy!TypeOK
<1>3. CASE policy_i > n
  <2>1. policy_pc' = "deny" /\ policy_i' = 1 /\ policy_result' = "running" /\ store' = store
    BY <1>1, <1>3 DEF Policy!Seed, Policy!Goto
  <2>2. policy_i - 1 = n
    BY <1>1, <1>2, <1>3
  <2>3. store' = {policy_config'.seeded[k] : k \in DOMAIN policy_config'.seeded}
    BY <1>1, <1>2, <2>1, <2>2
  <2>4. DOMAIN denied' = {} /\ policy_i' <= Len(policy_config'.denied) + 1
    BY <1>1, <1>2, <2>1
  <2>5. UNCHANGED <<ci, tenant>> /\ policy_seen' = {} /\ schedule' = <<>>
    BY <1>1
  <2>6. Policy!Delays'
    BY <2>1 DEF Policy!Delays, Policy!Past
  <2>7. ci' => \A f \in Policy!Fields : tenant'[f] = "own"
    BY <1>1, <2>5
  <2> HIDE DEF Policy!PolicyInv
  <2>8. Policy!Loops'
    BY <2>1, <2>3, <2>4, <2>5, <2>7 DEF Policy!Loops, Policy!Past
  <2> QED BY <2>6, <2>8
<1>4. CASE ~(policy_i > n)
  <2>1. policy_pc' = "seed" /\ policy_i' = policy_i + 1 /\ policy_result' = "running"
        /\ store' = store \cup {policy_config.seeded[policy_i]}
    BY <1>1, <1>4 DEF Policy!Seed, Policy!Again
  <2>2. 1..policy_i' - 1 = (1..policy_i - 1) \cup {policy_i} /\ policy_i' <= n + 1
    BY <1>2, <1>4, <2>1
  <2>3. store' = {policy_config'.seeded[k] : k \in 1..policy_i' - 1}
    BY <1>1, <2>1, <2>2
  <2> QED BY <1>1, <2>1, <2>2, <2>3 DEF Policy!Loops, Policy!Delays, Policy!Past
<1> QED BY <1>3, <1>4

(* Each denial is what Get answers on the store that was seeded.           *)
LEMMA PolicyDeny ==
  ASSUME Policy!PolicyInv, Policy!Deny PROVE Policy!Loops' /\ Policy!Delays'
<1> USE DEF Policy!PolicyInv
<1> DEFINE n == Len(policy_config.denied)
<1>1. /\ policy_pc = "deny" /\ policy_result = "running" /\ schedule = <<>>
      /\ UNCHANGED <<policy_config, ci, checked, tenant, store, policy_seen,
                     duplicate_detected, schedule>>
      /\ policy_seen = {} /\ policy_i <= n + 1
      /\ store = {policy_config.seeded[k] : k \in DOMAIN policy_config.seeded}
      /\ \A k \in DOMAIN denied : denied[k] = Policy!Get(policy_config.denied[k])
      /\ (ci => \A f \in Policy!Fields : tenant[f] = "own")
  BY DEF Policy!Deny, Policy!TypeOK, Policy!Loops, Policy!Past, Policy!input, Policy!output
<1>2. n \in Nat /\ policy_i \in Nat \ {0} /\ Len(policy_config.messages) \in Nat
  BY PolicyConfigs DEF Policy!TypeOK
<1>3. denied \in Seq({"access_denied", "secret", "missing"}) /\ Len(denied) = policy_i - 1
  BY <1>1 DEF Policy!TypeOK
<1>4. \A key : Policy!Get(key)' = Policy!Get(key)
  BY <1>1 DEF Policy!Get
<1>5. CASE policy_i > n
  <2>1. policy_pc' = "messages" /\ policy_i' = 1 /\ policy_result' = "running" /\ denied' = denied
    BY <1>1, <1>5 DEF Policy!Deny, Policy!Goto
  <2>2. Len(denied) = n
    BY <1>1, <1>2, <1>3, <1>5
  <2>3. Policy!Distinct(policy_i - 1)'
    BY <1>1, <2>1 DEF Policy!Distinct
  <2> QED BY <1>1, <1>2, <1>4, <2>1, <2>2, <2>3 DEF Policy!Loops, Policy!Delays, Policy!Past
<1>6. CASE ~(policy_i > n)
  <2>1. policy_pc' = "deny" /\ policy_i' = policy_i + 1 /\ policy_result' = "running"
        /\ denied' = Append(denied, Policy!Get(policy_config.denied[policy_i]))
    BY <1>1, <1>6 DEF Policy!Deny, Policy!Again
  <2>2. policy_i' <= n + 1
    BY <1>2, <1>6, <2>1
  <2>3. Policy!Get(policy_config.denied[policy_i]) \in {"access_denied", "secret", "missing"}
    BY DEF Policy!Get
  <2>4. /\ DOMAIN denied = 1..policy_i - 1
        /\ DOMAIN denied' = 1..policy_i
        /\ \A k \in 1..policy_i - 1 : denied'[k] = denied[k]
        /\ denied'[policy_i] = Policy!Get(policy_config.denied[policy_i])
    <3>1. DOMAIN denied = 1..policy_i - 1
      BY <1>3, LenProperties
    <3>2. denied' \in Seq({"access_denied", "secret", "missing"}) /\ Len(denied') = policy_i
      BY <1>2, <1>3, <2>1, <2>3, AppendProperties
    <3>3. DOMAIN denied' = 1..policy_i
      BY <3>2, LenProperties
    <3>4. /\ \A k \in 1..Len(denied) : denied'[k] = denied[k]
          /\ denied'[Len(denied) + 1] = Policy!Get(policy_config.denied[policy_i])
      BY <1>3, <2>1, <2>3, AppendProperties
    <3> QED BY <1>2, <1>3, <3>1, <3>3, <3>4
  <2>5. \A k \in DOMAIN denied' : denied'[k] = Policy!Get(policy_config.denied[k])'
    BY <1>1, <1>2, <1>4, <2>4
  <2> QED BY <1>1, <2>1, <2>2, <2>5 DEF Policy!Loops, Policy!Delays, Policy!Past
<1> QED BY <1>5, <1>6

(* The messages seen so far differ.                                        *)
LEMMA PolicyMessages ==
  ASSUME Policy!PolicyInv, Policy!Messages PROVE Policy!Loops' /\ Policy!Delays'
<1> USE DEF Policy!PolicyInv
<1> DEFINE n == Len(policy_config.messages)
           Id(k) == Policy!Identity(policy_config.messages[k])
<1>1. /\ policy_pc = "messages" /\ policy_result = "running" /\ schedule = <<>>
      /\ UNCHANGED <<policy_config, ci, checked, tenant, store, denied,
                     duplicate_detected, schedule>>
      /\ policy_i <= n + 1 /\ Policy!Distinct(policy_i - 1)
      /\ store = {policy_config.seeded[k] : k \in DOMAIN policy_config.seeded}
      /\ \A k \in DOMAIN denied : denied[k] = Policy!Get(policy_config.denied[k])
      /\ Len(denied) = Len(policy_config.denied)
      /\ (ci => \A f \in Policy!Fields : tenant[f] = "own")
  BY DEF Policy!Messages, Policy!TypeOK, Policy!Loops, Policy!Past, Policy!input, Policy!output
<1>2. n \in Nat /\ policy_i \in Nat \ {0}
  BY PolicyConfigs DEF Policy!TypeOK
<1>3. \A key : Policy!Get(key)' = Policy!Get(key)
  BY <1>1 DEF Policy!Get
<1>4. \A k : Policy!Identity(policy_config.messages[k])' = Id(k)
  BY <1>1 DEF Policy!Identity
<1>5. CASE policy_i > n
  <2>1. policy_pc' = "duplicate" /\ policy_result' = "running" /\ policy_seen' = policy_seen
    BY <1>1, <1>5 DEF Policy!Messages, Policy!Goto
  <2>2. policy_i - 1 = n
    BY <1>1, <1>2, <1>5
  <2>3. Policy!Distinct(n)'
    BY <1>1, <2>1, <2>2 DEF Policy!Distinct, Policy!Identity
  <2> QED BY <1>1, <1>3, <2>1, <2>3 DEF Policy!Loops, Policy!Delays, Policy!Past
<1>6. CASE ~(policy_i > n) /\ Id(policy_i) \in policy_seen
  <2>1. policy_pc' = "end" /\ policy_result' = "messages"
    BY <1>1, <1>6 DEF Policy!Messages, Policy!Return
  <2> QED BY <2>1 DEF Policy!Loops, Policy!Delays, Policy!Past
<1>7. CASE ~(policy_i > n) /\ Id(policy_i) \notin policy_seen
  <2>1. policy_pc' = "messages" /\ policy_i' = policy_i + 1 /\ policy_result' = "running"
        /\ policy_seen' = policy_seen \cup {Id(policy_i)}
    BY <1>1, <1>7 DEF Policy!Messages, Policy!Again
  <2>2. policy_i' <= n + 1 /\ 1..policy_i' - 1 = (1..policy_i - 1) \cup {policy_i}
        /\ policy_i' - 1 = policy_i
    BY <1>2, <1>7, <2>1
  <2>3. policy_seen' = {Id(k) : k \in 1..policy_i}
    BY <1>1, <2>1, <2>2 DEF Policy!Distinct
  <2>4. \A k, l \in 1..policy_i : Id(k) = Id(l) => k = l
    BY <1>1, <1>7, <2>2 DEF Policy!Distinct
  <2>5. Policy!Distinct(policy_i - 1)'
    BY <1>1, <1>4, <2>2, <2>3, <2>4 DEF Policy!Distinct
  <2> QED BY <1>1, <1>3, <2>1, <2>2, <2>5 DEF Policy!Loops, Policy!Delays, Policy!Past
<1> QED BY <1>5, <1>6, <1>7

(* The duplicate is compared with all the messages, by its id.             *)
LEMMA PolicyDuplicate ==
  ASSUME Policy!PolicyInv, Policy!Duplicate PROVE Policy!Loops' /\ Policy!Delays'
<1> USE DEF Policy!PolicyInv
<1>1. /\ policy_pc = "duplicate" /\ policy_result = "running" /\ schedule = <<>>
      /\ UNCHANGED <<policy_config, ci, checked, tenant, store, denied, policy_seen, schedule>>
      /\ store = {policy_config.seeded[k] : k \in DOMAIN policy_config.seeded}
      /\ \A k \in DOMAIN denied : denied[k] = Policy!Get(policy_config.denied[k])
      /\ Len(denied) = Len(policy_config.denied)
      /\ Policy!Distinct(Len(policy_config.messages))
      /\ (ci => \A f \in Policy!Fields : tenant[f] = "own")
  BY DEF Policy!Duplicate, Policy!TypeOK, Policy!Loops, Policy!Past, Policy!input, Policy!output
<1>2. policy_pc' = "backoff" /\ policy_i' = 1 /\ policy_result' = "running"
      /\ (duplicate_detected' <=>
            \E d \in policy_config.duplicate : Policy!Identity(d) \in policy_seen)
  BY <1>1 DEF Policy!Duplicate, Policy!Goto
<1>3. \A key : Policy!Get(key)' = Policy!Get(key)
  BY <1>1 DEF Policy!Get
<1>4. Policy!Distinct(Len(policy_config.messages))'
  BY <1>1 DEF Policy!Distinct, Policy!Identity
<1>5. duplicate_detected' <=> (\E d \in policy_config.duplicate : Policy!Identity(d) \in policy_seen)'
  BY <1>1, <1>2 DEF Policy!Identity
<1>6. Policy!Loops'
  BY <1>1, <1>2, <1>3, <1>4, <1>5 DEF Policy!Loops, Policy!Past
<1>7. Len(schedule') = policy_i' - 1 /\ DOMAIN schedule' = {}
      /\ policy_i' <= policy_config'.attempts + 1
  BY <1>1, <1>2, PolicyConfigs
<1> QED BY <1>2, <1>6, <1>7 DEF Policy!Delays, Policy!Past

(* The schedule has the delays that were computed.                         *)
LEMMA PolicyBackoff ==
  ASSUME Policy!PolicyInv, Policy!Backoff PROVE Policy!Loops' /\ Policy!Delays'
<1> USE DEF Policy!PolicyInv
<1> DEFINE n == policy_config.attempts
           b == policy_config.base
<1>1. /\ policy_pc = "backoff" /\ policy_result = "running"
      /\ UNCHANGED <<policy_config, ci, checked, tenant, store, denied, policy_seen,
                     duplicate_detected>>
      /\ store = {policy_config.seeded[k] : k \in DOMAIN policy_config.seeded}
      /\ \A k \in DOMAIN denied : denied[k] = Policy!Get(policy_config.denied[k])
      /\ Len(denied) = Len(policy_config.denied)
      /\ Policy!Distinct(Len(policy_config.messages))
      /\ (ci => \A f \in Policy!Fields : tenant[f] = "own")
      /\ (duplicate_detected <=>
            \E d \in policy_config.duplicate : Policy!Identity(d) \in policy_seen)
      /\ policy_pc' \in {"backoff", "end"} /\ policy_result' \in {"running", "report", "panic"}
  BY DEF Policy!Backoff, Policy!TypeOK, Policy!Loops, Policy!Past, Policy!input, Policy!output,
     Policy!Return, Policy!Again
<1>2. Policy!Loops'
  <2>1. \A key : Policy!Get(key)' = Policy!Get(key)
    BY <1>1 DEF Policy!Get
  <2>2. Policy!Distinct(Len(policy_config.messages))'
    BY <1>1 DEF Policy!Distinct, Policy!Identity
  <2>3. duplicate_detected' <=> (\E d \in policy_config.duplicate : Policy!Identity(d) \in policy_seen)'
    BY <1>1 DEF Policy!Identity
  <2> QED BY <1>1, <2>1, <2>2, <2>3 DEF Policy!Loops, Policy!Past
<1>3. /\ Len(schedule) = policy_i - 1 /\ policy_i <= n + 1 /\ policy_i \in Nat \ {0}
      /\ \A k \in DOMAIN schedule : /\ schedule[k] = Policy!Delay(b, k)
                                    /\ checked => b * k < Modulus
      /\ schedule \in Seq(0..Modulus - 1) /\ n \in Nat /\ b \in Nat
  BY <1>1, PolicyConfigs DEF Policy!Delays, Policy!Past, Policy!TypeOK
<1>4. CASE policy_i > n
  <2>1. policy_result' = "report" /\ policy_pc' = "end" /\ schedule' = schedule
    BY <1>1, <1>4 DEF Policy!Backoff, Policy!Return
  <2>2. Len(schedule) = n
    BY <1>3, <1>4
  <2>3. \A k \in DOMAIN schedule' : /\ schedule'[k] = Policy!Delay(b, k)'
                                    /\ checked' => b' * k < Modulus
    BY <1>1, <1>3, <2>1 DEF Policy!Delay
  <2> QED BY <1>1, <1>2, <2>1, <2>2, <2>3 DEF Policy!Delays, Policy!Past
<1>5. CASE ~(policy_i > n) /\ checked /\ b * policy_i >= Modulus
  <2>1. policy_result' = "panic" /\ policy_pc' = "end"
    BY <1>1, <1>5 DEF Policy!Backoff, Policy!Return
  <2> QED BY <1>2, <2>1 DEF Policy!Delays, Policy!Past
<1>6. CASE ~(policy_i > n) /\ ~(checked /\ b * policy_i >= Modulus)
  <2>1. policy_pc' = "backoff" /\ policy_i' = policy_i + 1 /\ policy_result' = "running"
        /\ schedule' = Append(schedule, Policy!Delay(b, policy_i))
    BY <1>1, <1>6 DEF Policy!Backoff, Policy!Again
  <2>2. Policy!Delay(b, policy_i) \in 0..Modulus - 1
    BY <1>3, PolicyConfigs, Remainders DEF Policy!Delay
  <2>3. checked => b * policy_i < Modulus
    BY <1>3, <1>6, PolicyConfigs
  <2>4. /\ DOMAIN schedule = 1..policy_i - 1 /\ DOMAIN schedule' = 1..policy_i
        /\ Len(schedule') = policy_i
        /\ \A k \in 1..policy_i - 1 : schedule'[k] = schedule[k]
        /\ schedule'[policy_i] = Policy!Delay(b, policy_i)
    <3>1. DOMAIN schedule = 1..policy_i - 1
      BY <1>3, LenProperties
    <3>2. schedule' \in Seq(0..Modulus - 1) /\ Len(schedule') = policy_i
      BY <1>3, <2>1, <2>2, AppendProperties
    <3>3. DOMAIN schedule' = 1..policy_i
      BY <3>2, LenProperties
    <3>4. /\ \A k \in 1..Len(schedule) : schedule'[k] = schedule[k]
          /\ schedule'[Len(schedule) + 1] = Policy!Delay(b, policy_i)
      BY <1>3, <2>1, <2>2, AppendProperties
    <3> QED BY <1>3, <3>1, <3>2, <3>3, <3>4
  <2>5. \A k \in DOMAIN schedule' : /\ schedule'[k] = Policy!Delay(b, k)'
                                    /\ checked' => b' * k < Modulus
    <3> SUFFICES ASSUME NEW k \in 1..policy_i
                 PROVE  schedule'[k] = Policy!Delay(b, k) /\ (checked => b * k < Modulus)
      BY <1>1, <2>4 DEF Policy!Delay
    <3>1. CASE k = policy_i
      BY <2>3, <2>4, <3>1
    <3>2. CASE k \in 1..policy_i - 1
      BY <1>3, <2>4, <3>2
    <3> QED BY <1>3, <3>1, <3>2
  <2>6. Len(schedule') = policy_i' - 1 /\ policy_i' <= policy_config'.attempts + 1
    BY <1>1, <1>3, <1>6, <2>1, <2>4
  <2> QED BY <1>1, <1>2, <2>1, <2>5, <2>6 DEF Policy!Delays, Policy!Past
<1> QED BY <1>4, <1>5, <1>6

(* Every step preserves the invariant.                                     *)
LEMMA PolicyInvStep ==
  ASSUME Policy!PolicyInv, [Policy!Next]_(Policy!vars) PROVE Policy!PolicyInv'
<1>1. CASE UNCHANGED Policy!vars
  BY <1>1 DEF Policy!PolicyInv, Policy!vars, Policy!input, Policy!output, Policy!TypeOK,
     Policy!Loops, Policy!Delays, Policy!Past, Policy!Distinct, Policy!Identity, Policy!Get,
     Policy!Delay
<1>2. CASE Policy!Next
  <2>1. Policy!TypeOK'
    BY <1>2, PolicyTypes DEF Policy!PolicyInv
  <2>2. Policy!Loops' /\ Policy!Delays'
    BY <1>2, PolicyDetect, PolicySeed, PolicyDeny, PolicyMessages, PolicyDuplicate, PolicyBackoff
       DEF Policy!Next
  <2> QED BY <2>1, <2>2 DEF Policy!PolicyInv
<1> QED BY <1>1, <1>2

(* What the loops have done is what the report is to tell.                 *)
LEMMA PolicyTells ==
  ASSUME Policy!PolicyInv
  PROVE  Policy!CiHasNoDefaults /\ Policy!DenialsTellAccess /\ Policy!DuplicatesAreById
<1> USE DEF Policy!PolicyInv, Policy!Past
<1>1. Policy!CiHasNoDefaults
  BY DEF Policy!Loops, Policy!CiHasNoDefaults
<1>2. Policy!DenialsTellAccess
  <2> SUFFICES ASSUME policy_result = "report", NEW n \in DOMAIN policy_config.denied
               PROVE  denied[n] = "secret" <=>
                        /\ \E p \in policy_config.prefixes : policy_config.denied[n] \in p
                        /\ \E s \in DOMAIN policy_config.seeded :
                             policy_config.seeded[s] = policy_config.denied[n]
    BY DEF Policy!DenialsTellAccess
  <2>1. /\ store = {policy_config.seeded[k] : k \in DOMAIN policy_config.seeded}
        /\ \A k \in DOMAIN denied : denied[k] = Policy!Get(policy_config.denied[k])
        /\ Len(denied) = Len(policy_config.denied)
    BY DEF Policy!Loops
  <2>2. n \in DOMAIN denied
    <3>1. denied \in Seq({"access_denied", "secret", "missing"})
      BY DEF Policy!TypeOK
    <3> QED BY <2>1, <3>1, PolicyConfigs, LenProperties
  <2> QED BY <2>1, <2>2 DEF Policy!Get
<1>3. Policy!DuplicatesAreById
  <2> SUFFICES ASSUME policy_result = "report"
               PROVE  /\ \A m, n \in DOMAIN policy_config.messages :
                           m # n => policy_config.messages[m].id # policy_config.messages[n].id
                      /\ duplicate_detected <=>
                           \E d \in policy_config.duplicate, n \in DOMAIN policy_config.messages :
                             d.id = policy_config.messages[n].id
    BY DEF Policy!DuplicatesAreById
  <2>1. /\ Policy!Distinct(Len(policy_config.messages))
        /\ duplicate_detected <=>
             \E d \in policy_config.duplicate : Policy!Identity(d) \in policy_seen
    BY DEF Policy!Loops
  <2>2. DOMAIN policy_config.messages = 1..Len(policy_config.messages)
    BY PolicyConfigs, LenProperties
  <2> QED BY <2>1, <2>2 DEF Policy!Distinct, Policy!Identity
<1> QED BY <1>1, <1>2, <1>3

(* A schedule whose last delay fits has all of them as products; one whose *)
(* last delay does not has at least that one wrapped.                      *)
LEMMA PolicyIsLinear ==
  ASSUME Policy!PolicyInv PROVE Policy!BackoffIsLinear
<1> DEFINE a == policy_config.attempts
           b == policy_config.base
<1> SUFFICES ASSUME policy_result = "report"
             PROVE  /\ Len(schedule) = a
                    /\ (\A n \in DOMAIN schedule : schedule[n] = n * b) <=> (a * b < Modulus)
                    /\ checked => a * b < Modulus
  BY DEF Policy!BackoffIsLinear
<1>1. /\ Len(schedule) = a /\ schedule \in Seq(0..Modulus - 1)
      /\ \A n \in DOMAIN schedule : /\ schedule[n] = Policy!Delay(b, n)
                                    /\ checked => b * n < Modulus
      /\ a \in Nat /\ b \in Nat /\ Modulus \in Nat \ {0}
  BY PolicyConfigs DEF Policy!PolicyInv, Policy!Delays, Policy!Past, Policy!TypeOK
<1>2. DOMAIN schedule = 1..a /\ \A n \in 1..a : schedule[n] \in 0..Modulus - 1
  BY <1>1, LenProperties
<1> HIDE DEF a, b
<1>3. a = 0 => a * b < Modulus
  BY <1>1
<1>4. ASSUME a * b < Modulus, NEW n \in 1..a PROVE schedule[n] = n * b
  <2>1. n \in Nat /\ n <= a
    BY <1>1
  <2>2. b * n <= a * b
    BY <1>1, <2>1, ProductsGrow
  <2>3. b * n < Modulus
    <3>1. b * n \in Int /\ a * b \in Int
      BY <1>1, <2>1
    <3> DEFINE x == b * n
               y == a * b
    <3>2. x \in Int /\ y \in Int /\ Modulus \in Int /\ x <= y /\ y < Modulus
      BY <1>1, <1>4, <2>2, <3>1
    <3> HIDE DEF x, y
    <3>3. x < Modulus
      BY <3>2
    <3> QED BY <3>3 DEF x
  <2>4. (b * n) % Modulus = n * b
    BY <1>1, <2>1, <2>3, Remainders
  <2> QED BY <1>1, <1>2, <2>4 DEF Policy!Delay
<1>5. ASSUME \A n \in 1..a : schedule[n] = n * b PROVE a * b < Modulus
  <2>1. CASE a \in 1..a
    <3>1. a * b \in 0..Modulus - 1
      BY <1>2, <1>5, <2>1
    <3> QED BY <1>1, <3>1
  <2> QED BY <1>1, <1>3, <2>1
<1>6. checked => a * b < Modulus
  <2>1. CASE a \in 1..a /\ checked
    <3>1. b * a < Modulus /\ b * a = a * b
      BY <1>1, <1>2, <2>1
    <3> QED BY <3>1
  <2> QED BY <1>1, <1>3, <2>1
<1> QED BY <1>1, <1>2, <1>4, <1>5, <1>6

(* The policy suite (src/suites/policy.rs, src/env.rs) on any              *)
(* configuration: in CI no report has a default tenant; a denied key reads *)
(* as a secret exactly when it is both allowed and seeded; a duplicate is  *)
(* detected by its id; the backoff schedule is linear exactly when its     *)
(* last delay fits in an integer.                                          *)
THEOREM PolicyReports == Spec => []PolicyReportIsTrue
<1> DEFINE I == part = "policy" => Policy!PolicyInv
<1>1. Init => I
  BY PolicyStarts, PolicyInvInit
<1>2. I /\ [Next]_vars => I'
  BY PolicySteps, PolicyInvStep
<1>3. I => PolicyReportIsTrue
  BY PolicyTells, PolicyIsLinear DEF PolicyReportIsTrue, Policy!PolicyInv
<1> HIDE DEF I
<1> QED BY <1>1, <1>2, <1>3, PTL DEF Spec

(***************************************************************************)
(* FlowSuite                                                               *)
(***************************************************************************)

(* The behaviour of this part is one of its module.                        *)
LEMMA FlowStarts ==
  ASSUME Init, part = "flow" PROVE Flow!Init
  BY DEF Init

(* A step of Toolkit is one of the suite, or changes nothing of it.        *)
LEMMA FlowSteps ==
  ASSUME [Next]_vars, part' = "flow"
  PROVE  part = "flow" /\ [Flow!Next]_(Flow!vars)
<1>1. CASE Next
  BY <1>1 DEF Next, OthersStay
<1>2. CASE UNCHANGED vars
  BY <1>2 DEF vars, flowVars, Flow!vars, Flow!input, Flow!walk
<1> QED BY <1>1, <1>2

(* The library's facts on Cardinality are those of each instance.          *)
LEMMA FlowCardinality ==
  ASSUME NEW S PROVE Flow!Cardinality(S) = Cardinality(S)
  BY DEF Flow!Cardinality, Cardinality, Flow!IsFiniteSet, IsFiniteSet

(* What there is in a folder: the nodes of a document are a sequence, and  *)
(* the targets of a node one sequence or none.                             *)
LEMMA FlowDocuments ==
  ASSUME folder \in Folders, NEW p \in DOMAIN folder
  PROVE  LET d == folder[p].doc
         IN  /\ Len(d.nodes) \in Nat /\ DOMAIN d.nodes = 1..Len(d.nodes)
             /\ \A i \in DOMAIN d.nodes :
                  /\ d.nodes[i].kind \in Flow!Kinds
                  /\ \A to \in d.nodes[i].to :
                       d.nodes[i].to = {to} /\ (to # <<>> => 1 \in DOMAIN to)
<1> DEFINE d == folder[p].doc
<1>1. Flow!IsDocument(d)
  BY FlowParameters DEF Flow!FoldersAssumption, Flow!IsEntry
<1>2. /\ Flow!IsSequence(d.nodes)
      /\ \A i \in DOMAIN d.nodes : Flow!IsNode(d.nodes[i])
  BY <1>1 DEF Flow!IsDocument
<1>3. d.nodes \in Seq(Flow!Range(d.nodes))
  BY <1>2 DEF Flow!IsSequence
<1>4. Len(d.nodes) \in Nat /\ DOMAIN d.nodes = 1..Len(d.nodes)
  BY <1>3, LenProperties
<1>5. ASSUME NEW i \in DOMAIN d.nodes, NEW to \in d.nodes[i].to
      PROVE  d.nodes[i].to = {to} /\ (to # <<>> => 1 \in DOMAIN to)
  <2>1. d.nodes[i].to = {to} /\ Flow!IsSequence(to)
    BY <1>2, <1>5 DEF Flow!IsNode
  <2>2. to \in Seq(Flow!Range(to))
    BY <2>1 DEF Flow!IsSequence
  <2>3. to # <<>> => Len(to) \in Nat \ {0} /\ DOMAIN to = 1..Len(to)
    BY <2>2, EmptySeq, LenProperties
  <2> QED BY <2>1, <2>3
<1>6. \A i \in DOMAIN d.nodes : d.nodes[i].kind \in Flow!Kinds
  BY <1>2 DEF Flow!IsNode
<1> QED BY <1>4, <1>5, <1>6

(* The files that are to be validated are those of the folder.             *)
LEMMA FlowRest ==
  ASSUME UNCHANGED <<folder, options>>
  PROVE  Flow!ToValidate' = Flow!ToValidate /\ (\A p : Flow!Doc(p)' = Flow!Doc(p))
  BY DEF Flow!ToValidate, Flow!Allowed, Flow!Doc

(* The walk begins.                                                        *)
LEMMA FlowInvInit ==
  ASSUME Flow!Init PROVE Flow!FlowInv
  BY DEF Flow!Init, Flow!FlowInv, Flow!TypeOK, Flow!Walked, Flow!ReportCoversWhatIsVisible,
     Flow!RefusalHasAFault

(* The walk comes to an entry: it is passed over, opened or not opened.    *)
LEMMA FlowVisit ==
  ASSUME Flow!FlowInv, Flow!Visit PROVE Flow!FlowInv'
<1> USE DEF Flow!FlowInv
<1>1. PICK p \in DOMAIN folder \ visited :
        visited' = visited \cup {p} /\ (Flow!Skip(p) \/ Flow!Open(p))
  BY DEF Flow!Visit
<1>2. /\ UNCHANGED <<folder, options>> /\ flow_pc = "walk" /\ flow_result = "running"
      /\ visited \subseteq DOMAIN folder /\ flows = Flow!ToValidate \cap visited
      /\ (any_files <=> flows # {}) /\ any_files \in BOOLEAN
      /\ \A q \in flows : Flow!Sound(Flow!Doc(q))
  BY DEF Flow!Visit, Flow!input, Flow!TypeOK, Flow!Walked
<1>3. Flow!ToValidate' = Flow!ToValidate /\ (\A q : Flow!Doc(q)' = Flow!Doc(q))
  BY <1>2, FlowRest
<1>4. flows' = flows /\ \A q \in flows' : Flow!Sound(Flow!Doc(q))'
  <2>1. flows' = flows
    BY <1>1 DEF Flow!Skip, Flow!Open
  <2> QED BY <1>2, <2>1 DEF Flow!Doc
<1>5. CASE Flow!Skip(p)
  <2>1. /\ UNCHANGED <<any_files, flows, flow_pc, flow_result>> /\ p \notin Flow!ToValidate
    BY <1>5 DEF Flow!Skip, Flow!ToValidate
  <2>2. Flow!ToValidate \cap visited' = Flow!ToValidate \cap visited
    BY <1>1, <2>1
  <2>3. Flow!TypeOK'
    BY <1>1, <1>2, <2>1 DEF Flow!TypeOK
  <2>4. Flow!Walked'
    BY <1>2, <1>3, <1>4, <2>1, <2>2 DEF Flow!Walked
  <2>5. Flow!ReportCoversWhatIsVisible' /\ Flow!RefusalHasAFault'
    BY <1>2, <2>1 DEF Flow!ReportCoversWhatIsVisible, Flow!RefusalHasAFault
  <2> QED BY <1>2, <2>3, <2>4, <2>5
<1>6. CASE Flow!Open(p)
  <2>1. /\ any_files' = TRUE /\ flows' = flows /\ p \in Flow!ToValidate
    BY <1>6 DEF Flow!Open, Flow!ToValidate
  <2>2. Flow!ToValidate \cap visited' # {}
    BY <1>1, <2>1
  <2>3. flows = (Flow!ToValidate \cap visited') \ {p} /\ p \notin flows
    BY <1>1, <1>2
  <2>4. CASE /\ current' = p /\ at' = 1 /\ seen_ids' = {} /\ Flow!Goto("header")
    <3>1. flow_pc' = "header" /\ flow_result' = "running"
      BY <1>2, <2>4 DEF Flow!Goto
    <3>2. Flow!Flow' = folder[p].doc
      BY <1>2, <2>4 DEF Flow!Flow
    <3>3. at' \in 1..Len(Flow!Flow') + 1
      BY <1>2, <2>4, <3>2, FlowDocuments
    <3>4. current' \in visited' \ flows' /\ visited' \subseteq DOMAIN folder'
      BY <1>1, <1>2, <2>1, <2>3, <2>4
    <3>5. Flow!TypeOK'
      BY <1>2, <2>1, <2>3, <2>4, <3>1, <3>3, <3>4 DEF Flow!TypeOK
    <3>6. Flow!Walked'
      BY <1>3, <1>4, <2>1, <2>2, <2>3, <2>4, <3>1 DEF Flow!Walked
    <3>7. Flow!ReportCoversWhatIsVisible' /\ Flow!RefusalHasAFault'
      BY <3>1 DEF Flow!ReportCoversWhatIsVisible, Flow!RefusalHasAFault
    <3> QED BY <1>2, <3>5, <3>6, <3>7
  <2>5. CASE \/ ~Flow!Parses(p) /\ Flow!Return("parse") /\ UNCHANGED <<current, at, seen_ids>>
             \/ Flow!Return("read") /\ UNCHANGED <<current, at, seen_ids>>
    <3>1. /\ flow_pc' = "end" /\ flow_result' \in {"parse", "read"}
          /\ flow_result' = "parse" => folder[p].text # "json"
      BY <2>5 DEF Flow!Return, Flow!Parses
    <3>2. visited' \subseteq DOMAIN folder' /\ flows' \subseteq visited'
      BY <1>1, <1>2, <2>1
    <3>3. Flow!TypeOK'
      BY <2>1, <3>1, <3>2 DEF Flow!TypeOK
    <3>4. Flow!Walked'
      BY <1>3, <1>4, <2>1, <2>2, <3>1 DEF Flow!Walked
    <3>5. flow_result' = "parse" => \E q \in Flow!ToValidate' \ flows' : folder'[q].text # "json"
      BY <1>2, <1>3, <2>1, <2>3, <3>1
    <3>6. Flow!ReportCoversWhatIsVisible' /\ Flow!RefusalHasAFault'
      BY <3>1, <3>5 DEF Flow!ReportCoversWhatIsVisible, Flow!RefusalHasAFault
    <3> QED BY <1>2, <3>3, <3>4, <3>6
  <2> QED BY <1>6, <2>4, <2>5 DEF Flow!Open
<1> QED BY <1>1, <1>5, <1>6

(* The walk has come to every entry.                                       *)
LEMMA FlowWalkEnds ==
  ASSUME Flow!FlowInv, Flow!WalkEnds PROVE Flow!FlowInv'
<1> USE DEF Flow!FlowInv
<1>1. /\ UNCHANGED <<folder, options, visited, any_files, flows>> /\ visited = DOMAIN folder
      /\ flow_pc' = "end" /\ flow_result' \in {"no_such_path", "report", "no_flows"}
      /\ flow_result' = "report" => any_files
      /\ flow_result' = "no_flows" => ~any_files
      /\ flow_pc = "walk"
  BY DEF Flow!WalkEnds, Flow!input, Flow!walk, Flow!Return
<1>2. Flow!ToValidate' = Flow!ToValidate /\ (\A q : Flow!Doc(q)' = Flow!Doc(q))
  BY <1>1, FlowRest
<1>3. Flow!ToValidate \cap visited = Flow!ToValidate
  BY <1>1 DEF Flow!ToValidate
<1>4. Flow!TypeOK'
  BY <1>1 DEF Flow!TypeOK
<1>5. Flow!Walked'
  <2>1. \A p \in flows' : Flow!Sound(Flow!Doc(p))'
    BY <1>1 DEF Flow!Walked, Flow!Doc
  <2> QED BY <1>1, <1>2, <2>1 DEF Flow!Walked
<1>6. Flow!ReportCoversWhatIsVisible' /\ Flow!RefusalHasAFault'
  BY <1>1, <1>2, <1>3 DEF Flow!Walked, Flow!ReportCoversWhatIsVisible, Flow!RefusalHasAFault
<1> QED BY <1>1, <1>4, <1>5, <1>6

(* While a document is validated only its own progress changes.            *)
LEMMA FlowValidates ==
  ASSUME Flow!FlowInv, flow_pc \in {"header", "node", "validators"},
         UNCHANGED <<folder, options, visited, any_files, flows, current>>
  PROVE  /\ current \in Flow!ToValidate /\ current \in DOMAIN folder
         /\ current \in visited \ flows
         /\ Flow!Flow' = Flow!Flow /\ Flow!Flow = folder[current].doc
         /\ visited' \subseteq DOMAIN folder' /\ flows' \subseteq visited' /\ any_files' \in BOOLEAN
         /\ current' \in Flow!ToValidate'
         /\ flows' = (Flow!ToValidate' \cap visited') \ {current'}
         /\ any_files' <=> Flow!ToValidate' \cap visited' # {}
         /\ \A p \in flows' : Flow!Sound(Flow!Doc(p))'
<1>1. Flow!ToValidate' = Flow!ToValidate
  BY FlowRest
<1>2. current \in Flow!ToValidate /\ current \in visited \ flows /\ visited \subseteq DOMAIN folder
      /\ flows \subseteq visited /\ any_files \in BOOLEAN
  BY DEF Flow!FlowInv, Flow!TypeOK, Flow!Walked
<1>3. Flow!Flow' = Flow!Flow /\ Flow!Flow = folder[current].doc
  BY DEF Flow!Flow
<1>4. \A p \in flows' : Flow!Sound(Flow!Doc(p))'
  BY DEF Flow!FlowInv, Flow!Walked, Flow!Doc
<1>5. /\ flows = (Flow!ToValidate \cap visited) \ {current}
      /\ any_files <=> Flow!ToValidate \cap visited # {}
  BY DEF Flow!FlowInv, Flow!Walked
<1> QED BY <1>1, <1>2, <1>3, <1>4, <1>5

(* A document is refused: the fault that is claimed of it is in it.        *)
LEMMA FlowRefuses ==
  ASSUME Flow!FlowInv, flow_pc \in {"header", "node", "validators"},
         UNCHANGED <<folder, options, visited, any_files, flows, current>>,
         flow_pc' = "end", flow_result' \in {"flow", "validator"},
         flow_result' = "flow" => Flow!RefusalHasAFault'
  PROVE  Flow!FlowInv'
<1>1. Flow!TypeOK'
  BY FlowValidates DEF Flow!TypeOK
<1>2. Flow!Walked'
  BY FlowValidates DEF Flow!Walked
<1>3. Flow!ReportCoversWhatIsVisible' /\ Flow!RefusalHasAFault'
  BY DEF Flow!ReportCoversWhatIsVisible, Flow!RefusalHasAFault
<1> QED BY <1>1, <1>2, <1>3 DEF Flow!FlowInv

(* The header of a document is looked at before its nodes.                 *)
LEMMA FlowHeader ==
  ASSUME Flow!FlowInv, Flow!Header PROVE Flow!FlowInv'
<1>1. /\ UNCHANGED <<folder, options, visited, any_files, flows, current, at, seen_ids>>
      /\ flow_pc = "header" /\ at = 1 /\ seen_ids = {} /\ flow_result = "running"
  BY DEF Flow!FlowInv, Flow!TypeOK, Flow!Walked, Flow!Header, Flow!input, Flow!walk
<1>2. CASE flow_pc' = "end"
  <2>1. /\ flow_result' = "flow"
        /\ \/ Flow!Flow.version = "unknown" \/ Flow!Flow.id = "blank" \/ Flow!Flow.nodes = <<>>
           \/ options.require_schema /\ ~Flow!Flow.schema
    BY <1>1, <1>2 DEF Flow!Header, Flow!Return, Flow!Goto
  <2>2. Flow!Flow' = Flow!Flow
    BY <1>1, FlowValidates
  <2>3. Flow!RefusalHasAFault'
    BY <1>1, <2>1, <2>2 DEF Flow!RefusalHasAFault
  <2> QED BY <1>1, <1>2, <2>1, <2>3, FlowRefuses
<1>3. CASE flow_pc' # "end"
  <2>1. flow_pc' = "node" /\ flow_result' = "running"
    BY <1>1, <1>3 DEF Flow!Header, Flow!Return, Flow!Goto
  <2>2. at' \in 1..Len(Flow!Flow'.nodes) + 1
    BY <1>1, FlowValidates, FlowDocuments DEF Flow!FlowInv
  <2>3. Flow!TypeOK'
    BY <1>1, <2>1, <2>2, FlowValidates DEF Flow!TypeOK
  <2>4. 1..at' - 1 = {}
    BY <1>1
  <2>5. Flow!Walked'
    BY <1>1, <2>1, <2>4, FlowValidates DEF Flow!Walked
  <2>6. Flow!ReportCoversWhatIsVisible' /\ Flow!RefusalHasAFault'
    BY <2>1 DEF Flow!ReportCoversWhatIsVisible, Flow!RefusalHasAFault
  <2> QED BY <1>1, <2>3, <2>5, <2>6 DEF Flow!FlowInv
<1> QED BY <1>2, <1>3

(* A node that is refused has the fault that the property names.           *)
LEMMA FlowBadNode ==
  ASSUME Flow!FlowInv, flow_pc = "node", at <= Len(Flow!Flow.nodes),
         NEW n, n = Flow!Flow.nodes[at],
         \/ n.id = "blank" \/ n.kind = "blank" \/ n.id \in seen_ids
         \/ ~Flow!Metadata(n) \/ ~Flow!Routes(Flow!Flow, n)
  PROVE  \/ Flow!Cardinality(Flow!Ids(Flow!Flow)) < Len(Flow!Flow.nodes)
         \/ \E m \in Flow!NodesOf(current) :
              \/ "blank" \in {m.id, m.kind} \/ m.metadata = "other"
              \/ m.kind \in Flow!Mcp /\ ~({"tool", "action"} \subseteq m.fields)
              \/ m.route = "to_node" /\ m.to \subseteq {<<>>}
              \/ m.route = "to_nodes" /\ m.to = {}
              \/ \E to \in m.to : ~(Flow!Range(to) \subseteq Flow!Ids(Flow!Flow))
<1> DEFINE nodes == Flow!Flow.nodes
<1>1. /\ current \in DOMAIN folder /\ folder \in Folders /\ Flow!Flow = folder[current].doc
      /\ at \in 1..Len(nodes) + 1 /\ seen_ids = {nodes[i].id : i \in 1..at - 1}
  BY DEF Flow!FlowInv, Flow!TypeOK, Flow!Walked, Flow!Flow
<1>2. /\ Len(nodes) \in Nat /\ DOMAIN nodes = 1..Len(nodes)
      /\ \A i \in DOMAIN nodes : \A to \in nodes[i].to :
           nodes[i].to = {to} /\ (to # <<>> => 1 \in DOMAIN to)
  BY <1>1, FlowDocuments
<1>3. at \in DOMAIN nodes
  BY <1>1, <1>2
<1>4. n \in Flow!NodesOf(current)
  BY <1>1, <1>3 DEF Flow!NodesOf, Flow!Doc, Flow!Range
<1>5. CASE n.id \in seen_ids
  <2>1. PICK i \in 1..at - 1 : nodes[i].id = nodes[at].id
    BY <1>1, <1>5
  <2> DEFINE f == [k \in 1..Len(nodes) |-> nodes[k].id]
  <2>2. i \in 1..Len(nodes) /\ at \in 1..Len(nodes) /\ i # at /\ f[i] = f[at]
    BY <1>1, <1>2, <1>3, <2>1
  <2>3. {f[k] : k \in 1..Len(nodes)} = Flow!Ids(Flow!Flow)
    BY <1>2 DEF Flow!Ids
  <2>4. f = [k \in 1..Len(nodes) |-> f[k]]
    OBVIOUS
  <2> HIDE DEF f
  <2>5. Cardinality(Flow!Ids(Flow!Flow)) < Len(nodes)
    BY <1>2, <2>2, <2>3, <2>4, FewerMeansTwice
  <2> QED BY <2>5, FlowCardinality
<1>6. CASE n.id = "blank" \/ n.kind = "blank" \/ ~Flow!Metadata(n)
  <2>1. \/ "blank" \in {n.id, n.kind} \/ n.metadata = "other"
        \/ n.kind \in Flow!Mcp /\ ~({"tool", "action"} \subseteq n.fields)
    BY <1>6 DEF Flow!Metadata
  <2> QED BY <1>4, <2>1
<1>7. CASE ~Flow!Routes(Flow!Flow, n)
  <2>1. \A to \in n.to : n.to = {to} /\ (to # <<>> => 1 \in DOMAIN to)
    BY <1>2, <1>3
  <2>2. \/ n.route = "to_node" /\ n.to \subseteq {<<>>}
        \/ n.route = "to_nodes" /\ n.to = {}
        \/ \E to \in n.to : ~(Flow!Range(to) \subseteq Flow!Ids(Flow!Flow))
    <3>1. CASE n.to = {}
      BY <1>7, <3>1 DEF Flow!Routes
    <3>2. CASE \E to \in n.to : TRUE
      <4>1. PICK to \in n.to : TRUE
        BY <3>2
      <4>2. n.to = {to} /\ (to # <<>> => to[1] \in Flow!Range(to))
        BY <2>1, <4>1 DEF Flow!Range
      <4> QED BY <1>7, <4>2 DEF Flow!Routes
    <3> QED BY <3>1, <3>2
  <2> QED BY <1>4, <2>2
<1> QED BY <1>5, <1>6, <1>7

(* The nodes of a document are checked one after the other.                *)
LEMMA FlowNode ==
  ASSUME Flow!FlowInv, Flow!Node PROVE Flow!FlowInv'
<1> DEFINE n == Flow!Flow.nodes[at]
           nodes == Flow!Flow.nodes
           Bad == \/ n.id = "blank" \/ n.kind = "blank" \/ n.id \in seen_ids
                  \/ ~Flow!Metadata(n) \/ ~Flow!Routes(Flow!Flow, n)
<1>1. /\ UNCHANGED <<folder, options, visited, any_files, flows, current>>
      /\ flow_pc = "node" /\ at <= Len(nodes) /\ flow_result = "running"
      /\ at \in 1..Len(nodes) + 1 /\ seen_ids = {nodes[i].id : i \in 1..at - 1}
      /\ \A i \in 1..at - 1 : Flow!Fits(Flow!Flow, i)
      /\ folder \in Folders
  BY DEF Flow!FlowInv, Flow!TypeOK, Flow!Walked, Flow!Node, Flow!input, Flow!walk
<1>2. Flow!Flow' = Flow!Flow /\ Flow!Flow = folder[current].doc /\ current \in DOMAIN folder
  BY <1>1, FlowValidates
<1>3. CASE Bad
  <2>1. flow_pc' = "end" /\ flow_result' = "flow"
    BY <1>3 DEF Flow!Node, Flow!Return
  <2>2. Flow!NodesOf(current)' = Flow!NodesOf(current)
    BY <1>1 DEF Flow!NodesOf, Flow!Doc
  <2>3. Flow!RefusalHasAFault'
    <3>1. \/ Flow!Cardinality(Flow!Ids(Flow!Flow)) < Len(nodes)
          \/ \E m \in Flow!NodesOf(current) :
               \/ "blank" \in {m.id, m.kind} \/ m.metadata = "other"
               \/ m.kind \in Flow!Mcp /\ ~({"tool", "action"} \subseteq m.fields)
               \/ m.route = "to_node" /\ m.to \subseteq {<<>>}
               \/ m.route = "to_nodes" /\ m.to = {}
               \/ \E to \in m.to : ~(Flow!Range(to) \subseteq Flow!Ids(Flow!Flow))
      BY <1>1, <1>3, FlowBadNode
    <3> QED BY <1>1, <1>2, <2>1, <2>2, <3>1 DEF Flow!RefusalHasAFault
  <2> QED BY <1>1, <2>1, <2>3, FlowRefuses
<1>4. CASE ~Bad
  <2>1. /\ flow_pc' = "node" /\ flow_result' = "running" /\ at' = at + 1
        /\ seen_ids' = seen_ids \cup {n.id}
    BY <1>1, <1>4 DEF Flow!Node, Flow!Goto
  <2>2. Len(nodes) \in Nat /\ DOMAIN nodes = 1..Len(nodes)
    BY <1>1, <1>2, FlowDocuments
  <2>3. /\ at' \in 1..Len(nodes) + 1 /\ 1..at' - 1 = (1..at - 1) \cup {at}
        /\ at \in DOMAIN nodes /\ 1..at - 1 \subseteq DOMAIN nodes
    BY <1>1, <2>1, <2>2
  <2>4. seen_ids' = {nodes[i].id : i \in 1..at' - 1} /\ seen_ids' \subseteq Flow!Ids(Flow!Flow)
    BY <1>1, <2>1, <2>3 DEF Flow!Ids
  <2>5. Flow!Fits(Flow!Flow, at)
    BY <1>1, <1>4 DEF Flow!Fits
  <2>6. \A i \in 1..at' - 1 : Flow!Fits(Flow!Flow, i)
    BY <1>1, <2>3, <2>5
  <2>7. Flow!TypeOK'
    BY <1>1, <1>2, <2>1, <2>3, <2>4, FlowValidates DEF Flow!TypeOK
  <2>8. Flow!Walked'
    BY <1>1, <1>2, <2>1, <2>4, <2>6, FlowValidates DEF Flow!Walked
  <2>9. Flow!ReportCoversWhatIsVisible' /\ Flow!RefusalHasAFault'
    BY <2>1 DEF Flow!ReportCoversWhatIsVisible, Flow!RefusalHasAFault
  <2> QED BY <1>1, <2>7, <2>8, <2>9 DEF Flow!FlowInv
<1> QED BY <1>3, <1>4

(* After its nodes, a document is held against its type.                   *)
LEMMA FlowType ==
  ASSUME Flow!FlowInv, Flow!Type PROVE Flow!FlowInv'
<1> DEFINE nodes == Flow!Flow.nodes
<1>1. /\ UNCHANGED <<folder, options, visited, any_files, flows, current, at, seen_ids>>
      /\ flow_pc = "node" /\ at > Len(nodes) /\ flow_result = "running"
      /\ at \in 1..Len(nodes) + 1 /\ \A i \in 1..at - 1 : Flow!Fits(Flow!Flow, i)
      /\ seen_ids \subseteq Flow!Ids(Flow!Flow) /\ folder \in Folders
  BY DEF Flow!FlowInv, Flow!TypeOK, Flow!Walked, Flow!Type, Flow!input, Flow!walk
<1>2. Flow!Flow' = Flow!Flow /\ Flow!Flow = folder[current].doc /\ current \in DOMAIN folder
  BY <1>1, FlowValidates
<1>3. CASE ~Flow!FitsType(Flow!Flow)
  <2>1. flow_pc' = "end" /\ flow_result' = "flow"
    BY <1>3 DEF Flow!Type, Flow!Return
  <2>2. \/ Flow!Flow.type = "messaging" /\ Flow!HasKind(Flow!Flow, Flow!Event)
        \/ Flow!Flow.type = "events" /\ Flow!HasKind(Flow!Flow, Flow!Kinds \ Flow!Event)
        \/ /\ Flow!Flow.type \in {"worker", "digital_worker"}
           /\ ~(/\ Flow!HasKind(Flow!Flow, Flow!Handoff)
                /\ Flow!Flow.type = "worker" \/ Flow!NamesWorker(Flow!Flow))
    BY <1>3 DEF Flow!FitsType
  <2>3. Flow!RefusalHasAFault'
    BY <1>2, <2>1, <2>2 DEF Flow!RefusalHasAFault
  <2> QED BY <1>1, <2>1, <2>3, FlowRefuses
<1>4. CASE Flow!FitsType(Flow!Flow)
  <2>1. flow_pc' = "validators" /\ flow_result' = "running"
    BY <1>1, <1>4 DEF Flow!Type, Flow!Goto
  <2>2. Len(nodes) \in Nat /\ DOMAIN nodes = 1..Len(nodes)
    BY <1>1, <1>2, FlowDocuments
  <2>3. DOMAIN nodes = 1..at - 1
    BY <1>1, <2>2
  <2>4. Flow!Sound(Flow!Flow)
    BY <1>1, <1>4, <2>3 DEF Flow!Sound
  <2>5. Flow!TypeOK'
    BY <1>1, <1>2, <2>1, FlowValidates DEF Flow!TypeOK
  <2>6. Flow!Walked'
    BY <1>1, <1>2, <2>1, <2>4, FlowValidates DEF Flow!Walked
  <2>7. Flow!ReportCoversWhatIsVisible' /\ Flow!RefusalHasAFault'
    BY <2>1 DEF Flow!ReportCoversWhatIsVisible, Flow!RefusalHasAFault
  <2> QED BY <1>1, <2>5, <2>6, <2>7 DEF Flow!FlowInv
<1> QED BY <1>3, <1>4

(* A document that the caller's validators accept is one of the report.    *)
LEMMA FlowValidators ==
  ASSUME Flow!FlowInv, Flow!Validators PROVE Flow!FlowInv'
<1>1. /\ UNCHANGED <<folder, options, visited, any_files, current>>
      /\ flow_pc = "validators" /\ flow_result = "running" /\ Flow!Sound(Flow!Flow)
      /\ folder \in Folders
  BY DEF Flow!FlowInv, Flow!TypeOK, Flow!Walked, Flow!Validators, Flow!input
<1>2. CASE flows' = flows \cup {current} /\ Flow!Goto("walk")
  <2>1. flow_pc' = "walk" /\ flow_result' = "running"
    BY <1>1, <1>2 DEF Flow!Goto
  <2>2. /\ current \in visited \ flows /\ visited \subseteq DOMAIN folder /\ flows \subseteq visited
        /\ current \in Flow!ToValidate /\ flows = (Flow!ToValidate \cap visited) \ {current}
        /\ any_files \in BOOLEAN /\ (any_files <=> Flow!ToValidate \cap visited # {})
        /\ \A p \in flows : Flow!Sound(Flow!Doc(p))
    BY <1>1 DEF Flow!FlowInv, Flow!TypeOK, Flow!Walked
  <2>3. Flow!ToValidate' = Flow!ToValidate
    BY <1>1, FlowRest
  <2>4. Flow!TypeOK'
    BY <1>1, <1>2, <2>1, <2>2 DEF Flow!TypeOK
  <2>5. \A p \in flows' : Flow!Sound(Flow!Doc(p))'
    BY <1>1, <1>2, <2>2 DEF Flow!Doc, Flow!Flow
  <2>6. flows' = Flow!ToValidate \cap visited
    BY <1>2, <2>2
  <2>7. Flow!Walked'
    BY <1>1, <2>1, <2>2, <2>3, <2>5, <2>6 DEF Flow!Walked
  <2>8. Flow!ReportCoversWhatIsVisible' /\ Flow!RefusalHasAFault'
    BY <2>1 DEF Flow!ReportCoversWhatIsVisible, Flow!RefusalHasAFault
  <2> QED BY <1>1, <2>4, <2>7, <2>8 DEF Flow!FlowInv
<1>3. CASE Flow!Return("validator") /\ UNCHANGED flows
  BY <1>1, <1>3, FlowRefuses DEF Flow!Return
<1> QED BY <1>2, <1>3 DEF Flow!Validators

(* Every step preserves the invariant.                                     *)
LEMMA FlowInvStep ==
  ASSUME Flow!FlowInv, [Flow!Next]_(Flow!vars) PROVE Flow!FlowInv'
<1>1. CASE UNCHANGED Flow!vars
  BY <1>1 DEF Flow!FlowInv, Flow!vars, Flow!input, Flow!walk, Flow!TypeOK, Flow!Walked,
     Flow!ReportCoversWhatIsVisible, Flow!RefusalHasAFault, Flow!ToValidate, Flow!Allowed,
     Flow!Doc, Flow!Flow, Flow!NodesOf
<1>2. CASE Flow!Next
  BY <1>2, FlowVisit, FlowWalkEnds, FlowHeader, FlowNode, FlowType, FlowValidators DEF Flow!Next
<1> QED BY <1>1, <1>2

(* The id of a node of a sound document is that of one node only.          *)
LEMMA FlowOneNode ==
  ASSUME folder \in Folders, NEW p \in DOMAIN folder, Flow!Sound(Flow!Doc(p)),
         NEW t \in Flow!Ids(Flow!Doc(p))
  PROVE  Flow!Cardinality({i \in DOMAIN Flow!Doc(p).nodes : Flow!Doc(p).nodes[i].id = t}) = 1
<1> DEFINE nodes == Flow!Doc(p).nodes
<1>1. Len(nodes) \in Nat /\ DOMAIN nodes = 1..Len(nodes)
  BY FlowDocuments DEF Flow!Doc
<1>2. PICK i \in DOMAIN nodes : nodes[i].id = t
  BY DEF Flow!Ids
<1>3. \A j \in DOMAIN nodes : nodes[j].id \notin {nodes[k].id : k \in 1..j - 1}
  BY DEF Flow!Sound, Flow!Fits
<1>4. ASSUME NEW j \in DOMAIN nodes, nodes[j].id = t PROVE j = i
  <2>1. j \notin 1..i - 1 /\ i \notin 1..j - 1
    BY <1>2, <1>3, <1>4
  <2> QED BY <1>1, <2>1
<1>5. {j \in DOMAIN nodes : nodes[j].id = t} = {i}
  BY <1>2, <1>4
<1> QED BY <1>5, FlowCardinality, FS_Singleton

(* What is true of each document that was accepted is what the property    *)
(* says of the report.                                                     *)
LEMMA FlowTells ==
  ASSUME Flow!FlowInv PROVE Flow!RoutesLeadToOneNode /\ Flow!FlowsDoWhatTheirTypeSays
<1>1. ASSUME NEW p \in flows
      PROVE  p \in DOMAIN folder /\ folder \in Folders /\ Flow!Sound(Flow!Doc(p))
  BY <1>1 DEF Flow!FlowInv, Flow!TypeOK, Flow!Walked
<1>2. Flow!RoutesLeadToOneNode
  <2> SUFFICES ASSUME NEW p \in flows, NEW n \in Flow!NodesOf(p), NEW to \in n.to,
                      NEW t \in IF n.route = "to_node" THEN {to[1]}
                                ELSE IF n.route = "to_nodes" THEN Flow!Range(to) ELSE {}
               PROVE  Flow!Cardinality({i \in DOMAIN Flow!Doc(p).nodes :
                        Flow!Doc(p).nodes[i].id = t}) = 1
    BY DEF Flow!RoutesLeadToOneNode
  <2>1. PICK i \in DOMAIN Flow!Doc(p).nodes : n = Flow!Doc(p).nodes[i]
    BY DEF Flow!NodesOf, Flow!Range
  <2>2. n.to = {to}
    BY <1>1, <2>1, FlowDocuments DEF Flow!Doc
  <2>3. Flow!Routes(Flow!Doc(p), n)
    BY <1>1, <2>1 DEF Flow!Sound, Flow!Fits
  <2>4. t \in Flow!Ids(Flow!Doc(p))
    BY <2>2, <2>3 DEF Flow!Routes
  <2> QED BY <1>1, <2>4, FlowOneNode
<1>3. Flow!FlowsDoWhatTheirTypeSays
  <2> SUFFICES ASSUME NEW p \in flows
               PROVE  LET d == Flow!Doc(p)
                          ns == Flow!NodesOf(p)
                      IN  /\ d.type \in {"worker", "digital_worker"} =>
                               \E n \in ns : n.kind \in Flow!Handoff
                          /\ d.type = "digital_worker" => \E n \in ns : "worker_id" \in n.fields
                          /\ d.type = "events" => {n.kind : n \in ns} \subseteq Flow!Event
                          /\ d.type = "messaging" => {n.kind : n \in ns} \cap Flow!Event = {}
    BY DEF Flow!FlowsDoWhatTheirTypeSays
  <2>1. Flow!FitsType(Flow!Doc(p))
    BY <1>1 DEF Flow!Sound
  <2>2. \A i \in DOMAIN Flow!Doc(p).nodes : Flow!Doc(p).nodes[i].kind \in Flow!Kinds
    BY <1>1, FlowDocuments DEF Flow!Doc
  <2>3. Flow!NodesOf(p) = {Flow!Doc(p).nodes[i] : i \in DOMAIN Flow!Doc(p).nodes}
    BY DEF Flow!NodesOf, Flow!Range
  <2> QED BY <2>1, <2>2, <2>3 DEF Flow!FitsType, Flow!HasKind, Flow!NamesWorker
<1> QED BY <1>2, <1>3

(* validate_flow_folder (src/flow_suite.rs) on folders and documents of    *)
(* any size: a report covers every flow file that the walk could see, each *)
(* target that a route may take is one node, a flow does what its type     *)
(* says, and what is refused has a fault.                                  *)
THEOREM FlowReports == Spec => []FlowReportIsTrue
<1> DEFINE I == part = "flow" => Flow!FlowInv
<1>1. Init => I
  BY FlowStarts, FlowInvInit
<1>2. I /\ [Next]_vars => I'
  BY FlowSteps, FlowInvStep
<1>3. I => FlowReportIsTrue
  BY FlowTells DEF FlowReportIsTrue, Flow!FlowInv
<1> HIDE DEF I
<1> QED BY <1>1, <1>2, <1>3, PTL DEF Spec

(***************************************************************************)
(* PackSuite                                                               *)
(***************************************************************************)

(* The behaviour of this part is one of its module.                        *)
LEMMA PackStarts ==
  ASSUME Init, part = "pack" PROVE Pack!Init
  BY DEF Init

(* A step of Toolkit is one of the suite, or changes nothing of it.        *)
LEMMA PackSteps ==
  ASSUME [Next]_vars, part' = "pack"
  PROVE  part = "pack" /\ [Pack!Next]_(Pack!vars)
<1>1. CASE Next
  BY <1>1 DEF Next, OthersStay
<1>2. CASE UNCHANGED vars
  BY <1>2 DEF vars, packVars, Pack!vars, Pack!builder, Pack!world, Pack!read
<1> QED BY <1>1, <1>2

(* The library's facts on Cardinality are those of each instance.          *)
LEMMA PackCardinality ==
  ASSUME NEW S PROVE Pack!Cardinality(S) = Cardinality(S)
  BY DEF Pack!Cardinality, Cardinality, Pack!IsFiniteSet, IsFiniteSet

(* What a manifest is.                                                     *)
LEMMA PackManifests ==
  ASSUME NEW m \in Manifests
  PROVE  /\ m.sbom \in {"none", "blank", "given"} /\ m.attestations \in {"none", "blank", "given"}
         /\ m.signature \in {"none", "incomplete", "complete"}
         /\ Len(m.flows) \in Nat /\ DOMAIN m.flows = 1..Len(m.flows)
<1>1. Pack!IsManifest(m)
  BY PackParameters DEF Pack!PackAssumption
<1>2. m.flows \in Seq(Pack!ToSet(m.flows))
  BY <1>1 DEF Pack!IsManifest
<1>3. Len(m.flows) \in Nat /\ DOMAIN m.flows = 1..Len(m.flows)
  BY <1>2, LenProperties
<1> QED BY <1>1, <1>3 DEF Pack!IsManifest

(* The options in force are those of the configuration but for the         *)
(* manifest, which either may name.                                        *)
LEMMA PackOptionsInForce ==
  ASSUME Pack!TypeOK
  PROVE  /\ Pack!Options.adapter = pack_config.pack_options.adapter
         /\ Pack!Options.require_runtime_match = pack_config.pack_options.require_runtime_match
         /\ Pack!Options.require_signature = pack_config.pack_options.require_signature
         /\ Pack!Options.require_supply_chain = pack_config.pack_options.require_supply_chain
         /\ Pack!Options.manifest_override =
              IF pack_config.manifest_override # "none" THEN pack_config.manifest_override
              ELSE pack_config.pack_options.manifest_override
  BY DEF Pack!TypeOK, Pack!OptionsType, Pack!Options

(* A configuration that is new, or read from the environment.              *)
LEMMA PackInvInit ==
  ASSUME Pack!Init PROVE Pack!PackInv
<1>1. PICK runner, unsigned, from_env \in BOOLEAN :
        LET c == [Pack!New EXCEPT !.manifest_override = IF pack_env THEN "env" ELSE "none",
                                  !.runner = runner]
        IN  /\ pack_config = IF ~from_env THEN Pack!New
                             ELSE IF unsigned THEN Pack!AllowUnsigned(c) ELSE c
            /\ allowed = (from_env /\ unsigned)
  BY DEF Pack!Init
<1>2. /\ pack_config.pack_options \in Pack!OptionsType
      /\ pack_config.manifest_override \in Pack!Overrides
      /\ pack_config.require_signature \in BOOLEAN /\ pack_config.runner \in BOOLEAN
      /\ allowed \in BOOLEAN /\ (allowed \/ pack_config.require_signature)
  BY <1>1 DEF Pack!New, Pack!Default, Pack!AllowUnsigned, Pack!OptionsType, Pack!Overrides
<1>3. /\ component \in {"nothing", "folder", "file", "manifest"}
      /\ pack_env \in BOOLEAN /\ pack_calls = 0 /\ pack_pc = "build" /\ manifest = {}
      /\ exports = {} /\ pack_warnings = {} /\ pack_result = "running"
  BY DEF Pack!Init
<1>4. Pack!TypeOK
  BY <1>2, <1>3, PackParameters DEF Pack!TypeOK, Pack!PackAssumption
<1>5. Pack!Verified
  BY <1>2, <1>3 DEF Pack!Verified, Pack!Past
<1> QED BY <1>4, <1>5 DEF Pack!PackInv

(* A call of the builder: no signature is asked for only after             *)
(* allow_unsigned.                                                         *)
LEMMA PackCall ==
  ASSUME Pack!PackInv, NEW c, Pack!Call(c), allowed' \in BOOLEAN,
         allowed' \/ c.require_signature,
         c.pack_options \in Pack!OptionsType, c.manifest_override \in Pack!Overrides,
         c.require_signature \in BOOLEAN, c.runner \in BOOLEAN
  PROVE  Pack!PackInv'
<1>1. /\ pack_config' = c /\ pack_calls' = pack_calls + 1 /\ pack_calls < MaxCalls
      /\ pack_pc = "build" /\ pack_pc' = "build" /\ pack_result = "running"
      /\ UNCHANGED <<pack_files, component, pack_env, found, manifest, exports, pack_warnings,
                     pack_result>>
  BY DEF Pack!Call, Pack!world, Pack!read, Pack!PackInv, Pack!TypeOK
<1>2. pack_calls' \in 0..MaxCalls
  BY <1>1, PackParameters DEF Pack!PackInv, Pack!TypeOK, Pack!PackAssumption
<1>3. Pack!TypeOK'
  BY <1>1, <1>2 DEF Pack!PackInv, Pack!TypeOK
<1>4. Pack!Verified'
  BY <1>1 DEF Pack!Verified, Pack!Past
<1> QED BY <1>3, <1>4 DEF Pack!PackInv

(* The calls of the builder, one by one.                                   *)
LEMMA PackBuilder ==
  ASSUME Pack!PackInv,
         \/ Pack!WithManifestOverride \/ Pack!WithRunner \/ Pack!WithPackOptions
         \/ Pack!WithAllowUnsigned
  PROVE  Pack!PackInv'
<1>1. /\ allowed \in BOOLEAN /\ (allowed \/ pack_config.require_signature)
      /\ pack_config.pack_options \in Pack!OptionsType
      /\ pack_config.manifest_override \in Pack!Overrides
      /\ pack_config.require_signature \in BOOLEAN /\ pack_config.runner \in BOOLEAN
  BY DEF Pack!PackInv, Pack!TypeOK, Pack!Verified
<1> USE <1>1
<1>2. CASE Pack!WithManifestOverride
  <2> DEFINE c == [pack_config EXCEPT !.manifest_override = "override"]
  <2>1. /\ c.pack_options = pack_config.pack_options
        /\ c.require_signature = pack_config.require_signature
        /\ c.runner = pack_config.runner /\ c.manifest_override \in Pack!Overrides
    BY DEF Pack!Overrides
  <2>2. Pack!Call(c) /\ UNCHANGED allowed
    BY <1>2 DEF Pack!WithManifestOverride
  <2> HIDE DEF c
  <2> QED BY <2>1, <2>2, PackCall
<1>3. CASE Pack!WithRunner
  <2> DEFINE c == [pack_config EXCEPT !.runner = TRUE]
  <2>1. /\ c.pack_options = pack_config.pack_options
        /\ c.require_signature = pack_config.require_signature
        /\ c.runner \in BOOLEAN /\ c.manifest_override = pack_config.manifest_override
    OBVIOUS
  <2>2. Pack!Call(c) /\ UNCHANGED allowed
    BY <1>3 DEF Pack!WithRunner
  <2> HIDE DEF c
  <2> QED BY <2>1, <2>2, PackCall
<1>4. CASE Pack!WithPackOptions
  <2>1. PICK o \in PackOptions :
          Pack!Call([pack_config EXCEPT !.pack_options = o]) /\ UNCHANGED allowed
    BY <1>4 DEF Pack!WithPackOptions
  <2> DEFINE c == [pack_config EXCEPT !.pack_options = o]
  <2>2. o \in Pack!OptionsType
    BY PackParameters DEF Pack!PackAssumption
  <2>3. /\ c.pack_options \in Pack!OptionsType
        /\ c.require_signature = pack_config.require_signature
        /\ c.runner = pack_config.runner /\ c.manifest_override = pack_config.manifest_override
    BY <2>2
  <2>4. Pack!Call(c) /\ UNCHANGED allowed
    BY <2>1
  <2> HIDE DEF c
  <2> QED BY <2>3, <2>4, PackCall
<1>5. CASE Pack!WithAllowUnsigned
  <2> DEFINE c == Pack!AllowUnsigned(pack_config)
  <2>1. /\ c.pack_options \in Pack!OptionsType /\ c.require_signature \in BOOLEAN
        /\ c.runner = pack_config.runner /\ c.manifest_override = pack_config.manifest_override
    <3> DEFINE o == [pack_config.pack_options EXCEPT !.require_signature = FALSE]
    <3>1. o \in Pack!OptionsType
      BY DEF Pack!OptionsType
    <3>2. /\ c.pack_options \in {o, pack_config.pack_options}
          /\ c.require_signature \in {FALSE, pack_config.require_signature}
          /\ c.runner = pack_config.runner /\ c.manifest_override = pack_config.manifest_override
      BY DEF Pack!AllowUnsigned
    <3> HIDE DEF c, o
    <3> QED BY <3>1, <3>2
  <2>2. Pack!Call(c) /\ allowed' = TRUE
    BY <1>5 DEF Pack!WithAllowUnsigned
  <2> HIDE DEF c
  <2> QED BY <2>1, <2>2, PackCall
<1> QED BY <1>2, <1>3, <1>4, <1>5

(* Once the suite runs, what its rules look at stays as it is.             *)
LEMMA PackRest ==
  ASSUME UNCHANGED <<pack_config, component, pack_files, pack_env>>
  PROVE  /\ Pack!Options' = Pack!Options /\ Pack!Resolved' = Pack!Resolved
         /\ \A m : (Pack!SignatureOk(m)' <=> Pack!SignatureOk(m))
                   /\ (Pack!FlowsOk(m)' <=> Pack!FlowsOk(m))
<1>1. Pack!Options' = Pack!Options
  BY DEF Pack!Options
<1>2. Pack!Resolved' = Pack!Resolved
  BY <1>1 DEF Pack!Resolved, Pack!FirstOf, Pack!Candidates
<1>3. \A m : (Pack!SignatureOk(m)' <=> Pack!SignatureOk(m))
             /\ (Pack!FlowsOk(m)' <=> Pack!FlowsOk(m))
  BY <1>1 DEF Pack!SignatureOk, Pack!FlowsOk
<1> QED BY <1>1, <1>2, <1>3

(* The names that are looked for near a component are none of an override. *)
LEMMA PackNearby ==
  ASSUME Pack!TypeOK, NEW path \in Pack!FirstOf(Pack!Candidates)
  PROVE  path \notin Pack!Overrides
<1> DEFINE Names == {"component", "component.json", "component.yaml", "component.yml",
                     "pack.manifest.json", "pack.manifest.yaml", "pack.manifest.yml",
                     "pack.json", "pack.yaml", "pack.yml"}
<1>1. Pack!Nearby \in Seq(Names)
  BY DEF Pack!Nearby
<1>2. Pack!Beside[component] \in Seq(Names)
  <2>1. <<>> \in Seq(Names) /\ <<"component">> \in Seq(Names)
    OBVIOUS
  <2>2. Pack!Siblings \in Seq(Names)
    BY DEF Pack!Siblings
  <2>3. component \in {"nothing", "folder", "file", "manifest"}
    BY DEF Pack!TypeOK
  <2>4. /\ Pack!Beside.nothing = <<>> /\ Pack!Beside.folder = <<>>
        /\ Pack!Beside.file = Pack!Siblings /\ Pack!Beside.manifest = <<"component">>
    BY DEF Pack!Beside
  <2> HIDE DEF Names
  <2> QED BY <2>1, <2>2, <2>3, <2>4
<1>3. Pack!Candidates \in Seq(Names)
  <2> HIDE DEF Names
  <2> QED BY <1>1, <1>2, ConcatProperties DEF Pack!Candidates
<1>4. PICK i \in DOMAIN Pack!Candidates : path = Pack!Candidates[i]
  BY DEF Pack!FirstOf
<1>5. path \in Names
  <2> HIDE DEF Names
  <2> QED BY <1>3, <1>4, LenProperties
<1> QED BY <1>5 DEF Pack!Overrides

(* The manifest that is resolved is the one that was wanted, or, without a  *)
(* name, that of the environment exactly when it exists.                   *)
LEMMA PackResolves ==
  ASSUME Pack!TypeOK, NEW path \in Pack!Resolved
  PROVE  LET wanted == IF pack_config.manifest_override # "none" THEN pack_config.manifest_override
                      ELSE pack_config.pack_options.manifest_override
         IN  /\ path # "none"
             /\ IF wanted # "none" THEN path = wanted
                ELSE path \in Pack!Overrides <=> pack_env /\ "env" \in pack_files
<1> DEFINE wanted == IF pack_config.manifest_override # "none" THEN pack_config.manifest_override
                    ELSE pack_config.pack_options.manifest_override
<1>1. Pack!Options.manifest_override = wanted
  BY PackOptionsInForce
<1>2. path # "none" /\ IF wanted # "none" THEN path = wanted
                        ELSE path \in Pack!Overrides <=> pack_env /\ "env" \in pack_files
  <2> HIDE DEF wanted
  <2>1. CASE wanted # "none"
    BY <1>1, <2>1 DEF Pack!Resolved
  <2>2. CASE wanted = "none" /\ pack_env /\ "env" \in pack_files
    BY <1>1, <2>2 DEF Pack!Resolved, Pack!Overrides
  <2>3. CASE wanted = "none" /\ ~(pack_env /\ "env" \in pack_files)
    <3>1. path \in Pack!FirstOf(Pack!Candidates)
      BY <1>1, <2>3 DEF Pack!Resolved
    <3>2. path \notin Pack!Overrides
      BY <3>1, PackNearby
    <3> QED BY <2>3, <3>2 DEF Pack!Overrides
  <2> QED BY <2>1, <2>2, <2>3
<1> QED BY <1>2

(* A failure of any step leaves no report.                                 *)
LEMMA PackFails ==
  ASSUME Pack!PackInv, UNCHANGED <<pack_config, pack_calls, allowed, component, pack_files, pack_env>>,
         manifest' \subseteq Manifests, exports' \subseteq ExportLists,
         pack_warnings' \subseteq {"sbom", "attestations"},
         pack_pc' = "end", pack_result' \notin {"running", "report"}
  PROVE  Pack!PackInv'
<1>1. Pack!TypeOK'
  BY DEF Pack!PackInv, Pack!TypeOK
<1>2. Pack!Verified'
  BY DEF Pack!PackInv, Pack!Verified, Pack!Past
<1> QED BY <1>1, <1>2 DEF Pack!PackInv

(* The tenant and the component, the manifest, and its content.            *)
LEMMA PackReads ==
  ASSUME Pack!PackInv, Pack!Run \/ Pack!Resolve \/ Pack!ReadManifest PROVE Pack!PackInv'
<1> USE DEF Pack!builder, Pack!world, Pack!read, Pack!Return, Pack!Goto
<1>1. /\ UNCHANGED <<pack_config, pack_calls, allowed, component, pack_files, pack_env, exports, pack_warnings>>
      /\ Pack!Resolved' = Pack!Resolved
      /\ pack_result = "running" /\ manifest \subseteq Manifests /\ exports \subseteq ExportLists
      /\ pack_warnings \subseteq {"sbom", "attestations"}
      /\ allowed \/ pack_config.require_signature
  BY PackRest DEF Pack!Run, Pack!Resolve, Pack!ReadManifest, Pack!PackInv, Pack!TypeOK,
     Pack!Verified
<1>2. CASE Pack!Run
  <2>1. CASE pack_pc' = "end"
    BY <1>1, <1>2, <2>1, PackFails DEF Pack!Run
  <2>2. CASE pack_pc' # "end"
    <3>1. pack_pc' = "resolve" /\ pack_result' = "running" /\ UNCHANGED <<found, manifest>>
      BY <1>1, <1>2, <2>2 DEF Pack!Run
    <3>2. Pack!TypeOK'
      BY <1>1, <3>1 DEF Pack!PackInv, Pack!TypeOK
    <3>3. Pack!Verified'
      BY <1>1, <3>1 DEF Pack!Verified, Pack!Past
    <3> QED BY <3>2, <3>3 DEF Pack!PackInv
  <2> QED BY <2>1, <2>2
<1>3. CASE Pack!Resolve
  <2>1. CASE pack_pc' = "end"
    BY <1>1, <1>3, <2>1, PackFails DEF Pack!Resolve
  <2>2. CASE pack_pc' # "end"
    <3>1. /\ pack_pc' = "read" /\ pack_result' = "running" /\ found' \in Pack!Resolved
          /\ UNCHANGED manifest
      BY <1>1, <1>3, <2>2 DEF Pack!Resolve
    <3>2. Pack!TypeOK'
      BY <1>1, <3>1 DEF Pack!PackInv, Pack!TypeOK
    <3>3. Pack!Verified'
      BY <1>1, <3>1 DEF Pack!Verified, Pack!Past
    <3> QED BY <3>2, <3>3 DEF Pack!PackInv
  <2> QED BY <2>1, <2>2
<1>4. CASE Pack!ReadManifest
  <2>1. CASE pack_pc' = "end"
    BY <1>1, <1>4, <2>1, PackFails DEF Pack!ReadManifest
  <2>2. CASE pack_pc' # "end"
    <3>1. PICK m \in Manifests : manifest' = {m}
      BY <1>4, <2>2 DEF Pack!ReadManifest
    <3>2. pack_pc' = "validate" /\ pack_result' = "running" /\ UNCHANGED found
          /\ found \in Pack!Resolved
      BY <1>1, <1>4, <2>2 DEF Pack!ReadManifest, Pack!PackInv, Pack!Verified, Pack!Past
    <3>3. found # "none"
      BY <3>2, PackResolves DEF Pack!PackInv
    <3>4. Pack!TypeOK'
      BY <1>1, <3>1, <3>2, <3>3 DEF Pack!PackInv, Pack!TypeOK
    <3>5. Pack!Verified'
      BY <1>1, <3>2 DEF Pack!Verified, Pack!Past
    <3> QED BY <3>4, <3>5 DEF Pack!PackInv
  <2> QED BY <2>1, <2>2
<1> QED BY <1>2, <1>3, <1>4

(* A manifest passes when none of the rules refuses it.                    *)
LEMMA PackValidate ==
  ASSUME Pack!PackInv, Pack!Validate PROVE Pack!PackInv'
<1> USE DEF Pack!Return, Pack!Goto
<1>1. /\ UNCHANGED <<pack_config, pack_calls, allowed, component, pack_files, pack_env, found,
                     manifest, exports>>
      /\ pack_pc = "validate" /\ pack_result = "running" /\ manifest \subseteq Manifests
      /\ exports \subseteq ExportLists /\ found # "none" /\ (\E m \in Manifests : manifest = {m})
      /\ pack_warnings \subseteq {"sbom", "attestations"}
      /\ allowed \/ pack_config.require_signature
      /\ found \in Pack!Resolved
  BY DEF Pack!Validate, Pack!builder, Pack!world, Pack!PackInv, Pack!TypeOK, Pack!Verified, Pack!Past
<1>2. PICK m \in manifest :
       CASE Pack!Named(m) # "given" \/ m.version # "given" \/ m.blank ->
              Pack!Return("fields") /\ UNCHANGED pack_warnings
         [] ~Pack!SignatureOk(m) -> Pack!Return("signature") /\ UNCHANGED pack_warnings
         [] \/ "blank" \in {m.sbom, m.attestations}
            \/ Pack!Options.require_supply_chain /\ Pack!Missing(m) # {} ->
              Pack!Return("supply_chain") /\ UNCHANGED pack_warnings
         [] OTHER ->
              /\ pack_warnings' = Pack!Missing(m)
              /\ IF Pack!FlowsOk(m) /\ Pack!ArtifactsOk(m)
                 THEN Pack!Goto(IF Pack!Options.adapter THEN "adapter" ELSE "signed")
                 ELSE Pack!Return("flows")
  BY DEF Pack!Validate
<1>3. Pack!Missing(m) \subseteq {"sbom", "attestations"}
  BY DEF Pack!Missing
<1>4. CASE pack_pc' = "end"
  <2>1. pack_result' \in {"fields", "signature", "supply_chain", "flows"}
        /\ pack_warnings' \subseteq {"sbom", "attestations"}
    BY <1>1, <1>2, <1>3, <1>4
  <2> QED BY <1>1, <1>4, <2>1, PackFails
<1>5. CASE pack_pc' # "end"
  <2>1. /\ pack_pc' = (IF Pack!Options.adapter THEN "adapter" ELSE "signed")
        /\ pack_result' = "running"
        /\ Pack!SignatureOk(m) /\ Pack!FlowsOk(m) /\ "blank" \notin {m.sbom, m.attestations}
        /\ pack_warnings' = Pack!Missing(m)
        /\ Pack!Options.require_supply_chain => Pack!Missing(m) = {}
    BY <1>1, <1>2, <1>5
  <2>2. manifest = {m}
    BY <1>1, <1>2
  <2>3. Pack!Options' = Pack!Options /\ Pack!Resolved' = Pack!Resolved
        /\ Pack!SignatureOk(m)' /\ Pack!FlowsOk(m)'
    BY <1>1, <2>1, PackRest
  <2>4. Pack!TypeOK'
    BY <1>1, <1>3, <2>1 DEF Pack!PackInv, Pack!TypeOK
  <2>5. Pack!Verified'
    BY <1>1, <2>1, <2>2, <2>3 DEF Pack!Verified, Pack!Past
  <2> QED BY <2>4, <2>5 DEF Pack!PackInv
<1> QED BY <1>4, <1>5

(* The answer of the adapter, when the two are compared.                   *)
LEMMA PackAskAdapter ==
  ASSUME Pack!PackInv, Pack!AskAdapter PROVE Pack!PackInv'
<1> USE DEF Pack!Return, Pack!Goto
<1>1. /\ UNCHANGED <<pack_config, pack_calls, allowed, component, pack_files, pack_env, found,
                     manifest, pack_warnings>>
      /\ pack_pc = "adapter" /\ pack_result = "running" /\ manifest \subseteq Manifests
      /\ exports \subseteq ExportLists /\ pack_warnings \subseteq {"sbom", "attestations"}
  BY DEF Pack!AskAdapter, Pack!builder, Pack!world, Pack!PackInv, Pack!TypeOK
<1>2. Pack!Options' = Pack!Options /\ Pack!Resolved' = Pack!Resolved
      /\ \A n : (Pack!SignatureOk(n)' <=> Pack!SignatureOk(n))
                 /\ (Pack!FlowsOk(n)' <=> Pack!FlowsOk(n))
  BY <1>1, PackRest
<1>3. CASE pack_result' = "adapter"
  BY <1>1, <1>3, PackFails DEF Pack!AskAdapter
<1>4. CASE \E m \in manifest, e \in ExportLists :
             /\ exports' = {e}
             /\ IF Pack!Options.require_runtime_match /\ ~Pack!Matches(m, e)
                THEN Pack!Return("mismatch") ELSE Pack!Goto("signed")
  <2>1. PICK m \in manifest, e \in ExportLists :
             /\ exports' = {e}
             /\ IF Pack!Options.require_runtime_match /\ ~Pack!Matches(m, e)
                THEN Pack!Return("mismatch") ELSE Pack!Goto("signed")
    BY <1>4
  <2>2. exports' \subseteq ExportLists
    BY <2>1
  <2>3. CASE Pack!Options.require_runtime_match /\ ~Pack!Matches(m, e)
    BY <1>1, <2>1, <2>2, <2>3, PackFails
  <2>4. CASE ~(Pack!Options.require_runtime_match /\ ~Pack!Matches(m, e))
    <3>1. pack_pc' = "signed" /\ pack_result' = "running"
      BY <1>1, <2>1, <2>4
    <3>2. manifest = {m}
      BY <1>1, <2>1 DEF Pack!PackInv, Pack!TypeOK
    <3>3. Pack!TypeOK'
      BY <1>1, <2>2, <3>1 DEF Pack!PackInv, Pack!TypeOK
    <3>4. Pack!Options'.require_runtime_match =>
            \A n \in manifest', x \in exports' : Pack!Matches(n, x)
      BY <1>1, <1>2, <2>1, <2>4, <3>2
    <3>5. Pack!Verified'
      BY <1>1, <1>2, <3>1, <3>4 DEF Pack!PackInv, Pack!Verified, Pack!Past, Pack!Matches, Pack!Missing
    <3> QED BY <3>3, <3>5 DEF Pack!PackInv
  <2> QED BY <2>3, <2>4
<1> QED BY <1>3, <1>4 DEF Pack!AskAdapter

(* The signature block, and the runner.                                    *)
LEMMA PackEnds ==
  ASSUME Pack!PackInv, Pack!Signed \/ Pack!TryRunner PROVE Pack!PackInv'
<1> USE DEF Pack!Return, Pack!Goto
<1>1. /\ UNCHANGED <<pack_config, pack_calls, allowed, component, pack_files, pack_env, found,
                     manifest, exports, pack_warnings>>
      /\ pack_pc \in {"signed", "runner"} /\ pack_result = "running"
      /\ manifest \subseteq Manifests /\ exports \subseteq ExportLists
      /\ pack_warnings \subseteq {"sbom", "attestations"}
  BY DEF Pack!Signed, Pack!TryRunner, Pack!builder, Pack!world, Pack!read, Pack!PackInv, Pack!TypeOK
<1>2. Pack!Options' = Pack!Options /\ Pack!Resolved' = Pack!Resolved
      /\ \A n : (Pack!SignatureOk(n)' <=> Pack!SignatureOk(n))
                 /\ (Pack!FlowsOk(n)' <=> Pack!FlowsOk(n))
  BY <1>1, PackRest
<1>3. CASE pack_result' \in {"signed", "runner"}
  BY <1>1, <1>3, PackFails DEF Pack!Signed, Pack!TryRunner
<1>4. CASE pack_result' \in {"running", "report"}
  <2>1. /\ pack_result' = "running" => pack_pc' = "runner"
        /\ pack_result' = "report" => pack_pc' = "end"
        /\ pack_config.require_signature => \A m \in manifest : m.signature # "none"
    BY <1>1, <1>4 DEF Pack!Signed, Pack!TryRunner, Pack!PackInv, Pack!Verified, Pack!Past
  <2>2. Pack!TypeOK'
    BY <1>1, <1>4, <2>1 DEF Pack!PackInv, Pack!TypeOK
  <2>3. /\ found \in Pack!Resolved
        /\ \A m \in manifest :
             /\ Pack!SignatureOk(m) /\ Pack!FlowsOk(m)
             /\ "blank" \notin {m.sbom, m.attestations}
             /\ pack_warnings = Pack!Missing(m)
             /\ Pack!Options.require_supply_chain => Pack!Missing(m) = {}
        /\ Pack!Options.adapter /\ Pack!Options.require_runtime_match =>
             \A m \in manifest, e \in exports : Pack!Matches(m, e)
        /\ allowed \/ pack_config.require_signature
    BY <1>1 DEF Pack!PackInv, Pack!Verified, Pack!Past
  <2>4. Pack!Verified'
    BY <1>1, <1>2, <2>1, <2>3 DEF Pack!Verified, Pack!Matches, Pack!Missing
  <2> QED BY <2>2, <2>4 DEF Pack!PackInv
<1> QED BY <1>1, <1>3, <1>4 DEF Pack!Signed, Pack!TryRunner

(* Every step preserves the invariant.                                     *)
LEMMA PackInvStep ==
  ASSUME Pack!PackInv, [Pack!Next]_(Pack!vars) PROVE Pack!PackInv'
<1>1. CASE UNCHANGED Pack!vars
  <2>1. UNCHANGED <<pack_config, pack_calls, allowed, pack_pc, component, pack_files, pack_env,
                    found, manifest, exports, pack_warnings, pack_result>>
    BY <1>1 DEF Pack!vars, Pack!builder, Pack!world, Pack!read
  <2>2. Pack!TypeOK'
    BY <2>1 DEF Pack!PackInv, Pack!TypeOK
  <2>3. Pack!Verified'
    BY <2>1, PackRest DEF Pack!PackInv, Pack!Verified, Pack!Past, Pack!Matches, Pack!Missing
  <2> QED BY <2>2, <2>3 DEF Pack!PackInv
<1>2. CASE Pack!Next
  BY <1>2, PackBuilder, PackReads, PackValidate, PackAskAdapter, PackEnds DEF Pack!Next
<1> QED BY <1>1, <1>2

(* Of a manifest whose flows are right, an id is that of one flow only.    *)
LEMMA PackOneFlow ==
  ASSUME NEW m \in Manifests, Pack!FlowsOk(m), NEW t \in Pack!IdsOf(m)
  PROVE  Pack!Cardinality({j \in DOMAIN m.flows : m.flows[j].id = t}) = 1
<1>1. Len(m.flows) \in Nat /\ DOMAIN m.flows = 1..Len(m.flows)
  BY PackManifests
<1>2. PICK i \in DOMAIN m.flows : m.flows[i].id = t
  BY DEF Pack!IdsOf
<1>3. \A j \in DOMAIN m.flows : m.flows[j].id \notin {m.flows[k].id : k \in 1..j - 1}
  BY DEF Pack!FlowsOk
<1>4. ASSUME NEW j \in DOMAIN m.flows, m.flows[j].id = t PROVE j = i
  <2>1. j \notin 1..i - 1 /\ i \notin 1..j - 1
    BY <1>2, <1>3, <1>4
  <2> QED BY <1>1, <2>1
<1>5. {j \in DOMAIN m.flows : m.flows[j].id = t} = {i}
  BY <1>2, <1>4
<1> QED BY <1>5, PackCardinality, FS_Singleton

(* What was verified on the way is what the properties say of the report.  *)
LEMMA PackTells ==
  ASSUME Pack!PackInv, pack_result = "report"
  PROVE  /\ Pack!UnsignedOnlyWhenAllowed /\ Pack!NamedManifestIsUsed
         /\ Pack!ExportsAreTheFlows /\ Pack!WarningsTellTheSupplyChain
<1>1. Pack!TypeOK /\ manifest \subseteq Manifests
  BY DEF Pack!PackInv, Pack!TypeOK
<1>2. /\ found \in Pack!Resolved /\ (allowed \/ pack_config.require_signature)
      /\ \A m \in manifest :
           /\ Pack!SignatureOk(m) /\ Pack!FlowsOk(m) /\ "blank" \notin {m.sbom, m.attestations}
           /\ pack_warnings = Pack!Missing(m)
           /\ Pack!Options.require_supply_chain => Pack!Missing(m) = {}
      /\ Pack!Options.adapter /\ Pack!Options.require_runtime_match =>
           \A m \in manifest, e \in exports : Pack!Matches(m, e)
      /\ pack_config.require_signature => \A m \in manifest : m.signature # "none"
      /\ \E m \in Manifests : manifest = {m}
  BY DEF Pack!PackInv, Pack!TypeOK, Pack!Verified, Pack!Past
<1>3. Pack!UnsignedOnlyWhenAllowed
  BY <1>1, <1>2, PackOptionsInForce DEF Pack!UnsignedOnlyWhenAllowed, Pack!SignatureOk
<1>4. Pack!NamedManifestIsUsed
  BY <1>1, <1>2, PackResolves DEF Pack!NamedManifestIsUsed
<1>5. Pack!ExportsAreTheFlows
  <2> SUFFICES ASSUME pack_config.pack_options.adapter,
                      pack_config.pack_options.require_runtime_match,
                      NEW m \in manifest, NEW e \in exports
               PROVE  /\ \A i \in DOMAIN e :
                           Pack!Cardinality({j \in DOMAIN m.flows : m.flows[j].id = e[i]}) = 1
                      /\ Pack!IdsOf(m) \subseteq Pack!ToSet(e)
    BY DEF Pack!ExportsAreTheFlows
  <2>1. Pack!IdsOf(m) = Pack!ToSet(e) /\ Pack!FlowsOk(m) /\ m \in Manifests
    BY <1>1, <1>2, PackOptionsInForce DEF Pack!Matches
  <2>2. \A i \in DOMAIN e : e[i] \in Pack!IdsOf(m)
    BY <2>1 DEF Pack!ToSet
  <2> QED BY <2>1, <2>2, PackOneFlow
<1>6. Pack!WarningsTellTheSupplyChain
  <2>1. ASSUME pack_warnings = {}, NEW m \in manifest
        PROVE  {m.sbom, m.attestations} = {"given"}
    <3>1. /\ m.sbom \in {"none", "blank", "given"} /\ m.attestations \in {"none", "blank", "given"}
          /\ "blank" \notin {m.sbom, m.attestations}
      BY <1>1, <1>2, PackManifests
    <3>2. m.sbom # "none" /\ m.attestations # "none"
      BY <1>2, <2>1 DEF Pack!Missing
    <3> QED BY <3>1, <3>2
  <2>2. pack_config.pack_options.require_supply_chain => pack_warnings = {}
    BY <1>1, <1>2, PackOptionsInForce
  <2> QED BY <2>1, <2>2 DEF Pack!WarningsTellTheSupplyChain
<1> QED BY <1>3, <1>4, <1>5, <1>6

(* The pack and runner suite (src/pack_suite.rs, suites/pack_runner.rs) on *)
(* manifests, answers and options of any size: an unsigned pack passes     *)
(* only when allowed, the manifest that was named is the one verified, the *)
(* exports are the flows, and the warnings tell what is missing.           *)
THEOREM PackReports == Spec => []PackReportIsTrue
<1> DEFINE I == part = "pack" => Pack!PackInv
<1>1. Init => I
  BY PackStarts, PackInvInit
<1>2. I /\ [Next]_vars => I'
  BY PackSteps, PackInvStep
<1>3. I => PackReportIsTrue
  <2>1. Pack!PackInv => Pack!UnsignedOnlyWhenAllowed /\ Pack!NamedManifestIsUsed
                        /\ Pack!ExportsAreTheFlows /\ Pack!WarningsTellTheSupplyChain
    BY PackTells DEF Pack!UnsignedOnlyWhenAllowed, Pack!NamedManifestIsUsed,
       Pack!ExportsAreTheFlows, Pack!WarningsTellTheSupplyChain
  <2> QED BY <2>1 DEF PackReportIsTrue, Pack!PackInv
<1> HIDE DEF I
<1> QED BY <1>1, <1>2, <1>3, PTL DEF Spec

(***************************************************************************)
(* Invocation: the two instances differ in the settings, the outputs and   *)
(* the expectations there can be, not in what the harness does, so that    *)
(* one invariant does for both.                                            *)
(***************************************************************************)

CallRun == part \in {"call", "egress"}

(* A behaviour of these parts begins before the first check.               *)
LEMMA CallStarts ==
  ASSUME Init, CallRun
  PROVE  /\ Egress!IsSetting(call) /\ call_files = call.files /\ call_pc = "program"
         /\ child = {} /\ call_exit = {} /\ expected = Egress!Anything
         /\ verdict = Egress!None
         /\ part = "call" => expected \in Call!Expectations
<1> USE CallParameters
<1>1. CASE part = "call"
  <2>1. Call!Init /\ Call!IsSetting(call)
    BY <1>1 DEF Init, Call!Init, Call!SettingsAssumption
  <2>2. Call!IsSetting(call) => Egress!IsSetting(call)
    BY DEF Call!IsSetting, Egress!IsSetting, Call!Path, Egress!Path, Call!None, Egress!None,
       Call!Disable, Egress!Disable, Call!Files, Egress!Files, Call!Dirs, Egress!Dirs,
       Call!Names, Egress!Names
  <2>3. Call!Anything = Egress!Anything /\ Call!Anything \in Call!Expectations
    BY DEF Call!Anything, Egress!Anything, Call!NoJson, Egress!NoJson, Call!Expectations
  <2> QED BY <2>1, <2>2, <2>3 DEF Call!Init, Call!None, Egress!None
<1>2. CASE part = "egress"
  BY <1>2 DEF Init, Egress!Init, Egress!SettingsAssumption
<1> QED BY <1>1, <1>2 DEF CallRun

(* A step of Toolkit is one of a call, or changes nothing of it.           *)
LEMMA CallSteps ==
  ASSUME [Next]_vars, CallRun'
  PROVE  /\ part' = part /\ [Egress!Next]_(Egress!vars)
         /\ part = "call" => expected' = expected \/ expected' \in Call!Expectations
<1>1. CASE part = "call" /\ Call!Next /\ OthersStay
  <2>1. /\ Call!CheckProgram => Egress!CheckProgram
        /\ Call!CheckArgument => Egress!CheckArgument
    BY DEF Call!CheckProgram, Egress!CheckProgram, Call!CheckArgument, Egress!CheckArgument,
       Call!Check, Egress!Check, Call!In, Egress!In, Call!Fail, Egress!Fail
  <2>2. Call!Spawn => Egress!Spawn
    BY DEF Call!Spawn, Egress!Spawn, Call!RunsIn, Egress!RunsIn, Call!None, Egress!None,
       Call!Executed, Egress!Executed, Call!Started, Egress!Started, Call!Network, Egress!Network,
       Call!online_enabled, Egress!online_enabled, Call!In, Egress!In, Call!Fail, Egress!Fail
  <2>3. Call!Judge => Egress!Judge
    <3>1. \A e \in Call!Expectations : \A st, output :
            Call!Accepts(e, st, output) <=> Egress!Accepts(e, st, output)
      <4>1. \A e \in Call!Expectations : e.egress = Egress!NoJson
        BY DEF Call!Expectations, Call!NoJson, Egress!NoJson
      <4> QED BY <4>1 DEF Call!Accepts, Egress!Accepts, Call!NoJson, Egress!NoJson
    <3>2. Call!Expectations \subseteq Egress!Expectations /\ Call!NoJson = Egress!NoJson
      BY DEF Call!Expectations, Egress!Expectations, Call!NoJson, Egress!NoJson
    <3> QED BY <3>1, <3>2 DEF Call!Judge, Egress!Judge
  <2>4. ASSUME NEW f \in Call!Files, Call!Remove(f)
        PROVE  \E g \in Egress!Files : Egress!Remove(g)
    BY <2>4 DEF Call!Remove, Egress!Remove, Call!Files, Egress!Files, Call!Dirs, Egress!Dirs,
       Call!Names, Egress!Names
  <2>5. Egress!Next
    BY <1>1, <2>1, <2>2, <2>3, <2>4 DEF Call!Next, Egress!Next
  <2>6. expected' = expected \/ expected' \in Call!Expectations
    BY <1>1 DEF Call!Next, Call!CheckProgram, Call!CheckArgument, Call!Spawn, Call!Judge, Call!Remove,
       Call!Fail
  <2> QED BY <1>1, <2>5, <2>6 DEF OthersStay
<1>2. CASE Next /\ ~(part = "call" /\ Call!Next /\ OthersStay)
  BY <1>2 DEF Next, OthersStay, CallRun, callVars, Egress!vars
<1>3. CASE UNCHANGED vars
  BY <1>3 DEF vars, callVars, Egress!vars, CallRun
<1> QED BY <1>1, <1>2, <1>3

(* Nothing runs at first.                                                  *)
LEMMA CallInvInit ==
  ASSUME Init, CallRun PROVE Egress!CallInv
<1>1. Egress!TypeOK
  <2>1. Egress!Anything \in Egress!Expectations
    BY DEF Egress!Expectations, Egress!Anything
  <2> QED BY <2>1, CallStarts DEF Egress!TypeOK, Egress!None
<1>2. Egress!Prepared /\ Egress!Judged
  BY CallStarts DEF Egress!Prepared, Egress!Judged
<1> QED BY <1>1, <1>2 DEF Egress!CallInv

(* What the harness and the child make of a call stays as it is.           *)
LEMMA CallRest ==
  ASSUME UNCHANGED call
  PROVE  /\ Egress!Started' = Egress!Started
         /\ Egress!In("cwd", "pack")' = Egress!In("cwd", "pack")
         /\ (Egress!IsSetting(call)' <=> Egress!IsSetting(call))
  BY DEF Egress!Started, Egress!Executed, Egress!RunsIn, Egress!Network, Egress!online_enabled,
     Egress!In, Egress!IsSetting

(* A call that is refused.                                                 *)
LEMMA CallFails ==
  ASSUME Egress!CallInv, Egress!Fail, call_pc \in {"program", "argument", "spawn"}
  PROVE  Egress!CallInv'
<1>1. /\ UNCHANGED <<call, call_files, child, call_exit, expected>>
      /\ call_pc' = "end" /\ verdict' = "error" /\ call_exit = {}
  BY DEF Egress!Fail, Egress!CallInv, Egress!Judged
<1>2. Egress!TypeOK'
  BY <1>1, CallRest DEF Egress!CallInv, Egress!TypeOK, Egress!None
<1>3. Egress!Prepared'
  BY <1>1, CallRest DEF Egress!CallInv, Egress!Prepared
<1>4. Egress!Judged'
  BY <1>1 DEF Egress!Judged
<1> QED BY <1>2, <1>3, <1>4 DEF Egress!CallInv

(* What a child runs with.                                                 *)
LEMMA CallStarted ==
  ASSUME Egress!IsSetting(call), Egress!RunsIn # "missing"
  PROVE  /\ Egress!Started.program = Egress!Executed
         /\ Egress!Started.pack.dir \in Egress!Dirs /\ Egress!Started.network \in Egress!Disable
<1>1. Egress!RunsIn \in {"cwd", "work"}
  BY DEF Egress!RunsIn, Egress!IsSetting, Egress!None
<1>2. Egress!Network \in Egress!Disable
  BY DEF Egress!Network, Egress!IsSetting, Egress!Disable
<1>3. Egress!In(Egress!RunsIn, "pack").dir \in Egress!Dirs
  BY <1>1 DEF Egress!In, Egress!Dirs
<1> QED BY <1>2, <1>3 DEF Egress!Started

(* The checks, the spawn, and the removal of a file.                       *)
LEMMA CallGoesOn ==
  ASSUME Egress!CallInv,
         \/ Egress!CheckProgram \/ Egress!CheckArgument \/ Egress!Spawn
         \/ \E f \in Egress!Files : Egress!Remove(f)
  PROVE  Egress!CallInv'
<1>1. /\ Egress!TypeOK /\ Egress!IsSetting(call) /\ call_files \subseteq call.files
      /\ UNCHANGED call
  BY DEF Egress!CallInv, Egress!TypeOK, Egress!CheckProgram, Egress!CheckArgument, Egress!Spawn,
     Egress!Remove, Egress!Fail
<1>2. CASE Egress!CheckProgram
  <2>1. CASE Egress!Fail
    BY <1>2, <2>1, CallFails DEF Egress!CheckProgram
  <2>2. CASE ~Egress!Fail
    <3>1. /\ call_pc = "program" /\ call_pc' = "argument"
          /\ UNCHANGED <<call, call_files, child, call_exit, expected, verdict>>
      BY <1>2, <2>2 DEF Egress!CheckProgram
    <3>2. Egress!TypeOK'
      BY <1>1, <3>1, CallRest DEF Egress!TypeOK
    <3>3. Egress!Prepared'
      BY <3>1, CallRest DEF Egress!CallInv, Egress!Prepared
    <3>4. Egress!Judged'
      BY <3>1 DEF Egress!CallInv, Egress!Judged
    <3> QED BY <3>2, <3>3, <3>4 DEF Egress!CallInv
  <2> QED BY <2>1, <2>2
<1>3. CASE Egress!CheckArgument
  <2>1. CASE Egress!Fail
    BY <1>3, <2>1, CallFails DEF Egress!CheckArgument
  <2>2. CASE ~Egress!Fail
    <3>1. /\ call_pc = "argument" /\ call_pc' = "spawn"
          /\ UNCHANGED <<call, call_files, child, call_exit, expected, verdict>>
          /\ call.tool = "runner" => Egress!In("cwd", "pack") \in call_files
      BY <1>3, <2>2 DEF Egress!CheckArgument, Egress!Check
    <3>2. Egress!TypeOK'
      BY <1>1, <3>1, CallRest DEF Egress!TypeOK
    <3>3. Egress!Prepared'
      BY <1>1, <3>1, CallRest DEF Egress!CallInv, Egress!Prepared
    <3>4. Egress!Judged'
      BY <3>1 DEF Egress!CallInv, Egress!Judged
    <3> QED BY <3>2, <3>3, <3>4 DEF Egress!CallInv
  <2> QED BY <2>1, <2>2
<1>4. CASE Egress!Spawn
  <2>1. CASE Egress!Fail
    BY <1>4, <2>1, CallFails DEF Egress!Spawn
  <2>2. CASE ~Egress!Fail
    <3>1. /\ call_pc = "spawn" /\ call_pc' = "judge" /\ child' = {Egress!Started}
          /\ Egress!RunsIn # "missing" /\ Egress!Executed \in call_files
          /\ UNCHANGED <<call, call_files, call_exit, expected, verdict>>
      BY <1>4, <2>2 DEF Egress!Spawn
    <3>2. Egress!TypeOK'
      BY <1>1, <3>1, CallRest, CallStarted DEF Egress!TypeOK
    <3>3. Egress!Prepared'
      BY <1>1, <3>1, CallRest DEF Egress!CallInv, Egress!Prepared
    <3>4. Egress!Judged'
      BY <3>1 DEF Egress!CallInv, Egress!Judged
    <3> QED BY <3>2, <3>3, <3>4 DEF Egress!CallInv
  <2> QED BY <2>1, <2>2
<1>5. CASE \E f \in Egress!Files : Egress!Remove(f)
  <2>1. /\ call_files' \subseteq call_files
        /\ UNCHANGED <<call, call_pc, child, call_exit, expected, verdict>>
    BY <1>5 DEF Egress!Remove
  <2>2. Egress!TypeOK'
    BY <1>1, <2>1, CallRest DEF Egress!TypeOK
  <2>3. Egress!Prepared'
    BY <2>1, CallRest DEF Egress!CallInv, Egress!Prepared
  <2>4. Egress!Judged'
    BY <2>1 DEF Egress!CallInv, Egress!Judged
  <2> QED BY <2>2, <2>3, <2>4 DEF Egress!CallInv
<1> QED BY <1>2, <1>3, <1>4, <1>5

(* The verdict.                                                            *)
LEMMA CallJudge ==
  ASSUME Egress!CallInv, Egress!Judge PROVE Egress!CallInv'
<1>1. PICK e \in Egress!Expectations, s \in {0, 1}, output \in Values \cup {Egress!NoJson} :
        /\ expected' = e /\ call_exit' = {[status |-> s, output |-> output]}
        /\ verdict' = IF Egress!Accepts(e, s, output) THEN "ok" ELSE "error"
  BY DEF Egress!Judge
<1>2. /\ call_pc = "judge" /\ call_pc' = "end" /\ UNCHANGED <<call, call_files, child>>
      /\ child # {}
  BY DEF Egress!Judge, Egress!CallInv, Egress!Prepared
<1>3. Egress!TypeOK'
  BY <1>1, <1>2, CallRest DEF Egress!CallInv, Egress!TypeOK, Egress!None
<1>4. Egress!Prepared'
  BY <1>2, CallRest DEF Egress!CallInv, Egress!Prepared
<1>5. Egress!Judged'
  <2>1. Egress!Accepts(e, s, output)' <=> Egress!Accepts(e, s, output)
    BY DEF Egress!Accepts
  <2> QED BY <1>1, <1>2, <2>1 DEF Egress!Judged
<1> QED BY <1>3, <1>4, <1>5 DEF Egress!CallInv

(* Every step preserves the invariant.                                     *)
LEMMA CallInvStep ==
  ASSUME Egress!CallInv, [Egress!Next]_(Egress!vars) PROVE Egress!CallInv'
<1>1. CASE UNCHANGED Egress!vars
  <2>1. UNCHANGED <<call, call_files, call_pc, child, call_exit, expected, verdict>>
    BY <1>1 DEF Egress!vars
  <2>2. Egress!TypeOK'
    BY <2>1, CallRest DEF Egress!CallInv, Egress!TypeOK
  <2>3. Egress!Prepared'
    BY <2>1, CallRest DEF Egress!CallInv, Egress!Prepared
  <2>4. Egress!Judged'
    BY <2>1 DEF Egress!CallInv, Egress!Judged
  <2> QED BY <2>2, <2>3, <2>4 DEF Egress!CallInv
<1>2. CASE Egress!Next
  BY <1>2, CallGoesOn, CallJudge DEF Egress!Next
<1> QED BY <1>1, <1>2

(* What runs is what was checked, where both are told the same, and off    *)
(* the network unless someone opted in.                                    *)
LEMMA CallTells ==
  ASSUME Egress!CallInv PROVE Egress!RunsWhatWasChecked /\ Egress!NetworkIsOptedIn
<1>1. \A c \in child : c = Egress!Started
  BY DEF Egress!CallInv, Egress!Prepared
<1>2. Egress!RunsWhatWasChecked
  <2> SUFFICES ASSUME NEW c \in child
               PROVE  /\ Egress!SaysTheSame("program") => c.program = Egress!In("cwd", "program")
                      /\ Egress!SaysTheSame("pack") /\ call.tool = "runner" =>
                           c.pack \in call.files
    BY DEF Egress!RunsWhatWasChecked
  <2>1. c.program = Egress!Executed /\ c.pack = Egress!In(Egress!RunsIn, "pack")
    BY <1>1 DEF Egress!Started
  <2>2. \A name : Egress!SaysTheSame(name) => Egress!In(Egress!RunsIn, name) = Egress!In("cwd", name)
    BY DEF Egress!SaysTheSame, Egress!In, Egress!RunsIn
  <2>3. Egress!SaysTheSame("program") => Egress!Executed = Egress!In(Egress!RunsIn, "program")
    BY DEF Egress!Executed, Egress!SaysTheSame
  <2>4. call.tool = "runner" => Egress!In("cwd", "pack") \in call.files
    BY DEF Egress!CallInv, Egress!Prepared
  <2> QED BY <2>1, <2>2, <2>3, <2>4
<1>3. Egress!NetworkIsOptedIn
  <2>1. call.given \in {"unset", "0", "1"}
    BY DEF Egress!CallInv, Egress!TypeOK, Egress!IsSetting, Egress!Disable
  <2>2. \A c \in child : c.network = Egress!Network
    BY <1>1 DEF Egress!Started
  <2> QED BY <2>1, <2>2 DEF Egress!NetworkIsOptedIn, Egress!Network
<1> QED BY <1>2, <1>3

(* Counting from 0 reaches every number.                                   *)
LEMMA NaturalSteps ==
  ASSUME NEW S, 0 \in S, \A n \in Nat : n \in S => n + 1 \in S
  PROVE  Nat \subseteq S
<1> DEFINE Rest == Nat \ S
<1>1. SUFFICES ASSUME Rest # {} PROVE FALSE
  OBVIOUS
<1>2. PICK n \in Rest : \A m \in Rest : ~ (<<m, n>> \in OpToRel(<, Nat))
  <2> HIDE DEF Rest
  <2>1. Rest \subseteq Nat
    BY DEF Rest
  <2> QED BY <1>1, <2>1, NatLessThanWellFounded, WFMin
<1>3. \A m \in Rest : ~ (m < n)
  BY <1>2 DEF OpToRel
<1>4. n # 0 /\ n - 1 \in Nat /\ n - 1 \notin Rest
  BY <1>3
<1> QED BY <1>4

(* What is true of a value when it is true of all there is inside of it is *)
(* true of every value.                                                    *)
LEMMA JsonInduction ==
  ASSUME NEW T, \A v \in Values : Egress!PartsOf(v) \subseteq T => v \in T
  PROVE  Values \subseteq T
<1> DEFINE S == {n \in Nat : \A v \in Values : Egress!Depth[v] < n => v \in T}
<1>1. \A v \in Values : /\ Egress!Depth[v] \in Nat /\ Egress!PartsOf(v) \subseteq Values
                        /\ \A p \in Egress!PartsOf(v) : Egress!Depth[p] < Egress!Depth[v]
  BY CallParameters DEF Egress!SettingsAssumption
<1>2. 0 \in S
  BY <1>1
<1>3. \A n \in Nat : n \in S => n + 1 \in S
  <2> SUFFICES ASSUME NEW n \in Nat, n \in S, NEW v \in Values, Egress!Depth[v] < n + 1
               PROVE  v \in T
    OBVIOUS
  <2>1. ASSUME NEW p \in Egress!PartsOf(v) PROVE p \in T
    <3>1. p \in Values /\ Egress!Depth[p] < n
      BY <1>1
    <3> QED BY <3>1
  <2> QED BY <2>1
<1>4. Nat \subseteq S
  <2> HIDE DEF S
  <2> QED BY <1>2, <1>3, NaturalSteps
<1> QED BY <1>1, <1>4

(* Step computes, for a value, from a function on all values, and uses     *)
(* what that function has for the values inside.                           *)
MapsInto(Step, C) == \A v \in Values : \A f \in [Values -> C] : Step[v][f] \in C

UsesParts(Step, C) ==
  \A v \in Values : \A f, g \in [Values -> C] :
    (\A p \in Egress!PartsOf(v) : f[p] = g[p]) => Step[v][f] = Step[v][g]

Agreement(Step, C) ==
  \A D \in SUBSET Values : \A f, g \in [Values -> C] :
    /\ \A v \in D : Egress!PartsOf(v) \subseteq D
    /\ \A v \in D : f[v] = Step[v][f]
    /\ \A v \in D : g[v] = Step[v][g]
    => \A v \in D : f[v] = g[v]

(* Where two functions are computed alike they agree.                      *)
LEMMA JsonAgreement ==
  ASSUME NEW C, NEW Step, UsesParts(Step, C) PROVE Agreement(Step, C)
<1> USE DEF UsesParts, Agreement
<1> SUFFICES ASSUME NEW D \in SUBSET Values, \A v \in D : Egress!PartsOf(v) \subseteq D,
                    NEW f \in [Values -> C], \A v \in D : f[v] = Step[v][f],
                    NEW g \in [Values -> C], \A v \in D : g[v] = Step[v][g]
             PROVE  \A v \in D : f[v] = g[v]
  OBVIOUS
<1> DEFINE T == {v \in Values : v \in D => f[v] = g[v]}
<1>1. ASSUME NEW v \in Values, Egress!PartsOf(v) \subseteq T PROVE v \in T
  <2> SUFFICES ASSUME v \in D PROVE f[v] = g[v]
    OBVIOUS
  <2>1. \A p \in Egress!PartsOf(v) : f[p] = g[p]
    BY <1>1
  <2>2. Step[v][f] = Step[v][g]
    BY <2>1
  <2> QED BY <2>2
<1>2. Values \subseteq T
  <2> HIDE DEF T
  <2> QED BY <1>1, JsonInduction
<1> QED BY <1>2

(* The values that are nested less deeply than n.                          *)
Below(n) == {v \in Values : Egress!Depth[v] < n}

LEMMA BelowGrows ==
  /\ Below(0) = {} /\ \A n \in Nat : Below(n) \in SUBSET Values
  /\ \A v \in Values : \E n \in Nat : v \in Below(n)
  /\ \A n \in Nat : \A v \in Below(n) : Egress!PartsOf(v) \subseteq Below(n)
  /\ \A n \in Nat : \A v \in Below(n + 1) : Egress!PartsOf(v) \subseteq Below(n)
<1>1. \A v \in Values : /\ Egress!Depth[v] \in Nat /\ Egress!PartsOf(v) \subseteq Values
                        /\ \A p \in Egress!PartsOf(v) : Egress!Depth[p] < Egress!Depth[v]
  BY CallParameters DEF Egress!SettingsAssumption
<1>2. Below(0) = {}
  BY <1>1 DEF Below
<1>3. ASSUME NEW v \in Values PROVE \E n \in Nat : v \in Below(n)
  <2>1. Egress!Depth[v] \in Nat
    BY <1>1
  <2>2. Egress!Depth[v] + 1 \in Nat /\ Egress!Depth[v] < Egress!Depth[v] + 1
    BY <2>1
  <2>3. v \in Below(Egress!Depth[v] + 1)
    BY <2>2 DEF Below
  <2> QED BY <2>2, <2>3
<1>4. ASSUME NEW n \in Nat, NEW v \in Values, Egress!Depth[v] < n + 1, NEW p \in Egress!PartsOf(v)
      PROVE  p \in Values /\ Egress!Depth[p] < n
  BY <1>1, <1>4
<1>5. ASSUME NEW n \in Nat, NEW v \in Below(n + 1) PROVE Egress!PartsOf(v) \subseteq Below(n)
  BY <1>4, <1>5 DEF Below
<1>6. ASSUME NEW n \in Nat, NEW v \in Below(n) PROVE v \in Below(n + 1)
  BY <1>1, <1>6 DEF Below
<1>7. \A n \in Nat : Below(n) \in SUBSET Values
  BY DEF Below
<1> QED BY <1>2, <1>3, <1>5, <1>6, <1>7

(* A function on values that is computed from what it has for the values   *)
(* inside exists.                                                          *)
LEMMA JsonRecursion ==
  ASSUME NEW C, C # {}, NEW Step, MapsInto(Step, C), UsesParts(Step, C)
  PROVE  \E f \in [Values -> C] : \A v \in Values : f[v] = Step[v][f]
<1>0. Agreement(Step, C)
  BY JsonAgreement
<1> DEFINE F == [Values -> C]
           Solves(f, n) == \A v \in Below(n) : f[v] = Step[v][f]
           Solved == {n \in Nat : \E f \in F : Solves(f, n)}
<1>1. 0 \in Solved
  <2>1. PICK c : c \in C
    OBVIOUS
  <2>2. [v \in Values |-> c] \in F /\ Below(0) = {}
    BY <2>1, BelowGrows
  <2> QED BY <2>2
<1>2. ASSUME NEW n \in Nat, n \in Solved PROVE n + 1 \in Solved
  <2>1. PICK f \in F : Solves(f, n)
    BY <1>2
  <2> DEFINE g == [v \in Values |-> Step[v][f]]
  <2>2. g \in F
    BY DEF MapsInto
  <2>3. ASSUME NEW v \in Below(n + 1) PROVE g[v] = Step[v][g]
    <3>1. v \in Values /\ Egress!PartsOf(v) \subseteq Below(n) /\ Below(n) \subseteq Values
      BY <2>3, BelowGrows
    <3>2. \A p \in Egress!PartsOf(v) : f[p] = g[p]
      BY <2>1, <3>1
    <3>3. g[v] = Step[v][f]
      BY <3>1
    <3> HIDE DEF g
    <3> QED BY <2>1, <2>2, <3>1, <3>2, <3>3 DEF UsesParts
  <2> HIDE DEF g
  <2> QED BY <2>2, <2>3
<1>3. Nat \subseteq Solved
  <2> HIDE DEF Solved
  <2> QED BY <1>1, <1>2, NaturalSteps
<1> DEFINE h(n) == CHOOSE f \in F : Solves(f, n)
           k(v) == CHOOSE n \in Nat : v \in Below(n)
           r == [v \in Values |-> h(k(v))[v]]
<1>4. ASSUME NEW n \in Nat PROVE h(n) \in F /\ Solves(h(n), n)
  BY <1>3
<1>5. ASSUME NEW v \in Values PROVE k(v) \in Nat /\ v \in Below(k(v))
  BY BelowGrows
<1> HIDE DEF h, k
<1>6. r \in F
  BY <1>4, <1>5
<1>7. ASSUME NEW v \in Values PROVE r[v] = Step[v][r]
  <2> DEFINE n == k(v)
  <2>1. n \in Nat /\ v \in Below(n) /\ h(n) \in F /\ Solves(h(n), n) /\ r[v] = h(n)[v]
    BY <1>4, <1>5
  <2>2. ASSUME NEW p \in Egress!PartsOf(v) PROVE h(n)[p] = r[p]
    <3> DEFINE m == k(p)
               D == Below(m) \cap Below(n)
    <3>1. p \in Values /\ p \in Below(n)
      BY <2>1, BelowGrows
    <3>2. m \in Nat /\ p \in Below(m) /\ h(m) \in F /\ Solves(h(m), m) /\ r[p] = h(m)[p]
      BY <1>4, <1>5, <3>1
    <3> HIDE DEF m, n, r
    <3>3. D \in SUBSET Values /\ p \in D /\ \A x \in D : Egress!PartsOf(x) \subseteq D
      BY <2>1, <3>1, <3>2, BelowGrows
    <3>4. (\A x \in D : h(n)[x] = Step[x][h(n)]) /\ (\A x \in D : h(m)[x] = Step[x][h(m)])
      BY <2>1, <3>2
    <3>5. \A x \in D : h(n)[x] = h(m)[x]
      <4> DEFINE f == h(n)
                 g == h(m)
      <4>1. /\ f \in [Values -> C] /\ (\A x \in D : f[x] = Step[x][f])
            /\ g \in [Values -> C] /\ (\A x \in D : g[x] = Step[x][g])
        BY <2>1, <3>2, <3>4
      <4> HIDE DEF D, f, g
      <4>2. \A x \in D : f[x] = g[x]
        BY <1>0, <3>3, <4>1 DEF Agreement
      <4> QED BY <4>2 DEF f, g
    <3> QED BY <3>2, <3>3, <3>5
  <2> HIDE DEF r, n
  <2>3. Step[v][h(n)] = Step[v][r]
    BY <1>6, <2>1, <2>2 DEF UsesParts
  <2>4. h(n)[v] = Step[v][h(n)]
    BY <2>1
  <2> QED BY <2>1, <2>3, <2>4
<1> HIDE DEF r
<1> QED BY <1>6, <1>7

(* json_contains, for a function c on pairs of values in place of itself.  *)
Contains(c, actual, wanted) ==
  IF actual.kind = "object" /\ wanted.kind = "object"
  THEN \A key \in DOMAIN wanted.fields :
         key \in DOMAIN actual.fields /\ c[<<actual.fields[key], wanted.fields[key]>>]
  ELSE IF actual.kind = "array" /\ wanted.kind = "array"
  THEN \A i \in DOMAIN wanted.items : \E j \in DOMAIN actual.items :
         c[<<actual.items[j], wanted.items[i]>>]
  ELSE actual = wanted

(* What the parts of a value are.                                          *)
LEMMA JsonParts ==
  ASSUME NEW v \in Values
  PROVE  /\ v.kind \in {"scalar", "array", "object"} /\ Egress!PartsOf(v) \subseteq Values
         /\ v.kind = "object" => \A key \in DOMAIN v.fields : v.fields[key] \in Egress!PartsOf(v)
         /\ v.kind = "array" => \A i \in DOMAIN v.items : v.items[i] \in Egress!PartsOf(v)
<1>1. v.kind \in {"scalar", "array", "object"} /\ Egress!PartsOf(v) \subseteq Values
  BY CallParameters DEF Egress!SettingsAssumption
<1>2. ASSUME v.kind = "object", NEW key \in DOMAIN v.fields PROVE v.fields[key] \in Egress!PartsOf(v)
  BY <1>2 DEF Egress!PartsOf
<1>3. ASSUME v.kind = "array", NEW i \in DOMAIN v.items PROVE v.items[i] \in Egress!PartsOf(v)
  BY <1>3 DEF Egress!PartsOf
<1> QED BY <1>1, <1>2, <1>3

LEMMA ContainsOrNot ==
  ASSUME NEW c, NEW a, NEW w PROVE Contains(c, a, w) \in BOOLEAN
<1>1. CASE a.kind = "object" /\ w.kind = "object"
  BY <1>1 DEF Contains
<1>2. CASE ~(a.kind = "object" /\ w.kind = "object") /\ a.kind = "array" /\ w.kind = "array"
  BY <1>2 DEF Contains
<1>3. CASE ~(a.kind = "object" /\ w.kind = "object") /\ ~(a.kind = "array" /\ w.kind = "array")
  BY <1>3 DEF Contains
<1> QED BY <1>1, <1>2, <1>3

(* Contains looks at the parts of both values only.                        *)
LEMMA ContainsUsesParts ==
  ASSUME NEW c, NEW d, NEW a \in Values, NEW w \in Values,
         \A x \in Values : \A p \in Egress!PartsOf(w) : c[<<x, p>>] = d[<<x, p>>]
  PROVE  Contains(c, a, w) = Contains(d, a, w)
<1>1. CASE a.kind = "object" /\ w.kind = "object"
  <2>1. ASSUME NEW key \in DOMAIN w.fields, key \in DOMAIN a.fields
        PROVE  c[<<a.fields[key], w.fields[key]>>] = d[<<a.fields[key], w.fields[key]>>]
    <3>1. w.fields[key] \in Egress!PartsOf(w) /\ a.fields[key] \in Values
      BY <1>1, <2>1, JsonParts
    <3> QED BY <3>1
  <2> QED BY <1>1, <2>1 DEF Contains
<1>2. CASE a.kind = "array" /\ w.kind = "array"
  <2>1. ASSUME NEW i \in DOMAIN w.items, NEW j \in DOMAIN a.items
        PROVE  c[<<a.items[j], w.items[i]>>] = d[<<a.items[j], w.items[i]>>]
    <3>1. w.items[i] \in Egress!PartsOf(w) /\ a.items[j] \in Values
      BY <1>2, JsonParts
    <3> QED BY <3>1
  <2> QED BY <1>2, <2>1 DEF Contains
<1>3. CASE ~(a.kind = "object" /\ w.kind = "object") /\ ~(a.kind = "array" /\ w.kind = "array")
  BY <1>3 DEF Contains
<1> QED BY <1>1, <1>2, <1>3

(* json_contains is what its definition says.                              *)
LEMMA JsonContains ==
  Egress!json_contains =
    [pair \in Values \X Values |-> Contains(Egress!json_contains, pair[1], pair[2])]
<1> DEFINE C == [Values -> BOOLEAN]
           Pairs(f) == [pair \in Values \X Values |-> f[pair[2]][pair[1]]]
           Step == [w \in Values |-> [f \in [Values -> C] |->
                      [a \in Values |-> Contains(Pairs(f), a, w)]]]
<1>1. C # {}
  <2>1. [a \in Values |-> TRUE] \in C
    OBVIOUS
  <2> QED BY <2>1
<1>2. MapsInto(Step, C)
  <2> SUFFICES ASSUME NEW w \in Values, NEW f \in [Values -> C] PROVE Step[w][f] \in C
    <3> HIDE DEF Step, C
    <3> QED BY DEF MapsInto
  <2>1. \A a \in Values : Contains(Pairs(f), a, w) \in BOOLEAN
    <3> HIDE DEF Pairs
    <3> QED BY ContainsOrNot
  <2>2. Step[w][f] = [a \in Values |-> Contains(Pairs(f), a, w)]
    <3> HIDE DEF Pairs
    <3> QED OBVIOUS
  <2> HIDE DEF Step, Pairs
  <2> QED BY <2>1, <2>2
<1>3. UsesParts(Step, C)
  <2> SUFFICES ASSUME NEW w \in Values, NEW f \in [Values -> C], NEW g \in [Values -> C],
                      \A p \in Egress!PartsOf(w) : f[p] = g[p]
               PROVE  Step[w][f] = Step[w][g]
    <3> HIDE DEF Step, C
    <3> QED BY DEF UsesParts
  <2>1. ASSUME NEW a \in Values PROVE Contains(Pairs(f), a, w) = Contains(Pairs(g), a, w)
    <3>1. ASSUME NEW x \in Values, NEW p \in Egress!PartsOf(w)
          PROVE  Pairs(f)[<<x, p>>] = Pairs(g)[<<x, p>>]
      <4>1. p \in Values /\ f[p] = g[p]
        BY JsonParts
      <4>2. Pairs(f)[<<x, p>>] = f[p][x] /\ Pairs(g)[<<x, p>>] = g[p][x]
        BY <4>1
      <4> HIDE DEF Pairs
      <4> QED BY <4>1, <4>2
    <3> HIDE DEF Pairs
    <3> QED BY <3>1, ContainsUsesParts
  <2> HIDE DEF Pairs
  <2> QED BY <2>1
<1>4. PICK f \in [Values -> C] : \A w \in Values : f[w] = Step[w][f]
  <2> HIDE DEF C, Step
  <2> QED BY <1>1, <1>2, <1>3, JsonRecursion
<1> DEFINE c == Pairs(f)
<1>5. c = [pair \in Values \X Values |-> Contains(c, pair[1], pair[2])]
  <2>1. ASSUME NEW a \in Values, NEW w \in Values PROVE f[w][a] = Contains(c, a, w)
    <3>1. Step[w][f] = [x \in Values |-> Contains(c, x, w)]
      <4> HIDE DEF Pairs
      <4> QED OBVIOUS
    <3> HIDE DEF c, Step
    <3> QED BY <1>4, <3>1
  <2>2. c = [pair \in Values \X Values |-> f[pair[2]][pair[1]]]
    OBVIOUS
  <2>3. [pair \in Values \X Values |-> f[pair[2]][pair[1]]] = [pair \in Values \X Values |-> Contains(c, pair[1], pair[2])]
    <3> HIDE DEF c
    <3> QED BY <2>1, Zenon
  <2> HIDE DEF c
  <2> QED BY <2>2, <2>3
<1>6. \E d : d = [pair \in Values \X Values |-> Contains(d, pair[1], pair[2])]
  <2> HIDE DEF c
  <2> WITNESS c
  <2> QED BY <1>5
<1> HIDE DEF C, Pairs, Step, c
<1> QED BY <1>6 DEF Egress!json_contains, Contains

(* Leaves, for a function f on values in place of itself.                  *)
Ends(f, v) ==
  IF v.kind = "object"
  THEN UNION {{<<key>> \o l : l \in f[v.fields[key]]} : key \in DOMAIN v.fields}
  ELSE IF v.kind = "array"
  THEN UNION {{<<"item">> \o l : l \in f[v.items[i]]} : i \in DOMAIN v.items}
  ELSE {<<v.value>>}

(* Leaves is what its definition says.                                     *)
LEMMA JsonLeaves ==
  Egress!Leaves = [v \in Values |-> Ends(Egress!Leaves, v)]
<1> DEFINE Keys == UNION {DOMAIN v.fields : v \in {u \in Values : u.kind = "object"}}
           Scalars == {v.value : v \in Values}
           Labels == {"item"} \cup Keys \cup Scalars
           C == SUBSET Seq(Labels)
           Step == [v \in Values |-> [f \in [Values -> C] |-> Ends(f, v)]]
<1>1. C # {}
  OBVIOUS
<1>2. ASSUME NEW v \in Values, NEW f \in [Values -> C] PROVE Ends(f, v) \in C
  <2>1. \A k \in Labels : \A l \in Seq(Labels) : <<k>> \o l \in Seq(Labels)
    <3> HIDE DEF Labels
    <3> QED OBVIOUS
  <2>2. CASE v.kind = "object"
    <3>1. ASSUME NEW key \in DOMAIN v.fields, NEW l \in f[v.fields[key]]
          PROVE  <<key>> \o l \in Seq(Labels)
      <4>1. key \in Labels
        BY <2>2
      <4>2. v.fields[key] \in Values
        BY <2>2, JsonParts
      <4> HIDE DEF Labels
      <4>3. l \in Seq(Labels)
        BY <4>2
      <4> QED BY <2>1, <4>1, <4>3
    <3> HIDE DEF Labels
    <3>2. ASSUME NEW x \in Ends(f, v) PROVE x \in Seq(Labels)
      <4>1. PICK key \in DOMAIN v.fields : \E l \in f[v.fields[key]] : x = <<key>> \o l
        BY <2>2 DEF Ends
      <4> QED BY <3>1, <4>1
    <3> QED BY <3>2
  <2>3. CASE v.kind = "array"
    <3>1. ASSUME NEW i \in DOMAIN v.items, NEW l \in f[v.items[i]]
          PROVE  <<"item">> \o l \in Seq(Labels)
      <4>1. "item" \in Labels
        OBVIOUS
      <4>2. v.items[i] \in Values
        BY <2>3, JsonParts
      <4> HIDE DEF Labels
      <4>3. l \in Seq(Labels)
        BY <4>2
      <4> QED BY <2>1, <4>1, <4>3
    <3> HIDE DEF Labels
    <3>2. ASSUME NEW x \in Ends(f, v) PROVE x \in Seq(Labels)
      <4>1. PICK i \in DOMAIN v.items : \E l \in f[v.items[i]] : x = <<"item">> \o l
        BY <2>3 DEF Ends
      <4> QED BY <3>1, <4>1
    <3> QED BY <3>2
  <2>4. CASE v.kind \notin {"object", "array"}
    <3>1. v.value \in Labels
      <4>1. v.value \in Scalars
        OBVIOUS
      <4> HIDE DEF Keys, Scalars
      <4> QED BY <4>1
    <3> HIDE DEF Labels
    <3> QED BY <2>4, <3>1 DEF Ends
  <2> HIDE DEF C
  <2> QED BY <2>2, <2>3, <2>4
<1> HIDE DEF Labels, C
<1>3. MapsInto(Step, C)
  <2>1. \A v \in Values : \A f \in [Values -> C] : Step[v][f] = Ends(f, v)
    OBVIOUS
  <2> HIDE DEF Step
  <2> QED BY <1>2, <2>1 DEF MapsInto
<1>4. ASSUME NEW v \in Values, NEW f, NEW g, \A p \in Egress!PartsOf(v) : f[p] = g[p]
      PROVE  Ends(f, v) = Ends(g, v)
  <2>1. CASE v.kind = "object"
    <3>1. \A key \in DOMAIN v.fields : f[v.fields[key]] = g[v.fields[key]]
      BY <1>4, <2>1, JsonParts
    <3>2. {{<<key>> \o l : l \in f[v.fields[key]]} : key \in DOMAIN v.fields}
          = {{<<key>> \o l : l \in g[v.fields[key]]} : key \in DOMAIN v.fields}
      BY <3>1, Zenon
    <3> QED BY <2>1, <3>2, Zenon DEF Ends
  <2>2. CASE v.kind = "array"
    <3>1. \A i \in DOMAIN v.items : f[v.items[i]] = g[v.items[i]]
      BY <1>4, <2>2, JsonParts
    <3>2. {{<<"item">> \o l : l \in f[v.items[i]]} : i \in DOMAIN v.items}
          = {{<<"item">> \o l : l \in g[v.items[i]]} : i \in DOMAIN v.items}
      BY <3>1, Zenon
    <3>3. v.kind # "object"
      BY <2>2
    <3> QED BY <2>2, <3>2, <3>3, Zenon DEF Ends
  <2>3. CASE v.kind # "object" /\ v.kind # "array"
    BY <2>3 DEF Ends
  <2> QED BY <2>1, <2>2, <2>3
<1>5. UsesParts(Step, C)
  <2>1. \A v \in Values : \A f \in [Values -> C] : Step[v][f] = Ends(f, v)
    OBVIOUS
  <2> HIDE DEF Step
  <2> QED BY <1>4, <2>1 DEF UsesParts
<1>6. PICK f \in [Values -> C] : \A v \in Values : f[v] = Step[v][f]
  <2> HIDE DEF Step
  <2> QED BY <1>1, <1>3, <1>5, JsonRecursion
<1>7. f = [v \in Values |-> Ends(f, v)]
  <2>1. \A v \in Values : f[v] = Ends(f, v)
    BY <1>6
  <2> QED BY <2>1
<1>8. \E g : g = [v \in Values |-> Ends(g, v)]
  BY <1>7
<1> HIDE DEF Step
<1> QED BY <1>8 DEF Egress!Leaves, Ends

(* json_contains, pair by pair.                                            *)
LEMMA ContainsIs ==
  ASSUME NEW a \in Values, NEW w \in Values
  PROVE  Egress!json_contains[<<a, w>>] = Contains(Egress!json_contains, a, w)
<1> DEFINE c == Egress!json_contains
<1>1. c = [pair \in Values \X Values |-> Contains(c, pair[1], pair[2])]
  BY JsonContains
<1> HIDE DEF c
<1>2. c[<<a, w>>] = Contains(c, a, w)
  <2>1. <<a, w>> \in Values \X Values /\ <<a, w>>[1] = a /\ <<a, w>>[2] = w
    OBVIOUS
  <2> QED BY <1>1, <2>1
<1> QED BY <1>2 DEF c

(* A value contains itself.                                                *)
LEMMA ContainsItself ==
  ASSUME NEW v \in Values PROVE Egress!json_contains[<<v, v>>]
<1> DEFINE c == Egress!json_contains
           T == {u \in Values : c[<<u, u>>]}
<1>1. ASSUME NEW u \in Values, Egress!PartsOf(u) \subseteq T PROVE u \in T
  <2>1. c[<<u, u>>] = Contains(c, u, u)
    BY ContainsIs
  <2>2. \A p \in Egress!PartsOf(u) : c[<<p, p>>]
    BY <1>1
  <2> HIDE DEF c
  <2>3. Contains(c, u, u)
    BY <2>2, JsonParts DEF Contains
  <2> QED BY <2>1, <2>3
<1>2. Values \subseteq T
  <2> HIDE DEF T
  <2> QED BY <1>1, JsonInduction
<1> QED BY <1>2

(* What contains a value contains all that this one contains.              *)
LEMMA ContainsChain ==
  ASSUME NEW x \in Values, NEW y \in Values, NEW z \in Values,
         Egress!json_contains[<<x, y>>], Egress!json_contains[<<y, z>>]
  PROVE  Egress!json_contains[<<x, z>>]
<1> DEFINE c == Egress!json_contains
           T == {w \in Values : \A a, b \in Values : c[<<a, b>>] /\ c[<<b, w>>] => c[<<a, w>>]}
<1>1. ASSUME NEW w \in Values, Egress!PartsOf(w) \subseteq T PROVE w \in T
  <2> SUFFICES ASSUME NEW a \in Values, NEW b \in Values, c[<<a, b>>], c[<<b, w>>]
               PROVE  c[<<a, w>>]
    OBVIOUS
  <2>1. Contains(c, a, b) /\ Contains(c, b, w) /\ c[<<a, w>>] = Contains(c, a, w)
    BY ContainsIs
  <2>2. \A p \in Egress!PartsOf(w) : \A u, v \in Values :
          c[<<u, v>>] /\ c[<<v, p>>] => c[<<u, p>>]
    BY <1>1
  <2> HIDE DEF c, T
  <2>3. CASE b.kind = "object" /\ w.kind = "object"
    <3>1. a.kind = "object"
      BY <2>1, <2>3 DEF Contains
    <3>2. ASSUME NEW key \in DOMAIN w.fields
          PROVE  key \in DOMAIN a.fields /\ c[<<a.fields[key], w.fields[key]>>]
      <4>1. key \in DOMAIN b.fields /\ c[<<b.fields[key], w.fields[key]>>]
        BY <2>1, <2>3 DEF Contains
      <4>2. key \in DOMAIN a.fields /\ c[<<a.fields[key], b.fields[key]>>]
        BY <2>1, <2>3, <3>1, <4>1 DEF Contains
      <4>3. /\ a.fields[key] \in Values /\ b.fields[key] \in Values
            /\ w.fields[key] \in Egress!PartsOf(w)
        BY <2>3, <3>1, <4>1, <4>2, JsonParts
      <4> QED BY <2>2, <4>1, <4>2, <4>3
    <3>3. Contains(c, a, w)
      BY <2>3, <3>1, <3>2 DEF Contains
    <3> QED BY <2>1, <3>3
  <2>4. CASE b.kind = "array" /\ w.kind = "array"
    <3>1. a.kind = "array"
      BY <2>1, <2>4 DEF Contains
    <3>2. ASSUME NEW i \in DOMAIN w.items
          PROVE  \E k \in DOMAIN a.items : c[<<a.items[k], w.items[i]>>]
      <4>1. PICK j \in DOMAIN b.items : c[<<b.items[j], w.items[i]>>]
        BY <2>1, <2>4 DEF Contains
      <4>2. PICK k \in DOMAIN a.items : c[<<a.items[k], b.items[j]>>]
        BY <2>1, <2>4, <3>1 DEF Contains
      <4>3. /\ a.items[k] \in Values /\ b.items[j] \in Values
            /\ w.items[i] \in Egress!PartsOf(w)
        BY <2>4, <3>1, JsonParts
      <4> QED BY <2>2, <4>1, <4>2, <4>3
    <3>3. Contains(c, a, w)
      BY <2>4, <3>1, <3>2 DEF Contains
    <3> QED BY <2>1, <3>3
  <2>5. CASE ~(b.kind = "object" /\ w.kind = "object") /\ ~(b.kind = "array" /\ w.kind = "array")
    <3>1. b = w
      BY <2>1, <2>5 DEF Contains
    <3> QED BY <3>1
  <2> QED BY <2>3, <2>4, <2>5
<1>2. Values \subseteq T
  <2> HIDE DEF T
  <2> QED BY <1>1, JsonInduction
<1> QED BY <1>2

(* The leaves of an object are those of its fields.                        *)
LEMMA EndsOfObject ==
  ASSUME NEW f, NEW v, v.kind = "object", NEW key \in DOMAIN v.fields,
         NEW t \in f[v.fields[key]]
  PROVE  <<key>> \o t \in Ends(f, v)
<1>1. Ends(f, v) = UNION {{<<k>> \o u : u \in f[v.fields[k]]} : k \in DOMAIN v.fields}
  BY Zenon DEF Ends
<1>2. <<key>> \o t \in {<<key>> \o u : u \in f[v.fields[key]]}
  OBVIOUS
<1>3. <<key>> \o t \in UNION {{<<k>> \o u : u \in f[v.fields[k]]} : k \in DOMAIN v.fields}
  BY <1>2, Zenon
<1> QED BY <1>1, <1>3

(* The leaves of an array are those of its items.                          *)
LEMMA EndsOfArray ==
  ASSUME NEW f, NEW v, v.kind = "array", NEW i \in DOMAIN v.items, NEW t \in f[v.items[i]]
  PROVE  <<"item">> \o t \in Ends(f, v)
<1>1. v.kind # "object"
  OBVIOUS
<1>2. Ends(f, v) = UNION {{<<"item">> \o u : u \in f[v.items[j]]} : j \in DOMAIN v.items}
  BY <1>1, Zenon DEF Ends
<1>3. <<"item">> \o t \in {<<"item">> \o u : u \in f[v.items[i]]}
  OBVIOUS
<1> QED BY <1>2, <1>3, Zenon

(* The scalars of what is contained are where they are expected.           *)
LEMMA ContainsLeaves ==
  ASSUME NEW x \in Values, NEW y \in Values, Egress!json_contains[<<x, y>>]
  PROVE  Egress!Leaves[y] \subseteq Egress!Leaves[x]
<1> DEFINE c == Egress!json_contains
           f == Egress!Leaves
           T == {w \in Values : \A a \in Values : c[<<a, w>>] => f[w] \subseteq f[a]}
<1>1. \A v \in Values : f[v] = Ends(f, v)
  <2>1. f = [v \in Values |-> Ends(f, v)]
    BY JsonLeaves
  <2> HIDE DEF f
  <2> QED BY <2>1
<1>2. ASSUME NEW w \in Values, Egress!PartsOf(w) \subseteq T PROVE w \in T
  <2> SUFFICES ASSUME NEW a \in Values, c[<<a, w>>], NEW l \in f[w] PROVE l \in f[a]
    OBVIOUS
  <2>1. Contains(c, a, w)
    BY ContainsIs
  <2>2. \A p \in Egress!PartsOf(w) : \A u \in Values : c[<<u, p>>] => f[p] \subseteq f[u]
    BY <1>2
  <2> HIDE DEF c, f, T
  <2>3. CASE a.kind = "object" /\ w.kind = "object"
    <3>0. l \in Ends(f, w)
      BY <1>1
    <3>1. PICK key \in DOMAIN w.fields : \E t \in f[w.fields[key]] : l = <<key>> \o t
      BY <2>3, <3>0 DEF Ends
    <3>2. key \in DOMAIN a.fields /\ c[<<a.fields[key], w.fields[key]>>]
      BY <2>1, <2>3 DEF Contains
    <3>3. a.fields[key] \in Values /\ w.fields[key] \in Egress!PartsOf(w)
      BY <2>3, <3>2, JsonParts
    <3>4. f[w.fields[key]] \subseteq f[a.fields[key]]
      BY <2>2, <3>2, <3>3
    <3>5. l \in Ends(f, a)
      BY <2>3, <3>1, <3>2, <3>4, EndsOfObject
    <3> QED BY <1>1, <3>5
  <2>4. CASE a.kind = "array" /\ w.kind = "array"
    <3>0. l \in Ends(f, w)
      BY <1>1
    <3>1. PICK i \in DOMAIN w.items : \E t \in f[w.items[i]] : l = <<"item">> \o t
      BY <2>4, <3>0 DEF Ends
    <3>2. PICK j \in DOMAIN a.items : c[<<a.items[j], w.items[i]>>]
      BY <2>1, <2>4 DEF Contains
    <3>3. a.items[j] \in Values /\ w.items[i] \in Egress!PartsOf(w)
      BY <2>4, <3>2, JsonParts
    <3>4. f[w.items[i]] \subseteq f[a.items[j]]
      BY <2>2, <3>2, <3>3
    <3>5. l \in Ends(f, a)
      BY <2>4, <3>1, <3>4, EndsOfArray
    <3> QED BY <1>1, <3>5
  <2>5. CASE ~(a.kind = "object" /\ w.kind = "object") /\ ~(a.kind = "array" /\ w.kind = "array")
    <3>1. a = w
      BY <2>1, <2>5 DEF Contains
    <3> QED BY <3>1
  <2> QED BY <2>3, <2>4, <2>5
<1>3. Values \subseteq T
  <2> HIDE DEF T
  <2> QED BY <1>2, JsonInduction
<1> QED BY <1>3

(* What an output that is accepted is.                                     *)
LEMMA CallAccepts ==
  ASSUME NEW e \in Egress!Expectations, e.egress # Egress!NoJson, NEW s,
         NEW output \in Values \cup {Egress!NoJson}
  PROVE  /\ e.egress \in Values
         /\ Egress!Accepts(e, s, output) <=>
              (e.success => s = 0) /\ output \in Values /\ Egress!json_contains[<<output, e.egress>>]
<1>1. e.egress \in Values
  BY DEF Egress!Expectations
<1>2. Egress!NoJson \notin Values
  <2>1. Egress!NoJson.kind = "no_JSON"
    BY DEF Egress!NoJson
  <2> QED BY <2>1, JsonParts
<1> QED BY <1>1, <1>2 DEF Egress!Accepts

(* What is expected of an output that is accepted is in it, and a weaker   *)
(* expectation accepts it too.                                             *)
LEMMA CallTellsOutput ==
  ASSUME Egress!CallInv PROVE Egress!ExpectedScalarsAreThere /\ Egress!WeakerIsAccepted
<1>1. /\ expected \in Egress!Expectations
      /\ \A x \in call_exit : x.output \in Values \cup {Egress!NoJson}
                              /\ (verdict = "ok" <=> Egress!Accepts(expected, x.status, x.output))
  BY DEF Egress!CallInv, Egress!TypeOK, Egress!Judged
<1>2. Egress!ExpectedScalarsAreThere
  <2> SUFFICES ASSUME verdict = "ok", expected.egress # Egress!NoJson, NEW x \in call_exit
               PROVE  Egress!Leaves[expected.egress] \subseteq Egress!Leaves[x.output]
    BY DEF Egress!ExpectedScalarsAreThere
  <2>1. /\ x.output \in Values /\ expected.egress \in Values
        /\ Egress!json_contains[<<x.output, expected.egress>>]
    BY <1>1, CallAccepts
  <2> QED BY <2>1, ContainsLeaves
<1>3. Egress!WeakerIsAccepted
  <2> SUFFICES ASSUME NEW x \in call_exit
               PROVE  /\ x.output # Egress!NoJson /\ expected.egress = x.output =>
                           (verdict = "ok") = (expected.success => x.status = 0)
                      /\ verdict = "ok" /\ expected.egress # Egress!NoJson =>
                           \A e \in Values : Egress!json_contains[<<expected.egress, e>>] =>
                             Egress!Accepts([expected EXCEPT !.egress = e], x.status, x.output)
    BY DEF Egress!WeakerIsAccepted
  <2>1. ASSUME x.output # Egress!NoJson, expected.egress = x.output
        PROVE  (verdict = "ok") = (expected.success => x.status = 0)
    <3>1. /\ x.output \in Values
          /\ verdict = "ok" <=>
               (expected.success => x.status = 0) /\ Egress!json_contains[<<x.output, x.output>>]
      BY <1>1, <2>1, CallAccepts
    <3>2. expected.success \in BOOLEAN
      BY <1>1 DEF Egress!Expectations
    <3> QED BY <3>1, <3>2, ContainsItself
  <2>2. ASSUME verdict = "ok", expected.egress # Egress!NoJson, NEW e \in Values,
               Egress!json_contains[<<expected.egress, e>>]
        PROVE  Egress!Accepts([expected EXCEPT !.egress = e], x.status, x.output)
    <3> DEFINE weaker == [expected EXCEPT !.egress = e]
    <3>1. /\ expected.egress \in Values /\ x.output \in Values
          /\ expected.success => x.status = 0
          /\ Egress!json_contains[<<x.output, expected.egress>>]
      BY <1>1, <2>2, CallAccepts
    <3>2. Egress!json_contains[<<x.output, e>>]
      BY <2>2, <3>1, ContainsChain
    <3>3. weaker.egress = e /\ weaker.success = expected.success
      BY <1>1 DEF Egress!Expectations
    <3>4. x.output # Egress!NoJson
      <4>1. Egress!NoJson.kind = "no_JSON"
        BY DEF Egress!NoJson
      <4> QED BY <3>1, <4>1, JsonParts
    <3> HIDE DEF weaker
    <3>5. Egress!Accepts(weaker, x.status, x.output)
      BY <3>1, <3>2, <3>3, <3>4 DEF Egress!Accepts
    <3> QED BY <3>5 DEF weaker
  <2> QED BY <2>1, <2>2
<1> QED BY <1>2, <1>3

(* The two instances say the same of a call.                               *)
LEMMA CallIsEgress ==
  /\ Egress!TypeOK /\ expected \in Call!Expectations => Call!TypeOK
  /\ Egress!RunsWhatWasChecked => Call!RunsWhatWasChecked
  /\ Egress!NetworkIsOptedIn => Call!NetworkIsOptedIn
<1>1. Egress!IsSetting(call) => Call!IsSetting(call)
  BY DEF Call!IsSetting, Egress!IsSetting, Call!Path, Egress!Path, Call!None, Egress!None,
     Call!Disable, Egress!Disable, Call!Files, Egress!Files, Call!Dirs, Egress!Dirs,
     Call!Names, Egress!Names
<1>2. Egress!TypeOK /\ expected \in Call!Expectations => Call!TypeOK
  BY <1>1 DEF Egress!TypeOK, Call!TypeOK, Call!None, Egress!None, Call!Disable, Egress!Disable,
     Call!Dirs, Egress!Dirs
<1>3. Egress!RunsWhatWasChecked => Call!RunsWhatWasChecked
  BY DEF Egress!RunsWhatWasChecked, Call!RunsWhatWasChecked, Egress!SaysTheSame, Call!SaysTheSame,
     Egress!In, Call!In, Egress!None, Call!None
<1>4. Egress!NetworkIsOptedIn => Call!NetworkIsOptedIn
  BY DEF Egress!NetworkIsOptedIn, Call!NetworkIsOptedIn, Egress!online_enabled, Call!online_enabled
<1> QED BY <1>2, <1>3, <1>4

(* The harness around a binary (src/runner_suite.rs, component_suite.rs),  *)
(* for every setting and all JSON values that end: what runs is what was   *)
(* checked, off the network unless someone opted in, and what is expected  *)
(* of its output is in it.                                                 *)
THEOREM CallsAreAsChecked == Spec => []CallIsAsChecked
<1> DEFINE I == CallRun => Egress!CallInv
           J == part = "call" => expected \in Call!Expectations
<1>1. Init => I /\ J
  BY CallInvInit, CallStarts DEF CallRun
<1>2. I /\ [Next]_vars => I'
  BY CallSteps, CallInvStep DEF CallRun
<1>3. J /\ [Next]_vars => J'
  <2> SUFFICES ASSUME J, [Next]_vars, part' = "call" PROVE expected' \in Call!Expectations
    BY DEF Call!Expectations, Call!NoJson
  <2>1. CallRun'
    BY DEF CallRun
  <2> QED BY <2>1, CallSteps
<1>4. I /\ J => CallIsAsChecked
  <2> SUFFICES ASSUME I, J PROVE CallIsAsChecked
    OBVIOUS
  <2>1. CallRun => /\ Egress!TypeOK /\ Egress!RunsWhatWasChecked /\ Egress!NetworkIsOptedIn
                   /\ Egress!ExpectedScalarsAreThere /\ Egress!WeakerIsAccepted
    BY CallTells, CallTellsOutput DEF Egress!CallInv
  <2> QED BY <2>1, CallIsEgress DEF CallIsAsChecked, CallRun
<1> HIDE DEF I, J
<1> QED BY <1>1, <1>2, <1>3, <1>4, PTL DEF Spec

=============================================================================
