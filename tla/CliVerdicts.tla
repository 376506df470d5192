---------------------------- MODULE CliVerdicts ----------------------------
(***************************************************************************)
(* src/bin/greentic-conformance.rs: the five commands of the command line. *)
(* Each looks at an artifact step by step, collects issues and warnings    *)
(* and sets its verdicts as it goes; a report is printed and the process   *)
(* exits with 0 whatever the verdicts are, or an error ends it with 1.     *)
(*                                                                         *)
(* args is the set of the flags given.  What the suites behind a command   *)
(* answer is the environment's choice here: PackSuite, FlowSuite and       *)
(* ProcessHarness model them.  seen records what was established by then.  *)
(***************************************************************************)
EXTENDS Integers, Sequences, FiniteSets

CONSTANTS
  Packs,     \* archives that open_pack can load
  Outputs    \* what a deployer can print on apply

Commands == {"pack", "flow", "component", "runner", "deployer"}

Flags ==
  [pack |-> {"allow-dev-signatures", "allow-unsigned"},
   flow |-> {"allow-missing-schema"},
   component |-> {"runtime-flows", "operation", "workdir", "env"},
   runner |-> {"pack", "GREENTIC_PACK_PATH", "expected-egress", "workdir", "env"},
   deployer |-> {"config"}]

(* PackLoad: a path is a name or "blank"; the reports of greentic_pack are *)
(* taken as they are.                                                      *)
IsPack(p) ==
  /\ \A part \in {p.flows, p.components} : part \in Seq({part[i] : i \in DOMAIN part})
  /\ {p.meta_ok, p.signature_ok, p.sbom_ok, p.warned} \subseteq BOOLEAN
  /\ \A i \in DOMAIN p.flows : DOMAIN p.flows[i] = {"id", "files"}
  /\ \A i \in DOMAIN p.components : DOMAIN p.components[i] = {"key", "files"}
  /\ IsFiniteSet(p.entry_flows) /\ IsFiniteSet(p.sbom)

(* What the parameters can be; Toolkit assumes it.                         *)
CliAssumption == \A p \in Packs : IsPack(p)

VARIABLES
  command, args,
  pc,
  issues, warnings,
  verdicts,   \* verdicts that are TRUE so far
  seen,       \* what was established
  pack,       \* pack that was loaded, a set with at most one element
  applied,    \* what the deployer printed, apply by apply
  exit        \* -1 while it runs, 0 with a report, or 1

asked == <<command, args>>
found == <<issues, warnings, verdicts, seen>>
vars == <<asked, pc, found, pack, applied, exit>>

Basic == [pack |-> "pack_v1_basic", flow |-> "flow_v1_basic", component |-> "component_v1_wit_only",
          runner |-> "runner_v1", deployer |-> "deployer_v1"]
Strong == [pack |-> "pack_v1_full", flow |-> "flow_v1_safe", component |-> "component_v1_hosted"]

Begin == [pack |-> "open", flow |-> "flows", component |-> "stat", runner |-> "stat",
          deployer |-> "stat"]

Init ==
  /\ command \in Commands
  /\ args \in SUBSET Flags[command]
  /\ pc = Begin[command]
  /\ issues = {} /\ warnings = {} /\ verdicts = {} /\ seen = {}
  /\ pack = {} /\ applied = <<>> /\ exit = -1

(* An error: no report.                                                    *)
Error == pc' = "end" /\ exit' = 1 /\ UNCHANGED <<asked, found>>

(* The report is printed; nothing in it decides the exit status.           *)
Report == pc' = "end" /\ exit' = 0

Goto(label) == pc' = label /\ UNCHANGED exit

(***************************************************************************)
(* check-pack                                                              *)
(***************************************************************************)

Policy == IF args = {} THEN "Strict" ELSE "DevOk"

Ids(p) == {p.flows[i].id : i \in DOMAIN p.flows}
Keys(p) == {p.components[i].key : i \in DOMAIN p.components}

(* check_file_present: the parts of the pack with a file that the sbom     *)
(* does not have, or with a blank path.                                    *)
Absent(p) ==
  LET Lacks(part) == ~ part.files \subseteq p.sbom \ {"blank"} IN
    {i \in DOMAIN p.flows : Lacks(p.flows[i])} \cup {i \in DOMAIN p.components : Lacks(p.components[i])}

(* perform_structural_checks and validate_meta                             *)
Defects(p) ==
  {d \in {"meta", "duplicate_flow", "file", "entry_flow", "duplicate_component", "signature"} :
     \/ d = "meta" /\ (~p.meta_ok \/ p.entry_flows = {})
     \/ d = "duplicate_flow" /\ Cardinality(Ids(p)) < Len(p.flows)
     \/ d = "file" /\ Absent(p) # {}
     \/ d = "entry_flow" /\ ~ p.entry_flows \subseteq Ids(p)
     \/ d = "duplicate_component" /\ Cardinality(Keys(p)) < Len(p.components)
     \/ d = "signature" /\ ~p.signature_ok /\ "allow-unsigned" \notin args}

Cautions(p) ==
  {w \in {"pack", "signature", "sbom"} :
     \/ w = "pack" /\ p.warned
     \/ w = "signature" /\ ~p.signature_ok /\ "allow-unsigned" \in args
     \/ w = "sbom" /\ ~p.sbom_ok}

(* What the report says of the signature and the sbom beside its issues;   *)
(* --allow-unsigned makes any signature good.                              *)
Marks(p) ==
  {m \in {"signature_ok", "sbom_ok"} :
     \/ m = "signature_ok" /\ (p.signature_ok \/ "allow-unsigned" \in args)
     \/ m = "sbom_ok" /\ p.sbom_ok}

Full(p) == Defects(p) = {} /\ Cautions(p) = {} /\ p.signature_ok /\ p.sbom_ok

CheckPack ==
  /\ pc = "open"
  /\ \/ \E p \in Packs :
          /\ pack' = {p} /\ issues' = Defects(p) /\ warnings' = Cautions(p)
          /\ verdicts' = (IF Defects(p) = {} THEN {"pack_v1_basic"} ELSE {})
                          \cup (IF Full(p) THEN {"pack_v1_full"} ELSE {}) \cup Marks(p)
          /\ seen' = {Policy}
          /\ Report /\ UNCHANGED asked
     \/ Error /\ UNCHANGED pack
  /\ UNCHANGED applied

(***************************************************************************)
(* check-flow                                                              *)
(***************************************************************************)

(* An error of the suite is an issue of the report.                        *)
CheckFlow ==
  /\ pc = "flows"
  /\ \E ok \in BOOLEAN :
       /\ issues' = IF ok THEN {} ELSE {"flows"}
       /\ verdicts' = {v \in {"flow_v1_basic", "flow_v1_safe"} :
                         ok /\ (v = "flow_v1_safe" => "allow-missing-schema" \notin args)}
       /\ seen' = IF ok THEN {"flows"} ELSE {}
  /\ Report
  /\ UNCHANGED <<asked, warnings, pack, applied>>

(***************************************************************************)
(* check-component, check-runner, check-deployer                           *)
(***************************************************************************)

Wrong == {"not_a_file", "empty"} \cup ({"workdir", "env"} \cap args)

(* The verdicts that hold until a trial fails, and the first trial.        *)
Presumed == [component |-> {"component_v1_wit_only", "component_v1_hosted"},
             runner |-> {"runner_v1"}, deployer |-> {}]
Trial == [component |-> "exports", runner |-> "pack", deployer |-> "help"]

(* The part that the three begin with: the file, the working directory and *)
(* the variables given.  A folder, an empty file or a variable without "=" *)
(* is an issue, no path an error.                                          *)
Stat ==
  /\ pc = "stat"
  /\ \/ \E bad \in SUBSET Wrong, notes \in SUBSET {"not_executable"} :
          /\ issues' = bad /\ warnings' = notes
          /\ verdicts' = IF bad = {} THEN Presumed[command] ELSE {}
          /\ IF bad = {} \/ command = "runner" THEN Goto(Trial[command]) ELSE Report
          /\ UNCHANGED <<asked, seen>>
     \/ Error
  /\ UNCHANGED <<pack, applied>>

(* verify_pack_exports fails or not; hosted is not taken away when no      *)
(* runtime flows were given.                                               *)
Exports ==
  /\ pc = "exports"
  /\ \/ "runtime-flows" \in args /\ Error      \* no JSON array of strings
     \/ \E ok \in BOOLEAN :
          /\ verdicts' = IF ok THEN verdicts ELSE {}
          /\ issues' = IF ok THEN issues ELSE issues \cup {"exports"}
          /\ seen' = IF ok THEN seen \cup {"exports"} ELSE seen
          /\ IF "operation" \in args THEN Goto("invoke") ELSE Report
          /\ UNCHANGED <<asked, warnings>>
  /\ UNCHANGED <<pack, applied>>

(* The operation is invoked even when the exports failed.                  *)
Invoke ==
  /\ pc = "invoke"
  /\ \E ok \in BOOLEAN :
       /\ issues' = IF ok THEN issues ELSE issues \cup {"invocation"}
       /\ verdicts' = IF ok THEN verdicts ELSE {}
       /\ seen' = IF ok THEN seen \cup {"invocation"} ELSE seen
  /\ Report
  /\ UNCHANGED <<asked, warnings, pack, applied>>

FaultyFindPack ==      \* a missing pack skips the smoke run like none
  /\ pc = "pack"
  /\ IF {"pack", "GREENTIC_PACK_PATH"} \cap args = {}
     THEN warnings' = warnings \cup {"no_pack"} /\ UNCHANGED <<issues, verdicts>> /\ Report
     ELSE \E exists \in BOOLEAN :
            /\ IF issues = {} /\ exists THEN Goto("smoke") ELSE Report
            /\ UNCHANGED <<issues, warnings, verdicts>>
  /\ UNCHANGED <<asked, seen, pack, applied>>

(* --pack, or GREENTIC_PACK_PATH; without either the verdict is left.      *)
FindPack ==
  /\ pc = "pack"
  /\ IF {"pack", "GREENTIC_PACK_PATH"} \cap args = {}
     THEN warnings' = warnings \cup {"no_pack"} /\ UNCHANGED <<issues, verdicts>> /\ Report
     ELSE \E exists \in BOOLEAN :
            /\ issues' = IF exists THEN issues ELSE issues \cup {"no_such_pack"}
            /\ IF issues' = {} THEN Goto("smoke") /\ UNCHANGED verdicts ELSE Report /\ verdicts' = {}
            /\ UNCHANGED warnings
  /\ UNCHANGED <<asked, seen, pack, applied>>

Smoke ==
  /\ pc = "smoke"
  /\ \/ "expected-egress" \in args /\ Error      \* no JSON
     \/ \E ok \in BOOLEAN :
          /\ issues' = IF ok THEN issues ELSE issues \cup {"smoke"}
          /\ verdicts' = IF ok THEN {"runner_v1"} ELSE {}
          /\ seen' = IF ok THEN seen \cup {"smoke"} ELSE seen
          /\ Report /\ UNCHANGED <<asked, warnings>>
  /\ UNCHANGED <<pack, applied>>

(* The deployer's verdict is that there is no issue.                       *)
Conclude(bad, notes, facts) ==
  /\ issues' = issues \cup bad /\ warnings' = warnings \cup notes /\ seen' = seen \cup facts
  /\ verdicts' = (IF issues' = {} THEN {"deployer_v1"} ELSE {})
                   \cup (IF "idempotent" \in facts THEN {"idempotent_ok"} ELSE {})
  /\ Report /\ UNCHANGED asked

(* --help; then the configuration, when one was given.                     *)
Help ==
  /\ pc = "help"
  /\ \/ Error
     \/ Conclude({"help"}, {}, {})
     \/ "config" \notin args /\ Conclude({}, {"no_config"}, {"help"})
     \/ "config" \in args /\ Conclude({"no_such_config"}, {}, {"help"})
     \/ "config" \in args /\ seen' = {"help"} /\ Goto("apply") /\ UNCHANGED <<asked, issues, warnings, verdicts>>
  /\ UNCHANGED <<pack, applied>>

(* assert_deployer_idempotent: "apply" twice, and the outputs compared.    *)
Apply ==
  /\ pc = "apply"
  /\ \/ Conclude({"not_idempotent"}, {}, {}) /\ UNCHANGED applied      \* it failed
     \/ \E out \in Outputs :
          /\ applied' = Append(applied, out)
          /\ IF applied = <<>> THEN Goto("apply") /\ UNCHANGED <<asked, found>>
             ELSE IF out = applied[1] THEN Conclude({}, {}, {"idempotent"})
             ELSE Conclude({"not_idempotent"}, {}, {})
  /\ UNCHANGED pack

Next == \/ CheckPack \/ CheckFlow \/ Stat \/ Exports \/ Invoke \/ FindPack \/ Smoke \/ Help \/ Apply

Spec == Init /\ [][Next]_vars

(***************************************************************************)
(* Properties                                                              *)
(***************************************************************************)

(* The variables hold what the commands can, an error has no report, and   *)
(* no verdict is one of another command.                                   *)
TypeOK ==
  /\ command \in Commands /\ args \subseteq Flags[command]
  /\ pc \in {"open", "flows", "stat", "exports", "invoke", "pack", "smoke", "help", "apply", "end"}
  /\ exit \in {-1, 0, 1} /\ (exit = -1 <=> pc # "end")
  /\ pack \subseteq Packs /\ Cardinality(pack) <= 1
  /\ applied \in Seq(Outputs) /\ Len(applied) <= 2
  /\ verdicts \subseteq {Basic[command]}
                 \cup {Strong[c] : c \in DOMAIN Strong \cap {command}}
                 \cup {v \in {"idempotent_ok"} : command = "deployer"}
                 \cup {v \in {"signature_ok", "sbom_ok"} : command = "pack"}

(* The exit status of a report is 0 in any case, so the verdicts are all a *)
(* caller has: the basic one is given exactly when no step of the command  *)
(* found an issue, and the strong one never without it.                    *)
VerdictsMatchIssues ==
  exit = 0 =>
    /\ Basic[command] \in verdicts <=> issues = {}
    /\ command \in DOMAIN Strong /\ Strong[command] \in verdicts => issues = {}

(* A pack is full only when its signature was verified, whatever the flags *)
(* allow, and greentic_pack had nothing to say about it.                   *)
FullPacksAreSigned ==
  "pack_v1_full" \in verdicts => \A p \in pack : p.signature_ok /\ p.sbom_ok /\ ~p.warned

(* A report that calls the signature of a pack good when it is not, as     *)
(* --allow-unsigned makes it, warns of it, and is not that of a full pack; *)
(* one that does not call it good has an issue.                            *)
SignatureIsOkOrWarned ==
  command = "pack" => \A p \in pack :
    /\ "signature_ok" \in verdicts =>
         p.signature_ok \/ ("signature" \in warnings /\ "pack_v1_full" \notin verdicts)
    /\ "signature_ok" \notin verdicts => "signature" \in issues

(* In a pack with the basic verdict each entry flow is one flow of the     *)
(* pack, and all its files are in the sbom.                                *)
EntryFlowsAreComplete ==
  "pack_v1_basic" \in verdicts => \A p \in pack : \A id \in p.entry_flows :
    \E i \in DOMAIN p.flows : /\ {j \in DOMAIN p.flows : p.flows[j].id = id} = {i}
                              /\ p.flows[i].files \subseteq p.sbom \ {"blank"}

(* A good verdict on a component, a runner or a deployer was earned by     *)
(* every trial that the flags ask for; a runner or a deployer that was not *)
(* tried has a warning that says so.                                       *)
VerdictsAreEarned ==
  exit = 0 /\ Basic[command] \in verdicts =>
    /\ command = "component" =>
         "exports" \in seen /\ ("operation" \in args => "invocation" \in seen)
    /\ command = "runner" =>
         IF {"pack", "GREENTIC_PACK_PATH"} \cap args # {}
         THEN "smoke" \in seen ELSE "no_pack" \in warnings
    /\ command = "deployer" =>
         /\ "help" \in seen
         /\ IF "config" \in args THEN "idempotent" \in seen ELSE "no_config" \in warnings

(* A deployer is idempotent when it was applied twice and printed the same *)
(* both times, and is never applied a third time.                          *)
IdempotentMeansEqual ==
  "idempotent_ok" \in verdicts => Len(applied) = 2 /\ applied[1] = applied[2]

(* Where a command is tells what it has found: nothing before its first    *)
(* look, no issue while a trial is to come that an issue would prevent.    *)
Progress ==
  /\ pc \in {"open", "flows", "stat"} =>
       pc = Begin[command] /\ issues = {} /\ seen = {} /\ verdicts = {}
  /\ pc \in {"exports", "invoke"} => command = "component"
  /\ pc \in {"pack", "smoke"} => command = "runner"
  /\ pc \in {"help", "apply"} => command = "deployer" /\ verdicts = {}
  /\ pc \in {"exports", "smoke", "help", "apply"} => issues = {}
  /\ pc \in {"exports", "invoke", "pack", "smoke"} =>
       verdicts = IF issues = {} THEN Presumed[command] ELSE {}
  /\ pc = "invoke" /\ issues = {} => "exports" \in seen
  /\ pc = "smoke" => {"pack", "GREENTIC_PACK_PATH"} \cap args # {}
  /\ pc = "apply" => "help" \in seen /\ "config" \in args /\ Len(applied) <= 1
  /\ pc \notin {"apply", "end"} => applied = <<>>

(* What every step preserves.                                              *)
CliInv ==
  /\ TypeOK /\ Progress
  /\ VerdictsAreEarned /\ VerdictsMatchIssues
  /\ FullPacksAreSigned /\ SignatureIsOkOrWarned
  /\ EntryFlowsAreComplete /\ IdempotentMeansEqual
=============================================================================
