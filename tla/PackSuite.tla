----------------------------- MODULE PackSuite -----------------------------
(***************************************************************************)
(* src/pack_suite.rs and src/suites/pack_runner.rs: the configuration of   *)
(* the pack and runner suite, built call by call, and its run: the         *)
(* manifest is found, read and validated, compared with what the component *)
(* exports at run time, and the runner is tried on the pack.               *)
(*                                                                         *)
(* The environment is what the run finds: which files there are, what is   *)
(* in the manifest, what adapter and runner answer.  Anything read can     *)
(* fail to be read.                                                        *)
(***************************************************************************)
EXTENDS Integers, Sequences, FiniteSets, SequencesExt

CONSTANTS
  PackOptions,  \* options given to with_pack_options
  Manifests,    \* contents of a manifest
  Exports,      \* answers of the runtime adapter: sequences of flow ids
  FileSets,     \* sets of files there may be
  MaxCalls      \* bound: calls of the builder

Siblings == <<"component.json", "component.yaml", "component.yml">>
Nearby == <<"pack.manifest.json", "pack.manifest.yaml", "pack.manifest.yml",
            "pack.json", "pack.yaml", "pack.yml">>

Overrides == {"none", "override", "env"}

(* PackSuiteOptions; adapter says whether there is a runtime adapter.      *)
OptionsType ==
  [manifest_override : Overrides, require_flows : BOOLEAN, adapter : BOOLEAN,
   require_runtime_match : BOOLEAN, require_signature : BOOLEAN,
   require_artifacts_exist : BOOLEAN, require_supply_chain : BOOLEAN]

(* PackManifest.  A field is absent, blank or given; blank says that one   *)
(* of kind, flow_types, runner_version and secrets has an empty entry;     *)
(* paths are those of its artifacts.                                       *)
IsManifest(m) ==
  /\ {m.id, m.name, m.version, m.sbom, m.attestations} \subseteq {"none", "blank", "given"}
  /\ {m.known_schema, m.blank} \subseteq BOOLEAN
  /\ m.signature \in {"none", "incomplete", "complete"}
  /\ m.flows \in Seq(ToSet(m.flows))
  /\ \A i \in DOMAIN m.flows : DOMAIN m.flows[i] = {"id", "schema_ok"}
  /\ IsFiniteSet(m.paths)

(* What the parameters can be; Toolkit assumes it.                         *)
PackAssumption ==
  /\ PackOptions \subseteq OptionsType
  /\ \A m \in Manifests : IsManifest(m)
  /\ MaxCalls \in Nat

Default == [manifest_override |-> "none", require_flows |-> TRUE, adapter |-> FALSE,
            require_runtime_match |-> TRUE, require_signature |-> TRUE,
            require_artifacts_exist |-> FALSE, require_supply_chain |-> FALSE]

VARIABLES
  config,     \* [manifest_override, require_signature, pack_options, runner]
  calls,      \* calls made of the builder
  allowed,    \* has allow_unsigned been called
  pc,
  component,  \* what is at component_path: "nothing", "folder", "file" or "manifest"
  files,      \* files there are, "override" and "env" among them
  env,        \* GREENTIC_PACK_MANIFEST: is it set
  found,      \* manifest that was resolved
  manifest,   \* its content, a set with at most one element
  exports,    \* answer of the adapter, a set with at most one element
  warnings,
  result      \* "running", "report" or the step that failed

builder == <<config, calls, allowed>>
world == <<component, files, env>>
read == <<found, manifest, exports, warnings>>
vars == <<builder, pc, world, read, result>>

(***************************************************************************)
(* PackRunnerSuiteConfig                                                   *)
(***************************************************************************)

New == [manifest_override |-> "none", require_signature |-> TRUE, pack_options |-> Default,
        runner |-> FALSE]

AllowUnsigned(c) ==
  [c EXCEPT !.require_signature = FALSE, !.pack_options.require_signature = FALSE]

(* new and from_env: the variables GREENTIC_PACK_MANIFEST, GREENTIC_RUNNER_BIN *)
(* and ALLOW_UNSIGNED, in this order.                                      *)
Init ==
  /\ component \in {"nothing", "folder", "file", "manifest"}
  /\ files \in FileSets /\ env \in BOOLEAN
  /\ \E runner, unsigned, from_env \in BOOLEAN :
       LET c == [New EXCEPT !.manifest_override = IF env THEN "env" ELSE "none", !.runner = runner] IN
         /\ config = IF ~from_env THEN New ELSE IF unsigned THEN AllowUnsigned(c) ELSE c
         /\ allowed = (from_env /\ unsigned)
  /\ calls = 0 /\ pc = "build"
  /\ found = "none" /\ manifest = {} /\ exports = {} /\ warnings = {} /\ result = "running"

Call(c) ==
  /\ pc = "build" /\ calls < MaxCalls
  /\ config' = c /\ calls' = calls + 1
  /\ UNCHANGED <<pc, world, read, result>>

WithManifestOverride == Call([config EXCEPT !.manifest_override = "override"]) /\ UNCHANGED allowed
WithRunner == Call([config EXCEPT !.runner = TRUE]) /\ UNCHANGED allowed
WithPackOptions == \E o \in PackOptions : Call([config EXCEPT !.pack_options = o]) /\ UNCHANGED allowed
WithAllowUnsigned == Call(AllowUnsigned(config)) /\ allowed' = TRUE

(***************************************************************************)
(* run_suite and verify_pack_exports                                       *)
(***************************************************************************)

(* The override of the configuration replaces that of the options.         *)
Options ==
  [config.pack_options EXCEPT !.manifest_override =
     IF config.manifest_override = "none" THEN @ ELSE config.manifest_override]

Return(how) == result' = how /\ pc' = "end"
Goto(label) == pc' = label /\ UNCHANGED result

Run ==
  /\ pc = "build"
  /\ \/ Return("tenant")      \* TenantContext::detect
     \/ component = "nothing" /\ Return("no_such_component")
     \/ component # "nothing" /\ Goto("resolve")
     \/ component = "folder" /\ Return("layout")      \* a file named like one of the folders
  /\ UNCHANGED <<builder, world, read>>

Beside == [nothing |-> <<>>, folder |-> <<>>, file |-> Siblings, manifest |-> <<"component">>]

Candidates == Beside[component] \o Nearby

(* The first one that exists, if any does.                                 *)
FirstOf(candidates) ==
  LET Exists(i) == candidates[i] \in {"component"} \cup files IN
    {candidates[i] : i \in {i \in DOMAIN candidates : Exists(i) /\ \A j \in 1..i - 1 : ~Exists(j)}}

(* resolve_pack_manifest: an override must exist, the file named by        *)
(* GREENTIC_PACK_MANIFEST is taken if it does.                             *)
Resolved ==
  IF Options.manifest_override # "none" THEN {Options.manifest_override} \cap files
  ELSE IF env /\ "env" \in files THEN {"env"}
  ELSE FirstOf(Candidates)

Resolve ==
  /\ pc = "resolve"
  /\ \/ \E path \in Resolved : found' = path /\ Goto("read")
     \/ Resolved = {} /\ Return("no_manifest") /\ UNCHANGED found
  /\ UNCHANGED <<builder, world, manifest, exports, warnings>>

ReadManifest ==
  /\ pc = "read"
  /\ \/ \E m \in Manifests :
          manifest' = {m} /\ IF m.known_schema THEN Goto("validate") ELSE Return("schema_version")
     \/ Return("parse") /\ UNCHANGED manifest
  /\ UNCHANGED <<builder, world, found, exports, warnings>>

Named(m) == IF m.id # "none" THEN m.id ELSE m.name

SignatureOk(m) == Options.require_signature => m.signature = "complete"

FlowsOk(m) ==
  /\ Options.require_flows => m.flows # <<>>
  /\ \A i \in DOMAIN m.flows :
       /\ m.flows[i].id \notin {"blank"} \cup {m.flows[j].id : j \in 1..i - 1}
       /\ m.flows[i].schema_ok

(* The manifest's paths are relative to its own folder.                    *)
ArtifactsOk(m) == Options.require_artifacts_exist => m.paths \subseteq files

Missing(m) ==
  (IF m.sbom = "none" THEN {"sbom"} ELSE {})
    \cup (IF m.attestations = "none" THEN {"attestations"} ELSE {})

(* validate_manifest                                                       *)
Validate ==
  /\ pc = "validate"
  /\ \E m \in manifest :
       CASE Named(m) # "given" \/ m.version # "given" \/ m.blank ->
              Return("fields") /\ UNCHANGED warnings
         [] ~SignatureOk(m) -> Return("signature") /\ UNCHANGED warnings
         [] \/ "blank" \in {m.sbom, m.attestations}
            \/ Options.require_supply_chain /\ Missing(m) # {} ->
              Return("supply_chain") /\ UNCHANGED warnings
         [] OTHER ->
              /\ warnings' = Missing(m)
              /\ IF FlowsOk(m) /\ ArtifactsOk(m)
                 THEN Goto(IF Options.adapter THEN "adapter" ELSE "signed") ELSE Return("flows")
  /\ UNCHANGED <<builder, world, found, manifest, exports>>

IdsOf(m) == {m.flows[i].id : i \in DOMAIN m.flows}

(* ensure_runtime_matches_manifest                                         *)
Matches(m, e) == IdsOf(m) = ToSet(e)

AskAdapter ==
  /\ pc = "adapter"
  /\ \/ \E m \in manifest, e \in Exports :
          /\ exports' = {e}
          /\ IF Options.require_runtime_match /\ ~Matches(m, e)
             THEN Return("mismatch") ELSE Goto("signed")
     \/ Return("adapter") /\ UNCHANGED exports
  /\ UNCHANGED <<builder, world, found, manifest, warnings>>

FaultySigned ==      \* a manifest without the block is taken for signed
  /\ pc = "signed"
  /\ IF config.runner THEN Goto("runner") ELSE Return("report")
  /\ UNCHANGED <<builder, world, read>>

(* assert_signed_pack asks for the block and its fields, blank or not.     *)
Signed ==
  /\ pc = "signed"
  /\ IF config.require_signature /\ \E m \in manifest : m.signature = "none"
     THEN Return("signed")
     ELSE IF config.runner THEN Goto("runner") ELSE Return("report")
  /\ UNCHANGED <<builder, world, read>>

(* The smoke run: ProcessHarness.                                          *)
TryRunner ==
  /\ pc = "runner"
  /\ Return("report") \/ Return("runner")
  /\ UNCHANGED <<builder, world, read>>

Next == \/ WithManifestOverride \/ WithRunner \/ WithPackOptions \/ WithAllowUnsigned
        \/ Run \/ Resolve \/ ReadManifest \/ Validate \/ AskAdapter \/ Signed \/ TryRunner

Spec == Init /\ [][Next]_vars

(***************************************************************************)
(* Properties                                                              *)
(***************************************************************************)

(* The variables hold what the suite can; what a step needs was read by an *)
(* earlier one.                                                            *)
TypeOK ==
  /\ config.pack_options \in OptionsType /\ config.manifest_override \in Overrides
  /\ config.require_signature \in BOOLEAN /\ config.runner \in BOOLEAN
  /\ allowed \in BOOLEAN /\ env \in BOOLEAN
  /\ calls \in 0..MaxCalls /\ component \in {"nothing", "folder", "file", "manifest"}
  /\ pc \in {"build", "resolve", "read", "validate", "adapter", "signed", "runner", "end"}
  /\ manifest \subseteq Manifests /\ exports \subseteq Exports
  /\ (pc \in {"validate", "adapter", "signed", "runner"} \/ result = "report" =>
        found # "none" /\ \E m \in Manifests : manifest = {m})
  /\ warnings \subseteq {"sbom", "attestations"}
  /\ (result = "running" <=> pc # "end")

(* A pack without a complete signature passes only when unsigned packs are *)
(* allowed by a call of allow_unsigned or by the options in force, and one *)
(* without any signature block only by allow_unsigned.                     *)
UnsignedOnlyWhenAllowed ==
  result = "report" => \A m \in manifest :
    /\ m.signature # "complete" => allowed \/ ~config.pack_options.require_signature
    /\ m.signature = "none" => allowed

(* A manifest named by a call of the builder or by the options is the one  *)
(* that is verified, or the suite fails; without one the manifest is the   *)
(* component, beside it or in it, unless GREENTIC_PACK_MANIFEST names one  *)
(* that exists.                                                            *)
NamedManifestIsUsed ==
  result = "report" =>
    LET named == IF config.manifest_override # "none" THEN config.manifest_override
                 ELSE config.pack_options.manifest_override
    IN  IF named # "none" THEN found = named ELSE found \in Overrides <=> env /\ "env" \in files

(* When the two are compared, each exported id is that of exactly one flow *)
(* of the manifest and each flow is exported.                              *)
ExportsAreTheFlows ==
  result = "report" /\ config.pack_options.adapter /\ config.pack_options.require_runtime_match =>
    \A m \in manifest : \A e \in exports :
      /\ \A i \in DOMAIN e : Cardinality({j \in DOMAIN m.flows : m.flows[j].id = e[i]}) = 1
      /\ IdsOf(m) \subseteq ToSet(e)

(* A report without warnings has complete supply-chain data, and with      *)
(* require_supply_chain no report has a warning.                           *)
WarningsTellTheSupplyChain ==
  result = "report" =>
    /\ warnings = {} => \A m \in manifest : {m.sbom, m.attestations} = {"given"}
    /\ config.pack_options.require_supply_chain => warnings = {}

Past(labels) == pc \in labels \/ result = "report"

(* What has been verified stays so, step after step, for the builder and   *)
(* the files stay as they are.                                             *)
Verified ==
  /\ allowed \/ config.require_signature
  /\ Past({"read", "validate", "adapter", "signed", "runner"}) => found \in Resolved
  /\ Past({"adapter", "signed", "runner"}) => \A m \in manifest :
       /\ SignatureOk(m) /\ FlowsOk(m) /\ "blank" \notin {m.sbom, m.attestations}
       /\ warnings = Missing(m) /\ (Options.require_supply_chain => Missing(m) = {})
  /\ Past({"signed", "runner"}) /\ Options.adapter /\ Options.require_runtime_match =>
       \A m \in manifest, e \in exports : Matches(m, e)
  /\ Past({"runner"}) /\ config.require_signature => \A m \in manifest : m.signature # "none"

(* What every step preserves.                                              *)
PackInv == TypeOK /\ Verified
=============================================================================
