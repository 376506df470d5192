------------------------------ MODULE Toolkit ------------------------------
(***************************************************************************)
(* The parts of the repository that share no state with one another, side  *)
(* by side: what a caller of the crate, of the command line, of a mock     *)
(* provider or of a make target runs.  A behaviour is one of one part,     *)
(* chosen at its start; the variables of the others stay Idle.             *)
(*                                                                         *)
(* Each part is a module of its own, instantiated here.  A variable has    *)
(* the name it has there unless two parts have it: then it is preceded by  *)
(* that of the part.  Invocation and Records are instantiated twice, for   *)
(* two kinds of input, on the same variables.                              *)
(***************************************************************************)
EXTENDS Integers, Sequences, FiniteSets

CONSTANTS
  Folders, FlowOptions,                                     \* FlowSuite
  PackOptions, Manifests, ExportLists, FileSets, MaxCalls,  \* PackSuite
  SecretKeys, Configs, Modulus,                             \* PolicySuite
  Packs, DeployerOutputs,                                   \* CliVerdicts
  CallSettings, PlainSettings, Values,                      \* Invocation
  Blank, Publications, EventRecords,                        \* Records
  Clients, Secrets, BuiltIn, Connections, MaxClients,       \* MockServer
  Providers, DefaultLive,                                   \* OAuthSuite
  Runs,                                                     \* SharedTunnel
  Plans, Stale, Modules, PlansOfJob, WaitBudget,            \* PlanRun
  Nothing

VARIABLES
  part,
  folder, options, flow_pc, visited, any_files, flows, current, at, seen_ids, flow_result,
  pack_config, pack_calls, allowed, pack_pc, component, pack_files, pack_env, found, manifest,
  exports, pack_warnings, pack_result,
  policy_config, ci, checked, tenant, policy_pc, policy_i, store, granted, denied, policy_seen,
  duplicate_detected, schedule, policy_result,
  command, args, cli_pc, issues, cli_warnings, verdicts, cli_seen, pack, applied, cli_exit,
  call, call_files, call_pc, child, call_exit, expected, verdict,
  pub, events, said,
  server_calls, clients, suffix, handle, first, server_shutdown, listener, server_task, conn,
  request, status, known,
  flags, creds, looked, live_providers, oauth_pc, lane, outcomes, oauth_result, code, token,
  shutdown, task, answer,
  shared_pc, opened, log, shared_env, RP_BASE, disturbed,
  hosts, plan_pc, waited, run, plans, named, passed, PLAN_ID, plan_files, reached, driver,
  failed, announced, tried

Flow == INSTANCE FlowSuite WITH Options <- FlowOptions, pc <- flow_pc, result <- flow_result

Pack == INSTANCE PackSuite WITH
  Exports <- ExportLists,
  config <- pack_config, calls <- pack_calls, pc <- pack_pc, files <- pack_files,
  env <- pack_env, warnings <- pack_warnings, result <- pack_result

Policy == INSTANCE PolicySuite WITH
  Keys <- SecretKeys,
  config <- policy_config, pc <- policy_pc, i <- policy_i, seen <- policy_seen,
  result <- policy_result

Cli == INSTANCE CliVerdicts WITH
  Outputs <- DeployerOutputs, pc <- cli_pc, warnings <- cli_warnings, seen <- cli_seen,
  exit <- cli_exit

(* Every setting, with an output that is no JSON and nothing to be in it,  *)
(* and every output and expectation in one.                                *)
Call == INSTANCE Invocation WITH
  Settings <- CallSettings, Values <- {}, Outputs <- {}, files <- call_files, pc <- call_pc,
  exit <- call_exit

Egress == INSTANCE Invocation WITH
  Settings <- PlainSettings, Outputs <- Values, files <- call_files, pc <- call_pc,
  exit <- call_exit

NoPublication == [metadata |-> <<>>, subs |-> <<>>, target |-> <<>>]
NoEvents == [providers |-> <<>>, flow |-> [id |-> Blank, nodes |-> <<>>]]

Published == INSTANCE Records WITH EventRecords <- {NoEvents}
Eventful == INSTANCE Records WITH Publications <- {NoPublication}

Server == INSTANCE MockServer WITH
  Ids <- Clients, Default <- BuiltIn, MaxCalls <- MaxClients, None <- Nothing,
  calls <- server_calls, shutdown <- server_shutdown, task <- server_task

OAuth == INSTANCE OAuthSuite WITH pc <- oauth_pc, result <- oauth_result

Shared == INSTANCE SharedTunnel WITH None <- Nothing, pc <- shared_pc, env <- shared_env

Plan == INSTANCE PlanRun WITH
  Ids <- Plans, Runs <- PlansOfJob, None <- Nothing, pc <- plan_pc, files <- plan_files

(* The parameters are inputs that the parts can be given.                  *)
ASSUME FlowParameters == Flow!FoldersAssumption /\ Flow!OptionsAssumption
ASSUME PackParameters == Pack!PackAssumption
ASSUME PolicyParameters == Policy!PolicyAssumption
ASSUME CliParameters == Cli!CliAssumption
ASSUME CallParameters == Call!SettingsAssumption /\ Egress!SettingsAssumption
ASSUME RecordsParameters == Published!RecordsAssumption /\ Eventful!RecordsAssumption
ASSUME ServerParameters == Server!ServerAssumption
ASSUME OAuthParameters == OAuth!ProvidersAssumption
ASSUME SharedParameters == Shared!SharedAssumption
ASSUME PlanParameters == Plan!JobAssumption

Parts == {"flow", "pack", "policy", "cli", "call", "egress", "published", "events", "server",
          "oauth", "shared", "plan"}

Idle == "not_run"

(* The variables of each part.                                             *)

flowVars ==
  <<folder, options, flow_pc, visited, any_files, flows, current, at, seen_ids,
    flow_result>>

packVars ==
  <<pack_config, pack_calls, allowed, pack_pc, component, pack_files, pack_env, found,
    manifest, exports, pack_warnings, pack_result>>

policyVars ==
  <<policy_config, ci, checked, tenant, policy_pc, policy_i, store, granted, denied,
    policy_seen, duplicate_detected, schedule, policy_result>>

cliVars ==
  <<command, args, cli_pc, issues, cli_warnings, verdicts, cli_seen, pack, applied,
    cli_exit>>

callVars ==
  <<call, call_files, call_pc, child, call_exit, expected, verdict>>

recordsVars ==
  <<pub, events, said>>

serverVars ==
  <<server_calls, clients, suffix, handle, first, server_shutdown, listener, server_task,
    conn, request, status, known>>

oauthVars ==
  <<flags, creds, looked, live_providers, oauth_pc, lane, outcomes, oauth_result, code, token,
    shutdown, task, answer>>

sharedVars ==
  <<shared_pc, opened, log, shared_env, RP_BASE, disturbed>>

planVars ==
  <<hosts, plan_pc, waited, run, plans, named, passed, PLAN_ID, plan_files, reached,
    driver, failed, announced, tried>>

vars == <<part, flowVars, packVars, policyVars, cliVars, callVars, recordsVars, serverVars, oauthVars,
          sharedVars, planVars>>

(* The state of a part that is not the one that runs.                      *)

FlowIdle ==
  /\ folder = Idle /\ options = Idle /\ flow_pc = Idle /\ visited = Idle /\ any_files = Idle
  /\ flows = Idle /\ current = Idle /\ at = Idle /\ seen_ids = Idle /\ flow_result = Idle

PackIdle ==
  /\ pack_config = Idle /\ pack_calls = Idle /\ allowed = Idle /\ pack_pc = Idle
  /\ component = Idle /\ pack_files = Idle /\ pack_env = Idle /\ found = Idle
  /\ manifest = Idle /\ exports = Idle /\ pack_warnings = Idle /\ pack_result = Idle

PolicyIdle ==
  /\ policy_config = Idle /\ ci = Idle /\ checked = Idle /\ tenant = Idle /\ policy_pc = Idle
  /\ policy_i = Idle /\ store = Idle /\ granted = Idle /\ denied = Idle /\ policy_seen = Idle
  /\ duplicate_detected = Idle /\ schedule = Idle /\ policy_result = Idle

CliIdle ==
  /\ command = Idle /\ args = Idle /\ cli_pc = Idle /\ issues = Idle /\ cli_warnings = Idle
  /\ verdicts = Idle /\ cli_seen = Idle /\ pack = Idle /\ applied = Idle /\ cli_exit = Idle

CallIdle ==
  /\ call = Idle /\ call_files = Idle /\ call_pc = Idle /\ child = Idle /\ call_exit = Idle
  /\ expected = Idle /\ verdict = Idle

RecordsIdle ==
  /\ pub = Idle /\ events = Idle /\ said = Idle

ServerIdle ==
  /\ server_calls = Idle /\ clients = Idle /\ suffix = Idle /\ handle = Idle /\ first = Idle
  /\ server_shutdown = Idle /\ listener = Idle /\ server_task = Idle
  /\ conn = [c \in Connections |-> Idle] /\ request = Idle /\ status = Idle /\ known = Idle

OAuthIdle ==
  /\ flags = Idle /\ creds = Idle /\ looked = Idle /\ live_providers = Idle /\ oauth_pc = Idle
  /\ lane = Idle /\ outcomes = Idle /\ oauth_result = Idle /\ code = Idle /\ token = Idle
  /\ shutdown = FALSE /\ task = Idle /\ answer = Idle

SharedIdle ==
  /\ shared_pc = Idle /\ opened = Idle /\ log = Idle /\ shared_env = Idle /\ RP_BASE = Idle
  /\ disturbed = Idle

PlanIdle ==
  /\ hosts = Idle /\ plan_pc = Idle /\ waited = Idle /\ run = Idle /\ plans = Idle
  /\ named = Idle /\ passed = Idle /\ PLAN_ID = Idle /\ plan_files = Idle
  /\ reached = Idle /\ driver = Idle
  /\ failed = Idle /\ announced = Idle /\ tried = Idle

Init ==
  /\ part \in Parts
  /\ IF part = "flow" THEN Flow!Init ELSE FlowIdle
  /\ IF part = "pack" THEN Pack!Init ELSE PackIdle
  /\ IF part = "policy" THEN Policy!Init ELSE PolicyIdle
  /\ IF part = "cli" THEN Cli!Init ELSE CliIdle
  /\ IF part = "server" THEN Server!Init ELSE ServerIdle
  /\ IF part = "oauth" THEN OAuth!Init ELSE OAuthIdle
  /\ IF part = "shared" THEN Shared!Init ELSE SharedIdle
  /\ IF part = "plan" THEN Plan!Init ELSE PlanIdle
  /\ CASE part = "call" -> Call!Init [] part = "egress" -> Egress!Init [] OTHER -> CallIdle
  /\ CASE part = "published" -> Published!Init [] part = "events" -> Eventful!Init [] OTHER -> RecordsIdle

(* All the parts but one stay as they are.                                 *)
OthersStay ==
  /\ UNCHANGED part
  /\ part = "flow" \/ UNCHANGED flowVars
  /\ part = "pack" \/ UNCHANGED packVars
  /\ part = "policy" \/ UNCHANGED policyVars
  /\ part = "cli" \/ UNCHANGED cliVars
  /\ part \in {"call", "egress"} \/ UNCHANGED callVars
  /\ part \in {"published", "events"} \/ UNCHANGED recordsVars
  /\ part = "server" \/ UNCHANGED serverVars
  /\ part = "oauth" \/ UNCHANGED oauthVars
  /\ part = "shared" \/ UNCHANGED sharedVars
  /\ part = "plan" \/ UNCHANGED planVars

Next ==
  \/ part = "flow" /\ Flow!Next /\ OthersStay
  \/ part = "pack" /\ Pack!Next /\ OthersStay
  \/ part = "policy" /\ Policy!Next /\ OthersStay
  \/ part = "cli" /\ Cli!Next /\ OthersStay
  \/ part = "call" /\ Call!Next /\ OthersStay
  \/ part = "egress" /\ Egress!Next /\ OthersStay
  \/ part = "published" /\ Published!Next /\ OthersStay
  \/ part = "events" /\ Eventful!Next /\ OthersStay
  \/ part = "server" /\ Server!Next /\ OthersStay
  \/ part = "oauth" /\ OAuth!Next /\ OthersStay
  \/ part = "shared" /\ Shared!Next /\ OthersStay
  \/ part = "plan" /\ Plan!Next /\ OthersStay

(* Each part has the fairness of its own module; nothing of an idle part   *)
(* is enabled.                                                             *)
Spec == Init /\ [][Next]_vars /\ OAuth!Fairness /\ Server!Fairness /\ Plan!Fairness

(***************************************************************************)
(* Properties: what the parts promise, each stated in its module.          *)
(***************************************************************************)

(* A report on a folder of flows covers every flow file that could be      *)
(* seen; its routes lead to one node each and its flows do what their type *)
(* says; a folder is refused only for a fault (src/flow_suite.rs).         *)
FlowReportIsTrue ==
  part = "flow" =>
    /\ Flow!TypeOK
    /\ Flow!ReportCoversWhatIsVisible /\ Flow!RoutesLeadToOneNode
    /\ Flow!FlowsDoWhatTheirTypeSays /\ Flow!RefusalHasAFault

(* A pack without a complete signature passes only when unsigned packs     *)
(* were allowed, in whatever order the builder was called; the manifest it *)
(* was verified against is the one that was named, its flows are those the *)
(* component exports, and a report without warnings has the supply-chain   *)
(* data (src/suites/pack_runner.rs, src/pack_suite.rs).                    *)
PackReportIsTrue ==
  part = "pack" =>
    /\ Pack!TypeOK
    /\ Pack!UnsignedOnlyWhenAllowed /\ Pack!NamedManifestIsUsed
    /\ Pack!ExportsAreTheFlows /\ Pack!WarningsTellTheSupplyChain

(* The policy report says what the allow-list, the tenant detection and    *)
(* the duplicate check did; its backoff schedule grows linearly unless an  *)
(* unchecked build let it wrap (src/suites/policy.rs, src/env.rs).         *)
PolicyReportIsTrue ==
  part = "policy" =>
    /\ Policy!TypeOK
    /\ Policy!CiHasNoDefaults /\ Policy!DenialsTellAccess
    /\ Policy!DuplicatesAreById /\ Policy!BackoffIsLinear

(* The verdicts of a command, all that a caller has since a report always  *)
(* exits with 0, are given only after every trial that was asked for, and  *)
(* never beside an issue (src/bin/greentic-conformance.rs).                *)
VerdictsAreEarned ==
  part = "cli" =>
    /\ Cli!TypeOK
    /\ Cli!VerdictsAreEarned /\ Cli!VerdictsMatchIssues
    /\ Cli!FullPacksAreSigned /\ Cli!SignatureIsOkOrWarned
    /\ Cli!EntryFlowsAreComplete /\ Cli!IdempotentMeansEqual

(* What is spawned is what was checked, offline unless someone opted in;   *)
(* what is expected of its output is in it (src/runner_suite.rs,           *)
(* src/component_suite.rs).                                                *)
CallIsAsChecked ==
  /\ part = "call" => Call!TypeOK /\ Call!RunsWhatWasChecked /\ Call!NetworkIsOptedIn
  /\ part = "egress" => Egress!TypeOK /\ Egress!ExpectedScalarsAreThere /\ Egress!WeakerIsAccepted

(* Records that all their validators accept fit together: a subscription   *)
(* can be delivered, a node has its provider (src/repo_store_suite.rs,     *)
(* src/events_suite.rs).                                                   *)
AcceptedRecordsFit ==
  /\ part = "published" => Published!TypeOK /\ Published!SubscriptionsAreDeliverable
  /\ part = "events" => Eventful!TypeOK /\ Eventful!NodesHaveProviders

(* While a test holds a mock provider its task serves, with every URL of a *)
(* root issuer, and only the secret configured last counts                 *)
(* (crates/oauth-mock/src/lib.rs).                                         *)
HeldServerServes ==
  part = "server" =>
    /\ Server!TypeOK
    /\ Server!ServesWhileHeld /\ Server!LastConfigurationCounts /\ Server!RootIssuerIsServed

(* An OAuth report has one outcome per lane; the mock lane passes only     *)
(* with a token and a task that has ended well, and a real provider is     *)
(* asked only when enabled, not failed by the network                      *)
(* (src/suites/oauth.rs).                                                  *)
LaneOutcomesAreTrue ==
  part = "oauth" =>
    /\ OAuth!TypeOK
    /\ OAuth!OneOutcomePerLane /\ OAuth!PassedMeansTokenAndStopped
    /\ OAuth!LiveOnlyWhenEnabled /\ OAuth!NetworkFailsNoLiveLane

(* Of several hosted runs in one directory, one whose setup no other met   *)
(* uses its own tunnel, and no address outlives the runs                   *)
(* (ci/scripts/run_conformance_hosted_with_tunnel.sh).                     *)
OwnUnlessDisturbed ==
  part = "shared" => Shared!TypeOK /\ Shared!OwnUnlessDisturbed /\ Shared!NothingIsLeft

(* A job that ends well has created each of its plans, and every module    *)
(* the suite lists in one with an id has passed; it collects what it has   *)
(* created, and the reports of an earlier job only if it fails (Makefile,  *)
(* ci/scripts).                                                            *)
GoodJobMeansNamedPassed ==
  part = "plan" =>
    /\ Plan!TypeOK
    /\ Plan!GoodJobMeansNamedPassed /\ Plan!RecordedIsLastCreated
    /\ Plan!CreatedIsCollected /\ Plan!StaleOnlyInFailedJobs

(* No mock provider outlives its owner: the listener of the OAuth suite    *)
(* goes away however the suite ends, and a server that is dropped ends,    *)
(* having answered every request that had come, unless a client withholds  *)
(* the rest of one for ever.                                               *)
ServersGoAway ==
  OAuth!ListenerGoesAway /\ Server!DroppedServerEnds /\ Server!AcceptedIsAnswered

(* The OAuth suite returns, awaiting its provider only after telling it to *)
(* stop, and a job of plans ends, whatever the hosted suite does.          *)
SuitesReturn ==
  /\ <>(part = "oauth" => oauth_result # "running")
  /\ <>(part = "plan" => plan_pc = "over")
=============================================================================
