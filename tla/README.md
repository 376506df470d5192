# TLA+ models of greentic-conformance

greentic-conformance is a toolkit that checks Greentic artefacts (flows, packs,
components, runners, deployers) and OAuth/OIDC behaviour. It carries a mock
OAuth 2.0 / OIDC provider and the scripts that drive the OpenID Foundation
(OIDF) conformance suite. This directory models the parts of it that keep state,
talk to something, or run beside something; TLC checks the models on small
instances and TLAPS proves the central properties for every instance.

Paths below are relative to the repository root.

## 1. Inventory

### OAuth mock provider (`crates/oauth-mock/src/lib.rs`)
*State*: one `InnerState` behind `Arc<RwLock>`: registered clients (fixed at
spawn), authorization codes, refresh tokens, accepted access tokens, device
codes with a status (pending with a poll count, approved, denied, expired,
completed). *Operations*: `/authorize`, `/token` with four grants,
`/device_authorization`, `/userinfo`, `/introspect`, `/revoke`, and the host's
`approve_device_code` and `deny_device_code`. *Interaction*: HTTP clients and
the test process act concurrently; every handler takes the lock once.
*Hard*: handlers that change the tables before they refuse; polls that take an
entry out and put it back; host decisions interleaved with polls and expiry;
user codes that may collide. *Correct when*: codes are single use, refresh
tokens form one line per code, scopes never grow, a device code is redeemed at
most once per approval, in time, and only if the latest decision is an approval.

The same file has the provider's life: a builder with clients and an issuer
suffix, a spawn that binds a free port and serves in a task, a graceful shutdown
sent by `Drop`, which does not wait. *Hard*: the sender's lifetime is the server's;
requests under way when it is dropped, some of which may never arrive whole. *Correct
when*: the server serves while a test holds it, and then ends without losing an answer
it owes, provided that no client withholds the rest of a request.

### OAuth suite (`src/suites/oauth.rs`)
*State*: an embedded provider (task, shutdown channel), the list of outcomes.
*Operations*: start provider, discovery, authorize, token, stop; one request per
live provider. *Hard*: providers left running when a step fails, one error that
discards all outcomes, outcomes that are skipped rather than failed.
*Correct when*: the provider task ends after every run, and each configured
lane has exactly one outcome.

### Running binaries (`src/runner_suite.rs`, `src/component_suite.rs`, `src/deployer_suite.rs`)
*State*: a child process and its three pipes. *Operations*: spawn, write the
payload, read both outputs, wait, judge. *Hard*: full pipes, early exits,
signals, no timeout; paths that are checked in one directory and used in
another; the order in which environment variables are set. *Correct when*: the
harness returns, and accepts exactly the runs its expectation describes. The
deployer suite runs a command twice and compares what it prints.

### Flow, pack and record validators (`src/flow_suite.rs`, `src/pack_suite.rs`, `src/events_suite.rs`, `src/repo_store_suite.rs`, `src/oauth_broker_suite.rs`)
Sequential and without state between calls; a list of checks whose order decides
which error is reported. *Hard*: defaults (schemas, signatures, extensions) that
differ between library and command line, manifest resolution over many
candidates, routing that checks only the first target. *Correct when*: the accepted
documents are those a declarative definition describes.

### Pack/runner suite, policy suite, tenant context (`src/suites/pack_runner.rs`, `src/suites/policy.rs`, `src/assertions.rs`, `src/env.rs`)
Builders and reads of the environment. *Hard*: builder calls that overwrite one
another, u64 arithmetic of the backoff schedule, CI detection by default values.

### Command line (`src/bin/greentic-conformance.rs`)
Turns suite results into reports. The exit status of a command that could
report is 0 whatever it reports; only errors end with 1. *Correct when*: a verdict
is given only if its checks were made, and agrees with the issues reported.

### RP module driver (`ci/tools/run_rp_modules.py`)
*State*: position in the plan, overall verdict; the suite's modules and their
status. *Operations*: read the plan, and per module read its status, start it,
trigger the relying party (RP), poll for the result. *Hard*: entries of the plan without
an id, which are passed over; requests that fail before
or after they took effect, a status that is assumed and not read, deadlines
that race late results. *Correct when*: exit status 0 means that all modules
the plan lists with an id passed, the driver ends, and `--fail-fast` keeps modules apart.

### Hosted run with tunnel (`ci/scripts/run_conformance_hosted_with_tunnel.sh`, `ci/scripts/cf_tunnel.sh`)
*State*: cloudflared process, `.cf-tunnel.env`, `.cf-tunnel.log`, the hosted plan
and its modules. *Hard*: lifetime of the tunnel, files that survive a killed
run, requests that fail after the suite has acted. *Correct when*: the tunnel lives
while the run needs it, the address used is the run's own, success means a
started module.

### Local plan run, reports (`ci/scripts/run_conformance_plan.sh`, `ci/scripts/collect_reports.sh`, `ci/scripts/wait_for.sh`, `Makefile`)
*State*: `reports/.last_plan_id`, reports on disk. *Hard*: a stale plan id after a
failed plan creation; a collection that runs after failures. *Correct when*: a good
job means that all modules with an id passed, and what is collected belongs to the job. Workflows, `ci/local_check.sh` and `scripts/` are glue.

## 2. Plan

Order: most central and most concurrent first.

| Step | Modules | Question | State |
|---|---|---|---|
| 1 | `OAuthMock`, `CodeGrant`, proofs | Are codes, tokens and device codes safe under every interleaving? | done |
| 2 | `RpDriver`, `DriverContract` | What does exit status 0 mean, does the driver end? | done |
| 3 | `HostedRun`, `SharedTunnel` | Is the tunnel there when it is needed, is the address the run's own? | done |
| 4 | `ProcessHarness`, `Invocation` | When is a binary accepted, which one runs, when does the harness hang? | done |
| 5 | `OAuthClients` (extends `OAuthMock`) | Clients that retry over a network that loses answers | done |
| 6 | `OAuthSuite`, `MockServer` | Outcomes per lane; is a provider always stopped, and served until then? | done |
| 7 | `PlanRun` (uses `DriverContract`) | Are the collected reports those of this job? | done |
| 8 | `PackSuite`, `FlowSuite`, `PolicySuite`, `CliVerdicts`, `Records` | Verdicts against what they promise, builder order, integer arithmetic | done |
| 9 | `Toolkit` | The parts of 3 to 8 that meet nothing else, side by side | done |
| 10 | `RpDriverProofs`, `HostedRunProofs`, `ProcessHarnessProofs`, `OAuthClientsProofs`, `ServiceProofs`, `SuiteProofs` | Do the safety properties hold for every instance? | done |

No module has a recursive operator. What is recursive (JSON values, `Invocation`)
is written as a recursive function, so that it can be proved about.

## 3. The modules

Operators whose names start with `Faulty` are bugs the code could have. No action
uses them; each documents what a property would catch.

### OAuthMock
One action per handler. A handler takes the `RwLock` as its only wait on shared
state and keeps it until it returns, and what comes before the lock reads the
request alone, so handlers do not interleave inside.

| Model | Code |
|---|---|
| `authorization_codes`, `refresh_tokens`, `access_tokens`, `device_codes` | `InnerState` (`signing`, `clients` are constants) |
| `now`, `Tick` | `OffsetDateTime::now_utc()`, which never goes back here |
| `reply` | the `MockError` code, or `ok` |
| `claims` | what the signed JWT of an access token says |
| `granted`, `lineage`, `device_log` | history: what was granted, where a refresh token comes from, decisions and redemptions |
| `Authorize`, `AuthorizeRefused` | `authorize`; the verdict in the order of its checks |
| `ExchangeCode`, `ClientCredentials`, `Refresh`, `PollDevice` | the four `handle_*` functions; `TokenRefused` is what fails before the lock |
| `DeviceAuthorization`, `ApproveDeviceCode`, `DenyDeviceCode` | `device_authorization` and the two host calls |
| `Userinfo`, `Introspect`, `Revoke` | the handlers of that name |

Abstractions. Random 32-character strings do not repeat; 8-character user codes
may, and the host then decides one of the holders (`HashMap` order). The poll
count is kept modulo 3, which is all the code reads; wrapping of the u32 counter
after 2^32 polls is left out. Signing cannot fail. ID tokens, nonces, subject and
audience are left out. The features `pkce` and `device_code` are on, as by default.
An authorization code stored by an `/authorize` that then fails to parse the
redirect URI is never sent to anyone, so nobody presents it (`Presentable`).
The client secret is checked by the client_credentials grant only, as in the code.

Two things to know. Approving a code that has already been redeemed makes it
redeemable once more (`RedemptionsWithinApprovals` says once per approval, not
once). A refresh token presented by a wrong client is gone.

### OAuthClients
Extends `OAuthMock`; its handlers are unchanged and take their requests from
`wire`, a set of messages from which any may be delivered next or lost. A session
belongs to one authorization code and behaves as the client of `tests/oauth.rs`
does: it takes over the refresh token of every good answer (`held`). It may send
again while an answer is outstanding (`Tries` under way at most), and ends with a
revocation. `lost`, `left` and `cleanly` are history.

### MockServer
The provider from `MockServerBuilder` to the end of its task. `calls` is the history
of configured clients, `clients` the `HashMap` they end up in, `first` what that map
yields first. `shutdown` is the oneshot, `task` the spawned task; a connection goes
from the backlog to `idle`, `arriving` (part of the head or of the form is there) and
`handling` (the handler has the whole request), and the graceful shutdown of axum
resets the backlog, closes what is idle and lets the rest finish, without a timeout. Clients
come, ask for URLs they know, at once or in pieces, and stop or leave as they like. A request asks for the discovery document or,
with credentials, for a token; the rest of the endpoints is `OAuthMock`.

### CodeGrant
What the provider promises about one code: unborn, offered, active, closed, and
access tokens only at the exchange and while it is active. `OAuthMock` maps to it
by `Phase` (from `granted`, the code table and the refresh line) and `Minted`.

### RpDriver
`pc` is the next request of `drive_modules`, `at` the position in the plan. Each
request has three outcomes: answered; `RuntimeError` (HTTP status, refused
connection), which `start_module` retries once and `drive_modules` catches for
trigger and poll alone; any other exception, which ends the script. In the last
two the other side may have acted. The suite (`SuiteStarts`, `SuiteRuns`,
`SuiteInterrupts`) and the RP (`triggered`) are external. A plan may have been
driven before: every combination of statuses is initial. `PollBudget` is the
number of polls before the deadline, which may also pass earlier. `named` are the modules
that the suite lists with an id: `ensure_modules` passes over the others without a word and
fails only when none is left (`Driven`, `IsNext`), so everything the driver's success says
is about these. `fail_fast` is the flag. The results
`WARNING` and `SKIPPED` are treated as `REVIEW` is and have no value of their own.

### DriverContract and PlanRun
`DriverContract` says what a caller of the driver may rely on: it ends, and with 0
only if the suite lists some module of the plan with an id and every such module has
passed. Of an entry without one it says nothing. `RpDriver` implements it
(`ImplementsContract`, with `named` the same and `passed` and `exit` mapped). `PlanRun` uses an instance
of it for each plan of a job: `wait_for.sh` up to its deadline, the steps of
`run_conformance_plan.sh` (create, record, drive), `collect_reports.sh` after each
plan, failed or not, and the next plan only after a good one, as the targets of the
`Makefile` and the workflows do. The check of the allow list, which the driver makes
first, is in `PlanRun` (`StartDriver`).

### HostedRun
`pc` is the script's next step, over both scripts; runs follow one another and may
be killed at any step. `live` holds tunnels whose cloudflared runs, `killed`
those it has been told to stop: `Detect` ends `cf_tunnel.sh`, whose EXIT trap
kills the tunnel. A kill is that of the whole process group, so cloudflared dies
with the scripts; an orphaned cloudflared writing into the next run's log is not
modelled. Requests may fail before or after the
suite has acted. `curl` for the module start prints the body before the code, so
that start can be reported as a failure although the suite answered 200.

### SharedTunnel
The part of the same scripts that goes through `.cf-tunnel.log` and
`.cf-tunnel.env`, for several runs at a time in one directory. `disturbed` remembers
the runs whose setup another run met. The log is a set of addresses; the scripts
take the first, and which one that is depends on the offsets of its writers.

### ProcessHarness
Both harnesses share the same core: `write_all`, `wait_with_output`, verdict.
`expect` combines `RunnerExpectation` with the component options; a component
always expects success. The child commits to a system call that may block, and
may close its stdin, exit or be signalled. Blocks stand for bytes; pipes hold
`Capacity` of them.

### Invocation
What lies before and after the pipes: the existence checks, the directory and
`GREENTIC_DISABLE_NETWORK` as the child sees them, and `json_contains`, a recursive
function of a pair of JSON values. An expectation asks for success, for JSON and for an
expected part, each of them or not. `Depth` says how deeply a value is nested; it is what
the recursion ends on. Files may vanish between check and use. `Executed` says which file the operating system
runs: relative to the working directory of the child, or from `PATH` for a bare name.

### OAuthSuite
`from_env`, definition by definition (`looked`), then `run_suite` step by step: the mock lane with its embedded provider (`shutdown`,
`task`) and one lane per configured live provider. Every request, the listener and
the provider's task can fail. An error returned with `?` drops the provider, which
sends the shutdown and waits for nothing.

### FlowSuite
The walk over a folder in any order, with entries it cannot read (`hidden_file`),
then each file: parse by extension, and the rules of `validate_flow` in their order,
node by node. Documents are records of what the rules look at.

### PackSuite
The configuration is built call by call (`WithPackOptions`, `WithAllowUnsigned`,
`WithManifestOverride`, `WithRunner`), then run: candidates for the manifest, reading, validation,
comparison with the runtime adapter, the runner. Texts are absent, blank or given.

### PolicySuite
`run_suite` and what it calls, one loop iteration per action: the tenant
with `env_or_default`, secrets put and denied, messages with their duplicate, the
schedule. Integers are counted modulo `Modulus`, a power of two in the code, and a build checks overflows or wraps.

### CliVerdicts
The five commands. What the suites behind a command answer is the environment's
choice; `seen` records what has been established when a verdict is given.

### Records
Five validators of records that refer to one another, called in any order.

### Toolkit
The parts above that share no state with one another (`FlowSuite`, `PackSuite`,
`PolicySuite`, `CliVerdicts`, `Invocation`, `Records`, `MockServer`, `OAuthSuite`,
`SharedTunnel`, `PlanRun`), as instances side by side. A behaviour is one of one part,
`part`, chosen at its start; the other variables are `Idle`. Nothing in the code
makes two of these parts meet: interleaving them would multiply states and show no
more, so `Toolkit` is a disjoint union and not a parallel composition. Its properties are
conjunctions of those the modules state, read there one by one, and its assumptions
are those of the modules. Where parts do meet, they meet in one module:
`OAuthClients` and `OAuthMock`, `PlanRun` and `DriverContract`, `OAuthSuite` and
its provider, `HostedRun` and `SharedTunnel` over both scripts.

## 4. Runs

| Run | Checks | Instance | States |
|---|---|---|---|
| `OAuthCodes` | types, token/grant agreement, scopes, one refresh token per code, refusals issue nothing | 1 code, 3 refresh and 3 access tokens, 2 registered clients and a stranger, 2 scopes, 2 redirect URIs (one does not parse) | 56,967 |
| `OAuthPair` | single use, the inductive invariant, refinement of `CodeGrant` | 2 codes, 2 refresh and 2 access tokens | 15,881 |
| `OAuthDevices` | redemptions, expiry, last decision, no lost entries | 2 device codes, 2 approvals each, expiry on the way | 117,082 |
| `OAuthPolling` | polling ends | 1 device code, fairness | 1,304 |
| `OAuthLossy` | no session gets a token of another line, and it holds the live one unless an answer was lost; a loss is final; a clean leave ends the line | 2 sessions, 2 requests of each under way, 4 refresh tokens | 23,084 |
| `RpWholePlan` | exit status 0, modules kept apart, termination, implements `DriverContract` | 3 modules, any of them with an id, 2 polls, with and without `--fail-fast` | 193,168 |
| `RpEachModule` | finding: entries without an id are passed over | as above | violated |
| `HostedRuns` | success, fresh address | up to 3 tunnels and 3 modules | 21,758 |
| `HostedTunnel` | finding: tunnel killed early | as above | violated |
| `HarnessVerdict` | acceptance, return | pipe of 1 block, payload and output up to 2 | 15,312 |
| `HarnessSuccess` | finding: success rejected | as above | violated |
| `Suites` | the parts of `Toolkit`, below | inputs of `MCToolkit`, fairness | 655,012 |

What `Suites` checks of each part, and on what:

| Part | Property of `Toolkit` | It says | Instance |
|---|---|---|---|
| flow | `FlowReportIsTrue` | a report covers what is visible, routes lead to one node, flow types do what they say, refusals have a fault | 3,500 documents of up to 2 nodes, folders of up to 2 entries |
| pack | `PackReportIsTrue` | unsigned packs only when allowed, whatever the order of builder calls; the named manifest is used; exports are the flows; warnings | 2 calls of the builder, 5 options, manifests that differ from a usual one in one or two respects |
| policy | `PolicyReportIsTrue` | no defaults in CI, denials tell access, duplicates by id, linear backoff | 3-bit integers, up to 2 secrets, denials and messages |
| cli | `VerdictsAreEarned` | verdicts only after what they claim, never beside an issue; full packs are signed; `signature_ok` is a signature or a warning; idempotence | all commands and flags, packs of at most two flows and two components |
| call | `CallIsAsChecked` | the checked program and pack are those used, network only by opt-in | 3 directories, absolute and relative paths and names, all environments, files that vanish; output that is no JSON |
| egress | `CallIsAsChecked` | expected scalars are there, whether failure is allowed or not; weaker expectations are accepted | JSON values of two levels (objects of arrays, arrays of objects) against one another |
| published, events | `AcceptedRecordsFit` | an accepted publication delivers its subscriptions, nodes of accepted flows have providers | up to 2 records of each kind |
| server | `HeldServerServes`, `ServersGoAway` | serves while held, last configuration counts, root issuer served; dropped servers answer the requests they have, and end unless a client withholds the rest of one for ever | 2 ids, 2 secrets, 1 `with_client`, 2 connections |
| oauth | `LaneOutcomesAreTrue`, `ServersGoAway`, `SuitesReturn` | one outcome per lane, a passed mock lane has its token and a stopped provider; the listener goes away, the suite returns | 2 live providers, all flags and credentials |
| shared | `OwnUnlessDisturbed` | whose address a run gives away, what is left behind | 3 overlapping runs, any of them killed |
| plan | `GoodJobMeansNamedPassed`, `SuitesReturn` | a good job has passed what the suite lists with an id, recorded and collected plans, stale reports only in failed jobs; the job ends | 2 plans in a job, 2 modules, 2 looks at the health endpoint |

*Why the bounds are enough.* A refresh line needs three tokens for two rotations:
the first shows that a rotation keeps the grant, the second that a rotated token
rotates again. Two codes show that lines do not mix; two device codes with a
shared user code show that decisions and redemptions do not. Two approvals of
one device code show redemption after re-approval. Time needs one tick beyond a
lifetime. Three modules let a failure, or an entry without an id, come first, in the
middle and last.
Three tunnels let a killed run leave files to two later ones. A pipe of one block
with sizes 0, 1 and 2 gives "fits", "just fits" and "does not fit". Two requests of a
session under way are a request and its repetition, and two sessions show that
lines do not mix on the wire either. One `with_client` can replace the default
client or add a second, and two connections let one be answered while the other
waits. Two plans in a job let the first fail before the second, and an id of an
earlier job is there from the start. Three overlapping runs let one be killed and two meet.
Two nodes suffice for routes, duplicates and unknown targets, two builder calls
for one to undo the other, 3-bit integers overflow within the schedules tried, as
64-bit ones do in longer ones. Symmetry is
declared on codes, tokens and ids, never in a run with a liveness property.
The pools of codes and tokens, `MaxTime`, `MaxApprovals`, `Tries`, `MaxPayload`,
`MaxOutput`, `PollBudget`, `WaitBudget`, `MaxCalls`, `MaxClients`, `Connections`, `Runs`,
`PlansOfJob`, `Urls` and `Ids` are the bounds; the input sets of `MCToolkit` are bounds of their own.

*Deadlock.* `CHECK_DEADLOCK FALSE` is said where the system really stops: the
driver and the harness exit or return, the parts of `Suites` return and its dropped
servers end, and lost or finished sessions (`OAuthLossy`) fall silent. The provider's
handlers and the hosted runs never stop.

*Fairness.* `OAuthMock`: time passes, and the owner of a device code keeps
polling, which is what a device does (RFC 8628, and the loop in the tests);
no fairness of the host or of other requests. `MockServer`: the runtime polls the
task and the handlers, and a handler that has its whole request waits for nobody; none
of host and clients. A request of which a part is withheld never gets to its handler,
and then the task may never end: the property has the hypothesis `NobodyWithholds`. `OAuthSuite`: the suite
runs, its requests having timeouts, and a task that has been told to stop returns.
`PlanRun`: the job's scripts run, with bounded waits. `RpDriver`: the script runs, each
request having a 30 s timeout; none of the suite. `ProcessHarness`: the harness runs
when it is not blocked, and so does the child, as a program that neither
computes to an end nor reads nor writes would hang the harness, which has no timeout.

## 5. Findings

* `HostedTunnel`: the tunnel is torn down by the EXIT trap of `cf_tunnel.sh:17`, before
  the plan is checked, though `docs/oidf_conformance.md:7` and `:64` say it serves
  the run and goes when the command finishes.
* `HarnessSuccess`: with a payload, a binary that exits 0 before it has read
  its stdin is rejected (`runner_suite.rs:202`), although
  `RunnerExpectation::success` "simply checks for process success".
* `RpEachModule`: an entry of the plan without an id is skipped (`run_rp_modules.py:176`),
  and the driver exits with 0 although that module never ran, while
  `run_conformance_plan.sh:17` has it "drive each module".

Seen while reading, in what the models say but without a run of their own:

* `make conformance.full` against a hosted suite creates a plan, and the driver then
  refuses the suite's URL, which the exported allow list lacks
  (`run_conformance_plan.sh:99`, `run_rp_modules.py:244`); `Makefile:31` says it "runs
  every module". (`PlanRun`: `StartDriver` with a hosted suite and any relying party.)
* Errors of the directory walk are dropped (`flow_suite.rs:223`): a folder that cannot
  be read is neither validated nor an error, though all flow documents are said to be
  (`:213`). (`FlowSuite`: `Skip` of a hidden file; `FlowReportIsTrue` says "visible".)
* An MCP node without any metadata passes (`flow_suite.rs:328`); a test is called
  `test_mcp_node_requires_tool_and_action`. (`FlowSuite`: `Metadata`.)
* `with_pack_options` after `allow_unsigned` brings the signature requirement back
  (`pack_runner.rs:73` and `:78`). (`PackSuite`: `WithPackOptions`.)
* A denied secret that can be read is a line of the report and no error
  (`policy.rs:90`), where `.codex/repo_overview.md:33` has denials asserted.
  (`PolicySuite`: `Deny`.)
* With an issuer suffix all URLs of the discovery document answer 404, the routes
  being at the root (`oauth-mock/src/lib.rs:283`). (`MockServer`: `Routed`.)
* `default_client` takes whatever the `HashMap` yields first, not the "first configured
  client" (`lib.rs:336`, `:331`). (`MockServer`: `first`.)

Seen while reading and not modelled: the driver called without `--plan-id` looks for the
recorded plan below `ci/`, where no script writes it (`run_rp_modules.py:247` and `:238`);
the driver's `--insecure` is documented to skip
TLS verification and does not; `docs/oidf_conformance.md:59` has each module created and
started where the hosted script creates one; `README.md:213` calls `check-flow` with `--path`,
which is positional.

## 6. Proofs

Every invariant and every action property that a passing run checks is a theorem of the
specification, for all values of the constants; so are the two refinements, the
second up to termination. A module's inductive invariant stands after its properties, TLC has
checked it on the instances of the runs before it was proved, and the proofs have one
lemma or step per action.

| Module | Theorems | Inductive invariant |
|---|---|---|
| `OAuthMockProofs` | `TypeCorrect`, `TokensKeepTheirGrantAlways`, `ScopesStayWithinRegistration`, `CodesAreSingleUse`, `RefreshLinesDoNotFork`, `RedemptionsStayWithinApprovals`, `ExpiredCodesYieldNothing`, `TheLastDecisionWins`, `PollsKeepTheCode`, `RefusalsIssueNothing` | `GrantInv`, `DeviceInv` |
| `CodeGrantProofs` | `MockImplementsCodeGrant` | `GrantInv` |
| `OAuthClientsProofs` | `ClientsUseTheMock`, `TheLiveTokenIsKnown`, `LossEndsTheLine`, `CleanLeavesEndTheirLine` | `ClientsInv` |
| `RpDriverProofs` | `TypeCorrect`, `SuccessIsEarned`, `ModulesRunOneByOne`, `StepsAreOfContract`, `DriverImplementsContract` | `DriveInv` |
| `HostedRunProofs` | `TypeCorrect`, `SuccessIsEarned`, `AddressesAreOwn` | `RunInv` |
| `ProcessHarnessProofs` | `TypeCorrect`, `AcceptanceIsEarned` | `HarnessInv` |
| `ServiceProofs` | `TunnelsAreOwn`, `GoodJobsHavePassed`, `HeldServersServe`, `LanesAreTrue` | `SharedInv`, `JobInv`, `ServerInv`, `SuiteInv` |
| `SuiteProofs` | `RecordsFit`, `VerdictsMeanTrials`, `PolicyReports`, `FlowReports`, `PackReports`, `CallsAreAsChecked` | `RecordsInv`, `CliInv`, `PolicyInv`, `FlowInv`, `PackInv`, `CallInv` |

**Provider.** That tokens keep their grant needs
`HistoryAgrees` (a stored code is the one granted, nothing descends from a code
never granted), because `ExchangeCode` copies the scope from the table and the
property speaks of the grant; that scopes stay within the registration needs
`GrantsWithinRegistration` for the same reason; that a code has one refresh token
needs `TokensOnlyFromSpentCodes`, since the exchange starts a line and must
find none. `DeviceInv` adds to `RedemptionsWithinApprovals` that an approved entry's latest
decision is an approval. `MockImplementsCodeGrant` consists of `InitMaps` and `StepMaps`, the
latter with one lemma per handler, under `GrantInv` for the state before the step.

**Clients over a network.** `ClientsUseTheMock` shows that a session's requests
are requests `OAuthMock` knows, so `GrantInv` holds beside them. The live token
of a line is known only because no two answers carry it, and a request carries it only
while its session holds it (`WireInv`): the lemma `GoodAnswerIsAlone` is the
centre of the proof, and `IssuerIsOpen` (whoever is issued a token has lost
nothing and did not leave cleanly) gives the two action properties.

**Driver.** `DriveInv` says what the loop has done for the entries with an id before `at`,
and that a plan without any is never gone over; with
`--fail-fast` a bad verdict ends the script before the next module, so that
`overall_success` never turns false on the way. `StepsAreOfContract` is the safety half
of the refinement. The other half of `DriverContract` is termination, so
`DriverImplementsContract` has the hypothesis `DriverTerminates`, which the run
`RpWholePlan` checks under the fairness of the script.

**Hosted runs.** The address is the run's own because `cf_tunnel.sh` empties the log
before cloudflared writes (`log \in {None, mine}` at `detect`) and writes the file that the
other script reads next (`env = mine` at `source`). `SharedInv` says the same of several runs
for those that no other met in their setup. **Harness.** `HarnessInv` adds that a child
about to write has something to write.

**Plans of a job.** `JobInv` counts: as long as nothing has failed, `run` tells how many
plans were announced, and all but the one the job is at have passed and were collected.

**Mock server and OAuth suite.** `ServerInv` ties what the host holds to the task's
state, and each answer to the client that was registered when it was given. `SuiteInv`
accounts for the lanes: the outcomes so far are those of the lanes before `lane`, in
order, and a provider that answered is one of the configured ones.

**Suites.** The invariants say, label by label, what has been established by then
and that it stays so: the files walked (`Walked`), the loops done (`Loops`, `Delays`),
the checks made (`Verified`, `Progress`, `Prepared`). The reports are then read off the last
label. The parts are proved inside `Toolkit`, where they run: for each part the
invariant is `part = "..." => Part!Inv`.

**JSON.** That an accepted output holds every expected scalar and satisfies every weaker
expectation is proved for values of any depth. The library's induction
theorems take an operator as a parameter and cannot be used here, so
`JsonInduction` is proved from `WFMin` and `NatLessThanWellFounded`: among the values for
which a claim fails there is one of least `Depth`, and the claim holds of all its parts. That
the recursive functions `json_contains` and `Leaves` are what their equations say is
proved first, in the same way (`JsonRecursion`, `JsonContains`, `JsonLeaves`).

*Assumptions.* `OAuthMock`: `ClientAssumption` (registered clients have a configuration),
`PkceAssumption` (S256 is a function), `TimeAssumption`, `NoneAssumption` (None is
no entry and no code) and `DisjointAssumption` (the generator returns
distinct kinds of strings). `OAuthClients`: its application is registered with the
redirect URI it uses, and None is no refresh token. `RpDriver`: the plan lists each
module once, there is at least one poll. `HostedRun`, `SharedTunnel`, `PlanRun`, `MockServer`: None is no
address, run, id or secret, and the bounds are numbers. `ProcessHarness`: a pipe holds at least
one block. `OAuthSuite`: the built-in providers differ. The suites: the
inputs have the shape of the Rust types that are parsed, lists being sequences and
optional fields sets of at most one element. `Invocation`: JSON values end, that is
`Depth` falls from a value to its parts.

*Only model-checked.* Liveness, as fairness is out of the prover's
reach: `PollingEnds`, `DriverTerminates`, `HarnessReturns`, `ServersGoAway`,
`SuitesReturn`.

## 7. Not modelled

* JWT encoding, JWKS, ID tokens: constant or a matter of a library.
* `validate_subscription_lifecycle`, the two broker validators, `assert_allowed_worlds` and
  `assert_valid_tool_invocation`: each looks at the fields of one record, and a model
  would repeat them.
* `src/lib.rs`, `src/shims.rs`, fixtures: re-exports.
* Workflows, `ci/local_check.sh`, `scripts/`: glue without state of its own. The order in
  which workflows run plans is `PlanRun`.
* The patching of plan configurations with `jq`, the text of reports and logs.
* The OIDF suite, relying parties, cloudflared, axum, hyper and the operating
  system, beyond what this code expects of them.
