----------------------------- MODULE OAuthSuite -----------------------------
(***************************************************************************)
(* src/suites/oauth.rs: the OAuth suite.  Its mock lane starts an embedded *)
(* OIDC provider in a task of its own, runs one code flow against it and   *)
(* stops it; its live lanes ask the authorization endpoints of configured  *)
(* providers.  The first error ends the suite and drops what it holds.     *)
(*                                                                         *)
(* Every request can fail (the clients have timeouts), binding the         *)
(* listener can fail, and the provider's task can end by an error.         *)
(***************************************************************************)
EXTENDS Integers, Sequences

CONSTANTS
  Providers,   \* names of live providers
  DefaultLive  \* DEFAULT_LIVE_PROVIDERS: a sequence of them

(* What the parameters can be; Toolkit assumes it.                         *)
ProvidersAssumption ==
  /\ DefaultLive \in Seq(Providers)
  /\ \A i, j \in DOMAIN DefaultLive : DefaultLive[i] = DefaultLive[j] => i = j

None == "none"
Flags == {"CI", "CI_ENABLE_OAUTH", "CI_ENABLE_OAUTH_MOCK", "CI_DISABLE_OAUTH_MOCK",
          "CI_ENABLE_OAUTH_LIVE"}
Credentials == {"CLIENT_ID", "CLIENT_SECRET", "REDIRECT_URI"}

VARIABLES
  flags,     \* flags that env::bool_flag finds set
  creds,     \* provider -> credentials found in the environment
  looked,    \* definitions from_env has looked at
  live_providers,  \* those that are configured, so far
  pc,        \* step of run_suite
  lane,      \* lane it is at: 0 the mock lane, i the i-th live provider
  outcomes,  \* outcomes pushed so far: sequence of [lane, status]
  result,    \* what run_suite has returned
  code,      \* code read from the redirect
  token,     \* body of the answer of the token endpoint
  shutdown,  \* has the oneshot been sent
  task,      \* the provider's task
  answer     \* live provider -> how its request ended, None if none was made

config == <<flags, creds, looked, live_providers>>
provider == <<shutdown, task>>
vars == <<config, pc, lane, outcomes, result, code, token, provider, answer>>

(* OAuthSuiteConfig::from_env                                              *)
RunMock ==
  /\ "CI_DISABLE_OAUTH_MOCK" \notin flags
  /\ flags \cap {"CI_ENABLE_OAUTH", "CI_ENABLE_OAUTH_MOCK"} # {} \/ "CI" \notin flags

RunLive == "CI_ENABLE_OAUTH_LIVE" \in flags

Configured(p) == creds[p] = Credentials

Init ==
  /\ flags \in SUBSET Flags
  /\ creds \in [Providers -> SUBSET Credentials]
  /\ looked = 0 /\ live_providers = <<>>
  /\ pc = "from_env" /\ lane = 0 /\ outcomes = <<>> /\ result = "running"
  /\ code = None /\ token = None
  /\ shutdown = FALSE /\ task = None
  /\ answer = [p \in Providers |-> None]

(* The live providers are those of the definitions that are configured.    *)
FromEnv ==
  /\ pc = "from_env"
  /\ IF looked < Len(DefaultLive)
     THEN LET p == DefaultLive[looked + 1] IN
            /\ looked' = looked + 1
            /\ live_providers' = IF Configured(p) THEN Append(live_providers, p) ELSE live_providers
            /\ UNCHANGED pc
     ELSE pc' = "mock_lane" /\ UNCHANGED <<looked, live_providers>>
  /\ UNCHANGED <<flags, creds, lane, outcomes, result, code, token, provider, answer>>

(***************************************************************************)
(* The embedded provider.  An answer is its status with what the suite     *)
(* reads of it; a refusal is plain text.                                   *)
(***************************************************************************)

Mock == [client_id |-> "mock-client", client_secret |-> "mock-secret",
         redirect_uri |-> "callback", code |-> "mock-code"]

Refusal == [status |-> 400, json |-> FALSE]

WellKnown == [status |-> 200, json |-> TRUE,
              fields |-> {"issuer", "authorization_endpoint", "token_endpoint", "jwks_uri"}]

Authorize(params) ==
  IF /\ params.client_id = Mock.client_id
     /\ params.redirect_uri = Mock.redirect_uri
     /\ params.response_type = "code"
  THEN [status |-> 303, location |-> [code |-> Mock.code, state |-> params.state]]
  ELSE Refusal

Token(params) ==
  IF /\ params.grant_type = "authorization_code"
     /\ params.code = Mock.code
     /\ params.client_id = Mock.client_id /\ params.client_secret = Mock.client_secret
     /\ params.redirect_uri = Mock.redirect_uri
  THEN [status |-> 200, json |-> TRUE, body |-> "token"]
  ELSE Refusal

Task(end) ==
  /\ task = "serving" /\ task' = end
  /\ UNCHANGED <<config, pc, lane, outcomes, result, code, token, shutdown, answer>>

(* Once shut down, axum serves what is open and returns.                   *)
TaskReturns == shutdown /\ Task("ok")

TaskFails == Task("error")

(***************************************************************************)
(* run_mock_suite                                                          *)
(***************************************************************************)

FaultyFail ==     \* the provider has no Drop
  /\ result' = "error" /\ pc' = "end"
  /\ UNCHANGED <<config, lane, outcomes, token, answer, provider>>

(* An error returned with ? drops the provider, which sends the shutdown   *)
(* and does not wait for the task.                                         *)
Fail ==
  /\ result' = "error" /\ pc' = "end"
  /\ shutdown' = (shutdown \/ task # None)
  /\ UNCHANGED <<config, lane, outcomes, token, answer, task>>

Goto(label) == pc' = label /\ UNCHANGED <<config, lane, outcomes, result, answer, shutdown>>

Push(status) ==
  /\ outcomes' = Append(outcomes, [lane |-> lane, status |-> status])
  /\ lane' = lane + 1
  /\ IF lane = Len(live_providers)
     THEN pc' = "end" /\ result' = "report"
     ELSE pc' = "live_lane" /\ UNCHANGED result

MockLane ==
  /\ pc = "mock_lane"
  /\ \/ /\ RunMock
        /\ task' = "serving" /\ Goto("discovery")
        /\ UNCHANGED <<code, token>>
     \/ /\ RunMock /\ Fail      \* the listener cannot be bound
        /\ UNCHANGED code
     \/ /\ ~RunMock /\ Push("skipped")
        /\ UNCHANGED <<config, code, token, provider, answer>>

Discovery ==
  /\ pc = "discovery"
  /\ \/ /\ task = "serving"
        /\ {"issuer", "authorization_endpoint", "token_endpoint", "jwks_uri"} \subseteq WellKnown.fields
        /\ Goto("authorize")
        /\ UNCHANGED <<token, task>>
     \/ Fail
  /\ UNCHANGED code

AuthorizeAnswer ==
  Authorize([response_type |-> "code", client_id |-> Mock.client_id,
             redirect_uri |-> Mock.redirect_uri, state |-> "state-123"])

AuthorizeStep ==
  /\ pc = "authorize"
  /\ \/ /\ task = "serving"
        /\ AuthorizeAnswer.status = 303 /\ AuthorizeAnswer.location.state = "state-123"
        /\ code' = AuthorizeAnswer.location.code
        /\ Goto("token")
        /\ UNCHANGED <<token, task>>
     \/ Fail /\ UNCHANGED code

TokenAnswer ==
  Token([grant_type |-> "authorization_code", code |-> code, client_id |-> Mock.client_id,
         redirect_uri |-> Mock.redirect_uri, client_secret |-> Mock.client_secret])

(* The status is not looked at: any answer that is JSON is taken.          *)
TokenStep ==
  /\ pc = "token"
  /\ \/ /\ task = "serving" /\ TokenAnswer.json
        /\ token' = TokenAnswer.body
        /\ Goto("stop")
        /\ UNCHANGED task
     \/ Fail
  /\ UNCHANGED code

FaultyStopUnsent ==      \* the sender is kept while the task is awaited
  /\ pc = "stop"
  /\ \/ task = "ok" /\ Push("passed") /\ UNCHANGED <<config, token, provider, answer>>
     \/ task = "error" /\ Fail
  /\ UNCHANGED code

(* MockOidcProvider::stop: send the shutdown, then await the task.         *)
Stop ==
  /\ pc = "stop"
  /\ \/ /\ ~shutdown /\ shutdown' = TRUE
        /\ UNCHANGED <<config, pc, lane, outcomes, result, token, task, answer>>
     \/ /\ shutdown /\ task = "ok" /\ Push("passed")
        /\ UNCHANGED <<config, token, provider, answer>>
     \/ shutdown /\ task = "error" /\ Fail
  /\ UNCHANGED code

(***************************************************************************)
(* run_live_provider                                                       *)
(***************************************************************************)

(* How a request to a real provider ends: refused or timed out, another    *)
(* error of reqwest (too many redirects, say), or an answer.               *)
Endings == {"unreachable", "reqwest_error", "accepted", "unexpected_status"}

(* The outcome of a lane; an error other than reqwest's ends the suite.    *)
OfLive(ending) ==
  CASE ending = "accepted" -> "passed"
    [] ending \in {"unreachable", "reqwest_error"} -> "skipped"
    [] ending = "unexpected_status" -> "error"

FaultyGoOn ==      \* an error of a provider is passed over
  /\ pc = "live_lane"
  /\ lane' = lane + 1
  /\ IF lane = Len(live_providers)
     THEN pc' = "end" /\ result' = "report" /\ UNCHANGED outcomes
     ELSE UNCHANGED <<pc, result, outcomes>>
  /\ UNCHANGED <<config, code, token, provider, answer>>

LiveLane ==
  /\ pc = "live_lane"
  /\ \/ ~RunLive /\ Push("skipped") /\ UNCHANGED answer
     \/ /\ RunLive
        /\ \E ending \in Endings :
             /\ answer' = [answer EXCEPT ![live_providers[lane]] = ending]
             /\ IF OfLive(ending) = "error"
                THEN pc' = "end" /\ result' = "error" /\ UNCHANGED <<lane, outcomes>>
                ELSE Push(OfLive(ending))
     \/ /\ RunLive      \* one of the URLs does not parse
        /\ pc' = "end" /\ result' = "error" /\ UNCHANGED <<lane, outcomes, answer>>
  /\ UNCHANGED <<config, code, token, provider>>

Suite == FromEnv \/ MockLane \/ Discovery \/ AuthorizeStep \/ TokenStep \/ Stop \/ LiveLane

Next == Suite \/ TaskReturns \/ TaskFails

(* Requests have timeouts, and a task whose server is shut down returns.   *)
Fairness == WF_vars(Suite) /\ WF_vars(TaskReturns)

Spec == Init /\ [][Next]_vars /\ Fairness

(***************************************************************************)
(* Properties                                                              *)
(***************************************************************************)

(* The variables hold what the suite and its provider can.                 *)
TypeOK ==
  /\ flags \subseteq Flags /\ creds \in [Providers -> SUBSET Credentials]
  /\ looked \in 0..Len(DefaultLive) /\ live_providers \in Seq(Providers)
  /\ pc \in {"from_env", "mock_lane", "discovery", "authorize", "token", "stop", "live_lane", "end"}
  /\ lane \in 0..Len(live_providers) + 1 /\ (pc = "live_lane" => lane \in DOMAIN live_providers)
  /\ outcomes \in Seq([lane : 0..Len(live_providers), status : {"passed", "skipped"}])
  /\ result \in {"running", "report", "error"} /\ (result = "running" <=> pc # "end")
  /\ code \in {None, Mock.code} /\ token \in {None, "token"}
  /\ shutdown \in BOOLEAN /\ task \in {None, "serving", "ok", "error"}
  /\ answer \in [Providers -> Endings \cup {None}]

(* The mock lane passes only when the provider's token endpoint has issued *)
(* a token and its task has been stopped and has ended well (run_mock_     *)
(* suite checks no status but that of authorize).                          *)
PassedMeansTokenAndStopped ==
  \A i \in DOMAIN outcomes :
    outcomes[i] = [lane |-> 0, status |-> "passed"] => token = "token" /\ task = "ok"

(* A report has one outcome per lane, in the order of the configuration,   *)
(* and an error is returned at the first lane at fault: all the lanes      *)
(* before it had an outcome, which is discarded with it.                   *)
OneOutcomePerLane ==
  /\ \A i \in DOMAIN outcomes : outcomes[i].lane = i - 1
  /\ result = "report" => Len(outcomes) = 1 + Len(live_providers)
  /\ result = "error" => Len(outcomes) = lane /\ lane <= Len(live_providers)

(* A real provider is asked only when CI_ENABLE_OAUTH_LIVE is set and all  *)
(* its credentials are, and never after another one ended the suite.       *)
LiveOnlyWhenEnabled ==
  \A p \in Providers : answer[p] # None =>
    /\ "CI_ENABLE_OAUTH_LIVE" \in flags /\ creds[p] = Credentials
    /\ \A i \in 1..Len(live_providers) : live_providers[i] = p =>
         \A j \in 1..i - 1 : answer[live_providers[j]] \in Endings \ {"unexpected_status"}

(* A network that is down fails no live lane: the suite ends in an error   *)
(* of a provider only if that one answered, or was never asked.            *)
NetworkFailsNoLiveLane ==
  result = "error" /\ lane > 0 => answer[live_providers[lane]] \in {None, "unexpected_status"}

(* However the suite ends, the listener of its provider goes away, although *)
(* only the good end waits for it.                                         *)
ListenerGoesAway == task = "serving" ~> task # "serving"

(***************************************************************************)
(* What every step preserves: the live providers are different and         *)
(* configured, the lanes before the current one have their outcomes, and   *)
(* those and no others were asked.                                         *)
(***************************************************************************)

LiveOnes ==
  \A i \in DOMAIN live_providers :
    /\ Configured(live_providers[i])
    /\ \E k \in 1..looked : live_providers[i] = DefaultLive[k]
    /\ \A j \in DOMAIN live_providers : live_providers[i] = live_providers[j] => i = j

Lanes ==
  /\ pc \notin {"live_lane", "end"} => lane = 0
  /\ lane <= Len(live_providers) <=> result # "report"
  /\ Len(outcomes) = lane /\ \A i \in DOMAIN outcomes : outcomes[i].lane = i - 1
  /\ pc = "stop" => token = "token"

Asked ==
  /\ \A p \in Providers : answer[p] # None =>
       /\ RunLive
       /\ \E i \in DOMAIN live_providers :
            live_providers[i] = p /\ (i < lane \/ (i = lane /\ pc = "end"))
  /\ RunLive => \A i \in 1..lane - 1 : answer[live_providers[i]] \in Endings \ {"unexpected_status"}

SuiteInv ==
  TypeOK /\ LiveOnes /\ Lanes /\ Asked /\ PassedMeansTokenAndStopped /\ NetworkFailsNoLiveLane
=============================================================================
