------------------------------ MODULE OAuthMock ------------------------------
(***************************************************************************)
(* The mock OAuth 2.0 / OIDC provider of crates/oauth-mock.                *)
(*                                                                         *)
(* The server keeps one InnerState behind an Arc<RwLock>.  Every handler   *)
(* takes the lock once, as its only await on shared state, and holds it to *)
(* its return; what runs before the lock reads the request alone.  A       *)
(* handler is therefore one action here.  Its early returns keep the order *)
(* of the code, because three handlers have changed the tables before they *)
(* refuse: the code and the refresh token are removed before they are      *)
(* checked, and the authorization code is stored before the redirect URI   *)
(* is parsed.                                                              *)
(*                                                                         *)
(* Random strings (codes, refresh tokens, device codes, JWT ids) are drawn *)
(* from finite sets and never repeat; the 8-character user codes may.      *)
(***************************************************************************)
EXTENDS Integers

CONSTANTS
  ClientIds,        \* client ids a request may present, registered or not
  Registered,       \* keys of InnerState.clients, fixed when the server spawns
  ClientConfig,     \* Registered -> secret, redirect URIs and allowed scopes
  Secrets,          \* client secrets
  Scopes,           \* scope names
  Uris,             \* redirect URIs
  ParsableUris,     \* those Url::parse accepts
  Verifiers,        \* PKCE code verifiers
  Challenges,       \* PKCE code challenges
  S256,             \* Verifiers -> Challenges: base64url(sha256(verifier))
  Codes,            \* authorization codes the generator can return
  RefreshTokens,    \* refresh tokens the generator can return
  AccessTokens,     \* JWTs the signer can return
  DeviceCodes,      \* device codes the generator can return
  UserCodes,        \* user codes the generator can return
  Lifetime,         \* ticks a device code lives (10 minutes in the code)
  MaxTime,          \* bound: last tick of the clock
  MaxApprovals,     \* bound: approvals of one device code by the host
  None              \* Option::None, and "no entry" in a table

Config == [client_secret : Secrets,
           redirect_uris : SUBSET Uris,
           allowed_scopes : SUBSET Scopes]

AuthorizationCode == [client_id : Registered,
                      redirect_uri : Uris,
                      scope : SUBSET Scopes,
                      code_challenge : Challenges]

RefreshTokenEntry == [client_id : Registered, scope : SUBSET Scopes]

DeviceCodeStatus == {"Pending", "Approved", "Denied", "Expired", "Completed"}

PollCycle == 3      \* every third poll of a pending code is told to slow down

(* poll_count is kept modulo PollCycle, all the code reads of it, and is 0 *)
(* in the states other than Pending, where the code has no counter.        *)
DeviceCodeEntry == [client_id : Registered,
                    scope : SUBSET Scopes,
                    user_code : UserCodes,
                    expires_at : Nat,
                    status : DeviceCodeStatus,
                    poll_count : 0 .. PollCycle - 1]

Grants == Codes \cup DeviceCodes

(* The claims of an access token, and the code or device code it was       *)
(* issued for: None under the client_credentials grant.                    *)
AccessClaims == [client_id : Registered,
                 scope : SUBSET Scopes,
                 grant : Grants \cup {None}]

DeviceLog == [approved : Nat, redeemed : Nat, verdict : {"none", "approve", "deny"}]

Errors == {"invalid_request", "invalid_client", "invalid_grant", "invalid_scope",
           "invalid_token", "access_denied", "authorization_pending", "slow_down",
           "expired_token", "not_found"}

Replies == Errors \cup {"ok", "inactive", "start"}

ASSUME ClientAssumption == /\ Registered \subseteq ClientIds
                           /\ ClientConfig \in [Registered -> Config]
ASSUME UriAssumption == ParsableUris \subseteq Uris
ASSUME PkceAssumption == S256 \in [Verifiers -> Challenges]
ASSUME TimeAssumption == Lifetime \in Nat /\ MaxTime \in Nat /\ MaxApprovals \in Nat
ASSUME NoneAssumption == /\ None \notin Grants
                         /\ None \notin AuthorizationCode
                         /\ None \notin RefreshTokenEntry
                         /\ None \notin DeviceCodeEntry
                         /\ None \notin AccessClaims
ASSUME DisjointAssumption == /\ Codes \cap DeviceCodes = {}
                             /\ AccessTokens \cap RefreshTokens = {}

VARIABLES
  authorization_codes, \* Codes -> stored code, None when absent
  refresh_tokens,      \* RefreshTokens -> stored entry, None when absent
  access_tokens,       \* the access tokens userinfo and introspect accept
  device_codes,        \* DeviceCodes -> stored entry, None before it is generated
  now,                 \* OffsetDateTime::now_utc(), in ticks
  reply,               \* outcome of the last request
  granted,             \* history: Codes -> what /authorize granted, None if unused
  lineage,             \* history: RefreshTokens -> the grant it descends from
  claims,              \* AccessTokens -> the claims inside the JWT, None if unused
  device_log           \* history: DeviceCodes -> host decisions and redemptions

tables == <<authorization_codes, refresh_tokens, access_tokens, device_codes>>
history == <<granted, lineage, claims, device_log>>
vars == <<tables, now, reply, history>>

NoDecision == [approved |-> 0, redeemed |-> 0, verdict |-> "none"]

Init ==
  /\ authorization_codes = [c \in Codes |-> None]
  /\ refresh_tokens = [r \in RefreshTokens |-> None]
  /\ access_tokens = {}
  /\ device_codes = [d \in DeviceCodes |-> None]
  /\ now = 0
  /\ reply = "start"
  /\ granted = [c \in Codes |-> None]
  /\ lineage = [r \in RefreshTokens |-> None]
  /\ claims = [a \in AccessTokens |-> None]
  /\ device_log = [d \in DeviceCodes |-> NoDecision]

(***************************************************************************)
(* Taking entries and issuing tokens.  An operator whose name starts with  *)
(* Faulty is a bug this code could have; no action uses it.                *)
(***************************************************************************)

FaultyRemove(table, key) == table      \* get() where the code has remove()

Remove(table, key) == [table EXCEPT ![key] = None]

IssueAccess(a, id, scope, grant) ==
  /\ claims[a] = None
  /\ claims' = [claims EXCEPT ![a] = [client_id |-> id, scope |-> scope, grant |-> grant]]
  /\ access_tokens' = access_tokens \cup {a}

FaultyIssueRefresh(table, r, id, scope, grant) ==      \* scope widens at each rotation
  /\ lineage[r] = None
  /\ lineage' = [lineage EXCEPT ![r] = grant]
  /\ refresh_tokens' = [table EXCEPT ![r] = [client_id |-> id,
                                             scope |-> ClientConfig[id].allowed_scopes]]

(* table is the refresh token table the handler has left before it issues. *)
IssueRefresh(table, r, id, scope, grant) ==
  /\ lineage[r] = None
  /\ lineage' = [lineage EXCEPT ![r] = grant]
  /\ refresh_tokens' = [table EXCEPT ![r] = [client_id |-> id, scope |-> scope]]

FaultyRequestedScope(id, requested) ==      \* the intersection is forgotten
  IF requested = {} THEN ClientConfig[id].allowed_scopes ELSE requested

(* An empty request asks for everything the client may have.               *)
RequestedScope(id, requested) ==
  IF requested = {} THEN ClientConfig[id].allowed_scopes
                    ELSE requested \cap ClientConfig[id].allowed_scopes

(***************************************************************************)
(* GET /authorize                                                          *)
(***************************************************************************)

AuthorizeQuery == [response_type : {"code", "token"},
                   client_id : ClientIds,
                   redirect_uri : Uris,
                   scope : SUBSET Scopes,
                   code_challenge_method : {"S256", "plain", None},
                   code_challenge : Challenges \cup {None}]

AllowedScope(q) == q.scope \cap ClientConfig[q.client_id].allowed_scopes

AuthorizeVerdict(q) ==
  IF q.response_type # "code" THEN "invalid_request"
  ELSE IF q.client_id \notin Registered THEN "invalid_client"
  ELSE IF q.redirect_uri \notin ClientConfig[q.client_id].redirect_uris THEN "invalid_request"
  ELSE IF AllowedScope(q) = {} THEN "invalid_scope"
  ELSE IF q.code_challenge_method # "S256" \/ q.code_challenge = None THEN "invalid_request"
  ELSE "ok"

AuthorizeRefusals == {AuthorizeVerdict(q) : q \in AuthorizeQuery} \ {"ok"}

AuthorizeGrants == {[client_id |-> q.client_id,
                     redirect_uri |-> q.redirect_uri,
                     scope |-> AllowedScope(q),
                     code_challenge |-> q.code_challenge] :
                      q \in {p \in AuthorizeQuery : AuthorizeVerdict(p) = "ok"}}

AuthorizeRefused ==
  /\ reply' \in AuthorizeRefusals
  /\ UNCHANGED <<tables, now, history>>

(* The code is stored first; a registered redirect URI that does not parse *)
(* then turns the reply into an error and leaves the code behind.          *)
Authorize(c, g) ==
  /\ granted[c] = None
  /\ granted' = [granted EXCEPT ![c] = g]
  /\ authorization_codes' = [authorization_codes EXCEPT ![c] = g]
  /\ reply' = IF g.redirect_uri \in ParsableUris THEN "ok" ELSE "invalid_request"
  /\ UNCHANGED <<refresh_tokens, access_tokens, device_codes, now, lineage, claims, device_log>>

(***************************************************************************)
(* POST /token                                                             *)
(***************************************************************************)

(* Credentials that do not parse, an unknown grant_type or a missing       *)
(* parameter: refused before the lock is taken.                            *)
TokenRefused ==
  /\ reply' \in {"invalid_client", "invalid_request"}
  /\ UNCHANGED <<tables, now, history>>

(* A code stored by a failed /authorize was never sent to anyone.          *)
Presentable(c) ==
  authorization_codes[c] # None => authorization_codes[c].redirect_uri \in ParsableUris

FaultyCodeVerdict(entry, id, uri, verifier) ==      \* any registered client may exchange
  IF entry = None THEN "invalid_grant"
  ELSE IF entry.redirect_uri # uri THEN "invalid_grant"
  ELSE IF entry.code_challenge # S256[verifier] THEN "invalid_grant"
  ELSE IF id \notin Registered THEN "invalid_client"
  ELSE "ok"

CodeVerdict(entry, id, uri, verifier) ==
  IF entry = None THEN "invalid_grant"
  ELSE IF entry.client_id # id THEN "invalid_grant"
  ELSE IF entry.redirect_uri # uri THEN "invalid_grant"
  ELSE IF entry.code_challenge # S256[verifier] THEN "invalid_grant"
  ELSE IF id \notin Registered THEN "invalid_client"
  ELSE "ok"

(* The code leaves the table whatever the verdict.  The client secret is   *)
(* not looked at.                                                          *)
ExchangeCode(c, id, uri, verifier) ==
  LET entry == authorization_codes[c]
      verdict == CodeVerdict(entry, id, uri, verifier)
  IN /\ Presentable(c)
     /\ authorization_codes' = Remove(authorization_codes, c)
     /\ reply' = verdict
     /\ \/ /\ verdict = "ok"
           /\ \E a \in AccessTokens : IssueAccess(a, id, entry.scope, c)
           /\ \E r \in RefreshTokens : IssueRefresh(refresh_tokens, r, id, entry.scope, c)
        \/ /\ verdict # "ok"
           /\ UNCHANGED <<refresh_tokens, access_tokens, lineage, claims>>
     /\ UNCHANGED <<device_codes, now, granted, device_log>>

Authenticated(id, secret) == id \in Registered /\ ClientConfig[id].client_secret = secret

FaultyClientCredentials(id, secret, requested) ==      \* issues, then checks the secret
  /\ id \in Registered
  /\ \E a \in AccessTokens : IssueAccess(a, id, RequestedScope(id, requested), None)
  /\ reply' = IF Authenticated(id, secret) THEN "ok" ELSE "invalid_client"
  /\ UNCHANGED <<authorization_codes, refresh_tokens, device_codes, now,
                 granted, lineage, device_log>>

ClientCredentials(id, secret, requested) ==
  /\ \/ /\ ~Authenticated(id, secret)
        /\ reply' = "invalid_client"
        /\ UNCHANGED <<access_tokens, claims>>
     \/ /\ Authenticated(id, secret)
        /\ \E a \in AccessTokens : IssueAccess(a, id, RequestedScope(id, requested), None)
        /\ reply' = "ok"
  /\ UNCHANGED <<authorization_codes, refresh_tokens, device_codes, now,
                 granted, lineage, device_log>>

FaultyHeldBy(entry, id) == entry # None      \* whoever presents it

HeldBy(entry, id) == entry # None /\ entry.client_id = id

(* The token leaves the table whoever presents it; its own client gets a   *)
(* new one of the same scope.  Access tokens issued before stay valid.     *)
Refresh(r, id) ==
  LET entry == refresh_tokens[r]
      burnt == Remove(refresh_tokens, r)
  IN /\ \/ /\ ~HeldBy(entry, id)
           /\ refresh_tokens' = burnt
           /\ reply' = "invalid_grant"
           /\ UNCHANGED <<access_tokens, lineage, claims>>
        \/ /\ HeldBy(entry, id)
           /\ \E a \in AccessTokens : IssueAccess(a, id, entry.scope, lineage[r])
           /\ \E n \in RefreshTokens : IssueRefresh(burnt, n, id, entry.scope, lineage[r])
           /\ reply' = "ok"
     /\ UNCHANGED <<authorization_codes, device_codes, now, granted, device_log>>

(***************************************************************************)
(* Device codes                                                            *)
(***************************************************************************)

(* Nothing keeps user codes distinct.  The last conjunct is a bound: every *)
(* device code can expire before the clock stops.                          *)
DeviceAuthorization(d, id, requested, u) ==
  /\ device_codes[d] = None
  /\ device_codes' = [device_codes EXCEPT ![d] =
       [client_id |-> id, scope |-> RequestedScope(id, requested), user_code |-> u,
        expires_at |-> now + Lifetime, status |-> "Pending", poll_count |-> 0]]
  /\ reply' = "ok"
  /\ UNCHANGED <<authorization_codes, refresh_tokens, access_tokens, now, history>>
  /\ now + Lifetime < MaxTime

DeviceAuthorizationRefused ==
  /\ reply' = "invalid_client"        \* unknown client
  /\ UNCHANGED <<tables, now, history>>

(* The host's decision: it goes to one entry that carries the user code    *)
(* (the first the HashMap yields), whatever the status of that entry.      *)
Decide(d, status, verdict, approvals) ==
  /\ device_codes[d] # None
  /\ device_codes' = [device_codes EXCEPT ![d] = [@ EXCEPT !.status = status, !.poll_count = 0]]
  /\ device_log' = [device_log EXCEPT ![d] = [@ EXCEPT !.verdict = verdict, !.approved = approvals]]
  /\ reply' = "ok"
  /\ UNCHANGED <<authorization_codes, refresh_tokens, access_tokens, now,
                 granted, lineage, claims>>

Holders(u) == {d \in DeviceCodes : device_codes[d] # None /\ device_codes[d].user_code = u}

ApproveDeviceCode(u) ==
  \E d \in Holders(u) :
     /\ device_log[d].approved < MaxApprovals
     /\ Decide(d, "Approved", "approve", device_log[d].approved + 1)

FaultyDenyDeviceCode(u) ==      \* a code already approved stays approved
  \E d \in Holders(u) :
     LET status == IF device_codes[d].status = "Pending" THEN "Denied" ELSE device_codes[d].status
     IN Decide(d, status, "deny", device_log[d].approved)

DenyDeviceCode(u) ==
  \E d \in Holders(u) : Decide(d, "Denied", "deny", device_log[d].approved)

DecisionNotFound(u) ==
  /\ Holders(u) = {}
  /\ reply' = "not_found"
  /\ UNCHANGED <<tables, now, history>>

FaultyPolled(d) ==      \* only a pending code expires
  IF now > device_codes[d].expires_at /\ device_codes[d].status = "Pending"
  THEN [device_codes[d] EXCEPT !.status = "Expired", !.poll_count = 0]
  ELSE device_codes[d]

FaultyPolledForever(d) == device_codes[d]      \* nothing expires

(* What a poll finds: the entry, expired first if its time is over.        *)
Polled(d) ==
  IF now > device_codes[d].expires_at
  THEN [device_codes[d] EXCEPT !.status = "Expired", !.poll_count = 0]
  ELSE device_codes[d]

PollReply == [Denied    |-> "access_denied",
              Expired   |-> "expired_token",
              Completed |-> "invalid_grant"]

FaultyPollRefused(d, id) ==      \* another client's poll loses the entry
  /\ device_codes[d] # None /\ device_codes[d].client_id # id
  /\ device_codes' = Remove(device_codes, d)
  /\ reply' = "invalid_client"
  /\ UNCHANGED <<authorization_codes, refresh_tokens, access_tokens, now, history>>

(* No such code, or another client's: that entry is put back untouched.    *)
PollRefused(d, id) ==
  /\ \/ device_codes[d] = None /\ reply' = "invalid_grant"
     \/ device_codes[d] # None /\ device_codes[d].client_id # id /\ reply' = "invalid_client"
  /\ UNCHANGED <<tables, now, history>>

PollPending(d) ==
  LET count == (Polled(d).poll_count + 1) % PollCycle
  IN /\ Polled(d).status = "Pending"
     /\ device_codes' = [device_codes EXCEPT ![d] = [Polled(d) EXCEPT !.poll_count = count]]
     /\ reply' = IF count = 0 THEN "slow_down" ELSE "authorization_pending"
     /\ UNCHANGED <<authorization_codes, refresh_tokens, access_tokens, now, history>>

FaultyCompleted(entry) == entry      \* stays approved once redeemed

Completed(entry) == [entry EXCEPT !.status = "Completed"]

PollApproved(d) ==
  LET entry == Polled(d)
  IN /\ entry.status = "Approved"
     /\ \E a \in AccessTokens : IssueAccess(a, entry.client_id, entry.scope, d)
     /\ \E r \in RefreshTokens :
           IssueRefresh(refresh_tokens, r, entry.client_id, entry.scope, d)
     /\ device_codes' = [device_codes EXCEPT ![d] = Completed(entry)]
     /\ device_log' = [device_log EXCEPT ![d].redeemed = @ + 1]
     /\ reply' = "ok"
     /\ UNCHANGED <<authorization_codes, now, granted>>

PollAnswered(d) ==
  LET entry == Polled(d)
  IN /\ entry.status \in DOMAIN PollReply
     /\ device_codes' = [device_codes EXCEPT ![d] = entry]
     /\ reply' = PollReply[entry.status]
     /\ UNCHANGED <<authorization_codes, refresh_tokens, access_tokens, now, history>>

PollDevice(d, id) ==
  \/ PollRefused(d, id)
  \/ /\ HeldBy(device_codes[d], id)
     /\ PollPending(d) \/ PollApproved(d) \/ PollAnswered(d)

(***************************************************************************)
(* Using and revoking tokens                                               *)
(***************************************************************************)

Tokens == AccessTokens \cup RefreshTokens

Userinfo(t) ==
  /\ reply' = IF t \in access_tokens THEN "ok" ELSE "invalid_token"
  /\ UNCHANGED <<tables, now, history>>

Active(t) == t \in access_tokens \/ (t \in RefreshTokens /\ refresh_tokens[t] # None)

Introspect(t) ==
  /\ reply' = IF Active(t) THEN "ok" ELSE "inactive"
  /\ UNCHANGED <<tables, now, history>>

(* Credentials only have to parse; neither grant nor sibling token falls.  *)
Revoke(t) ==
  /\ access_tokens' = access_tokens \ {t}
  /\ refresh_tokens' = [r \in RefreshTokens |-> IF r = t THEN None ELSE refresh_tokens[r]]
  /\ reply' = "ok"
  /\ UNCHANGED <<authorization_codes, device_codes, now, history>>

Tick ==
  /\ now < MaxTime
  /\ now' = now + 1
  /\ UNCHANGED <<tables, reply, history>>

CodeStep ==
  \/ AuthorizeRefused
  \/ \E c \in Codes, g \in AuthorizeGrants : Authorize(c, g)
  \/ \E c \in Codes, id \in ClientIds, uri \in Uris, v \in Verifiers : ExchangeCode(c, id, uri, v)

DeviceStep ==
  \/ \E d \in DeviceCodes, id \in Registered, requested \in SUBSET Scopes, u \in UserCodes :
        DeviceAuthorization(d, id, requested, u)
  \/ DeviceAuthorizationRefused
  \/ \E u \in UserCodes : ApproveDeviceCode(u) \/ DenyDeviceCode(u) \/ DecisionNotFound(u)
  \/ \E d \in DeviceCodes, id \in ClientIds : PollDevice(d, id)

TokenStep ==
  \/ TokenRefused
  \/ \E id \in ClientIds, secret \in Secrets, requested \in SUBSET Scopes :
        ClientCredentials(id, secret, requested)
  \/ \E r \in RefreshTokens, id \in ClientIds : Refresh(r, id)
  \/ \E t \in Tokens : Userinfo(t) \/ Introspect(t) \/ Revoke(t)

Next == CodeStep \/ DeviceStep \/ TokenStep \/ Tick

Spec == Init /\ [][Next]_vars

(* Scheduling: time passes, and a device keeps polling for the code it was *)
(* given until the answer is final (RFC 8628, the loop tests/oauth.rs runs *)
(* against this server).                                                   *)
OwnerPolls(d) == device_codes[d] # None /\ PollDevice(d, device_codes[d].client_id)

FairSpec == Spec /\ WF_vars(Tick) /\ \A d \in DeviceCodes : WF_vars(OwnerPolls(d))

-----------------------------------------------------------------------------
(***************************************************************************)
(* Properties                                                              *)
(***************************************************************************)

(* Every table holds what its Rust type allows, and every stored entry     *)
(* belongs to a registered client: the "unknown client" returns after a    *)
(* code, refresh token or device code was found are never taken.           *)
TypeOK ==
  /\ authorization_codes \in [Codes -> AuthorizationCode \cup {None}]
  /\ refresh_tokens \in [RefreshTokens -> RefreshTokenEntry \cup {None}]
  /\ access_tokens \subseteq AccessTokens
  /\ device_codes \in [DeviceCodes -> DeviceCodeEntry \cup {None}]
  /\ now \in Nat
  /\ reply \in Replies
  /\ granted \in [Codes -> AuthorizationCode \cup {None}]
  /\ lineage \in [RefreshTokens -> Grants \cup {None}]
  /\ claims \in [AccessTokens -> AccessClaims \cup {None}]
  /\ device_log \in [DeviceCodes -> DeviceLog]

GrantOf(g) == IF g \in Codes THEN granted[g] ELSE device_codes[g]

Matches(token, g) ==
  /\ GrantOf(g) # None
  /\ token.client_id = GrantOf(g).client_id
  /\ token.scope = GrantOf(g).scope

Live(r) == refresh_tokens[r] # None

(* A token never outgrows the grant it came from: through the exchange and *)
(* every rotation after it, it keeps the client and exactly the scope that *)
(* /authorize or /device_authorization granted.                            *)
TokensKeepTheirGrant ==
  /\ \A r \in RefreshTokens : Live(r) =>
        lineage[r] # None /\ Matches(refresh_tokens[r], lineage[r])
  /\ \A a \in AccessTokens : claims[a] # None /\ claims[a].grant # None =>
        Matches(claims[a], claims[a].grant)

(* Whatever the grant, no token the server ever signed or still refreshes  *)
(* carries a scope its client is not registered for.                       *)
ScopesWithinRegistration ==
  /\ \A a \in AccessTokens : claims[a] # None =>
        claims[a].scope \subseteq ClientConfig[claims[a].client_id].allowed_scopes
  /\ \A r \in RefreshTokens : Live(r) =>
        refresh_tokens[r].scope \subseteq ClientConfig[refresh_tokens[r].client_id].allowed_scopes

(* One authorization code yields one line of refresh tokens: at most one   *)
(* refresh token of the line is alive, however often it is rotated.        *)
OneRefreshTokenPerCode ==
  \A r, s \in RefreshTokens :
     Live(r) /\ Live(s) /\ lineage[r] = lineage[s] /\ lineage[r] \in Codes => r = s

(* A code can be exchanged only while nothing descends from it: no access  *)
(* or refresh token, dead or alive, goes back to a code still in the table.*)
TokensOnlyFromSpentCodes ==
  \A c \in Codes : authorization_codes[c] # None =>
     /\ \A r \in RefreshTokens : lineage[r] # c
     /\ \A a \in AccessTokens : claims[a] # None => claims[a].grant # c

(* A device gets tokens at most once per approval by the host: however     *)
(* polls, approvals, denials and expiry interleave, a redemption uses up   *)
(* an approval that no other redemption has used.                          *)
RedemptionsWithinApprovals ==
  \A d \in DeviceCodes :
     /\ device_log[d].redeemed <= device_log[d].approved
     /\ device_codes[d] # None /\ device_codes[d].status = "Approved" =>
           device_log[d].redeemed < device_log[d].approved

Redeemed(d) == device_log'[d].redeemed # device_log[d].redeemed

(* After its lifetime a device code yields no tokens, even if the host     *)
(* approves it then and even if it had been approved in time.              *)
NoLateRedemption ==
  [][\A d \in DeviceCodes : Redeemed(d) => now <= device_codes[d].expires_at]_vars

(* The host's last word counts: a code whose latest decision is a denial   *)
(* is not redeemed, whatever it had been before.                           *)
LastDecisionWins ==
  [][\A d \in DeviceCodes : Redeemed(d) => device_log[d].verdict = "approve"]_vars

(* A device code is not lost while it is being polled, although every poll *)
(* takes it out of the table first; and no poll, by its owner or anyone,   *)
(* reopens an answered code or approves one: only the host approves.       *)
PollsKeepDeviceCode ==
  [][\A d \in DeviceCodes : device_codes[d] # None =>
       /\ device_codes'[d] # None
       /\ device_codes'[d].status = "Pending" => device_codes[d].status = "Pending"
       /\ device_codes'[d].status = "Approved" /\ device_codes[d].status # "Approved"
            => device_log'[d].approved > device_log[d].approved]_vars

(* A request that is answered with an error leaves no new usable token     *)
(* behind, although handlers change the tables before they refuse.         *)
RefusalIssuesNothing ==
  [][reply' # "ok" =>
       /\ access_tokens' \subseteq access_tokens
       /\ \A r \in RefreshTokens : ~Live(r) => ~Live(r)']_vars

(* Polling ends: every device code is eventually answered for good         *)
(* (tokens, denied or expired) when its owner keeps polling, also when the *)
(* host never decides.                                                     *)
PollingEnds ==
  \A d \in DeviceCodes :
     device_codes[d] # None
       ~> (device_codes[d] # None /\ device_codes[d].status \in {"Completed", "Denied", "Expired"})

(* The history and the tables agree: a stored code is the one granted, and *)
(* nothing descends from a code that was never granted.                    *)
HistoryAgrees ==
  \A c \in Codes :
     /\ authorization_codes[c] # None => authorization_codes[c] = granted[c]
     /\ granted[c] = None =>
          /\ \A r \in RefreshTokens : lineage[r] # c
          /\ \A a \in AccessTokens : claims[a] # None => claims[a].grant # c

GrantsWithinRegistration ==
  \A g \in Grants : GrantOf(g) # None =>
     GrantOf(g).scope \subseteq ClientConfig[GrantOf(g).client_id].allowed_scopes

(* The inductive invariant behind the properties of codes and tokens.      *)
GrantInv ==
  /\ TypeOK
  /\ HistoryAgrees
  /\ GrantsWithinRegistration
  /\ TokensKeepTheirGrant
  /\ ScopesWithinRegistration
  /\ TokensOnlyFromSpentCodes
  /\ OneRefreshTokenPerCode

(* The inductive invariant behind the properties of device codes.          *)
DeviceInv ==
  /\ TypeOK
  /\ RedemptionsWithinApprovals
  /\ \A d \in DeviceCodes : device_codes[d] # None /\ device_codes[d].status = "Approved" =>
        device_log[d].verdict = "approve"

(* The abstract life of an authorization code, as CodeGrant states it.     *)
Phase(c) ==
  IF granted[c] = None THEN "unborn"
  ELSE IF authorization_codes[c] # None THEN "offered"
  ELSE IF \E r \in RefreshTokens : Live(r) /\ lineage[r] = c THEN "active"
  ELSE "closed"

Minted(c) == {a \in AccessTokens : claims[a] # None /\ claims[a].grant = c}

Lifecycle == INSTANCE CodeGrant WITH
  Tokens <- AccessTokens,
  phase <- [c \in Codes |-> Phase(c)],
  minted <- [c \in Codes |-> Minted(c)]

(* Every authorization code goes unborn, offered, active, closed, in that  *)
(* order; access tokens for it are signed only at the exchange and while   *)
(* its refresh line is active; nothing revives it once it is spent, burnt  *)
(* or revoked.                                                             *)
ImplementsCodeGrant == Lifecycle!Spec
=============================================================================
