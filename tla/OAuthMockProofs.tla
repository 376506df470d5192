--------------------------- MODULE OAuthMockProofs ---------------------------
(***************************************************************************)
(* Theorems about OAuthMock for every set of clients, scopes, codes and    *)
(* tokens.                                                                 *)
(***************************************************************************)
EXTENDS OAuthMock, TLAPS

USE DEF Errors, Replies, Remove, Completed

(***************************************************************************)
(* Lemmas about the helpers                                                *)
(***************************************************************************)

(* What /authorize grants is a well-formed code entry of a registered      *)
(* client, within the scopes that client may have.                         *)
LEMMA GrantsAreCodes ==
  ASSUME NEW g \in AuthorizeGrants
  PROVE  /\ g \in AuthorizationCode
         /\ g # None
         /\ g.scope \subseteq ClientConfig[g.client_id].allowed_scopes
<1>1. PICK q \in AuthorizeQuery :
         /\ AuthorizeVerdict(q) = "ok"
         /\ g = [client_id |-> q.client_id,
                 redirect_uri |-> q.redirect_uri,
                 scope |-> AllowedScope(q),
                 code_challenge |-> q.code_challenge]
  BY DEF AuthorizeGrants
<1>2. q.client_id \in Registered /\ q.code_challenge # None
  BY <1>1 DEF AuthorizeVerdict
<1>3. AllowedScope(q) \in SUBSET Scopes
  BY DEF AllowedScope, AuthorizeQuery
<1>4. q.redirect_uri \in Uris /\ q.code_challenge \in Challenges
  BY <1>2 DEF AuthorizeQuery
<1>5. g \in AuthorizationCode
  BY <1>1, <1>2, <1>3, <1>4 DEF AuthorizationCode
<1>6. g.scope \subseteq ClientConfig[g.client_id].allowed_scopes
  BY <1>1 DEF AllowedScope
<1> QED
  BY <1>5, <1>6, NoneAssumption

(* A client asks for scopes it is registered for, or gets all of those.    *)
LEMMA RequestedScopeIsAllowed ==
  ASSUME NEW id \in Registered, NEW requested \in SUBSET Scopes
  PROVE  /\ RequestedScope(id, requested) \in SUBSET Scopes
         /\ RequestedScope(id, requested) \subseteq ClientConfig[id].allowed_scopes
BY ClientAssumption DEF RequestedScope, Config

(***************************************************************************)
(* Issuing                                                                 *)
(***************************************************************************)

LEMMA IssueAccessType ==
  ASSUME TypeOK,
         NEW a \in AccessTokens, NEW id \in Registered, NEW scope \in SUBSET Scopes,
         NEW grant \in Grants \cup {None},
         IssueAccess(a, id, scope, grant)
  PROVE  /\ access_tokens' \subseteq AccessTokens
         /\ claims' \in [AccessTokens -> AccessClaims \cup {None}]
BY DEF TypeOK, IssueAccess, AccessClaims

(* issue_refresh_token keeps the refresh table and its history well        *)
(* typed.                                                                  *)
LEMMA IssueRefreshType ==
  ASSUME TypeOK,
         NEW table \in [RefreshTokens -> RefreshTokenEntry \cup {None}],
         NEW r \in RefreshTokens, NEW id \in Registered, NEW scope \in SUBSET Scopes,
         NEW grant \in Grants \cup {None},
         IssueRefresh(table, r, id, scope, grant)
  PROVE  /\ refresh_tokens' \in [RefreshTokens -> RefreshTokenEntry \cup {None}]
         /\ lineage' \in [RefreshTokens -> Grants \cup {None}]
BY DEF TypeOK, IssueRefresh, RefreshTokenEntry

(***************************************************************************)
(* Type correctness, action by action                                      *)
(***************************************************************************)

LEMMA AuthorizeType ==
  ASSUME TypeOK, NEW c \in Codes, NEW g \in AuthorizeGrants, Authorize(c, g)
  PROVE  TypeOK'
BY GrantsAreCodes DEF Authorize, TypeOK

(* handle_authorization_code keeps every table well typed.                 *)
LEMMA ExchangeCodeType ==
  ASSUME TypeOK,
         NEW c \in Codes, NEW id \in ClientIds, NEW uri \in Uris, NEW v \in Verifiers,
         ExchangeCode(c, id, uri, v)
  PROVE  TypeOK'
<1> DEFINE entry == authorization_codes[c]
           verdict == CodeVerdict(entry, id, uri, v)
<1>1. authorization_codes' \in [Codes -> AuthorizationCode \cup {None}]
  BY DEF ExchangeCode, TypeOK
<1>2. reply' \in Replies
  BY DEF ExchangeCode, CodeVerdict
<1>3. CASE verdict # "ok"
  BY <1>1, <1>2, <1>3 DEF ExchangeCode, TypeOK
<1>4. CASE verdict = "ok"
  <2>1. /\ id \in Registered
        /\ entry \in AuthorizationCode
    BY <1>4 DEF CodeVerdict, TypeOK
  <2>2. PICK a \in AccessTokens : IssueAccess(a, id, entry.scope, c)
    BY <1>4 DEF ExchangeCode
  <2>3. PICK r \in RefreshTokens : IssueRefresh(refresh_tokens, r, id, entry.scope, c)
    BY <1>4 DEF ExchangeCode
  <2>4. entry.scope \in SUBSET Scopes
    BY <2>1 DEF AuthorizationCode
  <2>5. /\ access_tokens' \subseteq AccessTokens
        /\ claims' \in [AccessTokens -> AccessClaims \cup {None}]
    BY <2>1, <2>2, <2>4, IssueAccessType DEF Grants
  <2>6. /\ refresh_tokens' \in [RefreshTokens -> RefreshTokenEntry \cup {None}]
        /\ lineage' \in [RefreshTokens -> Grants \cup {None}]
    BY <2>1, <2>3, <2>4, IssueRefreshType DEF Grants, TypeOK
  <2> QED
    BY <1>1, <1>2, <2>5, <2>6 DEF ExchangeCode, TypeOK
<1> QED
  BY <1>3, <1>4

(* handle_client_credentials keeps every table well typed.                 *)
LEMMA ClientCredentialsType ==
  ASSUME TypeOK,
         NEW id \in ClientIds, NEW secret \in Secrets, NEW requested \in SUBSET Scopes,
         ClientCredentials(id, secret, requested)
  PROVE  TypeOK'
<1>1. CASE ~Authenticated(id, secret)
  BY <1>1 DEF ClientCredentials, TypeOK
<1>2. CASE Authenticated(id, secret)
  <2>1. id \in Registered
    BY <1>2 DEF Authenticated
  <2>2. PICK a \in AccessTokens : IssueAccess(a, id, RequestedScope(id, requested), None)
    BY <1>2 DEF ClientCredentials
  <2>3. /\ access_tokens' \subseteq AccessTokens
        /\ claims' \in [AccessTokens -> AccessClaims \cup {None}]
    BY <2>1, <2>2, RequestedScopeIsAllowed, IssueAccessType
  <2> QED
    BY <1>2, <2>3 DEF ClientCredentials, TypeOK
<1> QED
  BY <1>1, <1>2

(* handle_refresh_token keeps every table well typed.                      *)
LEMMA RefreshType ==
  ASSUME TypeOK, NEW r \in RefreshTokens, NEW id \in ClientIds, Refresh(r, id)
  PROVE  TypeOK'
<1> DEFINE entry == refresh_tokens[r]
           burnt == [refresh_tokens EXCEPT ![r] = None]
<1>1. burnt \in [RefreshTokens -> RefreshTokenEntry \cup {None}]
  BY DEF TypeOK
<1>2. CASE ~HeldBy(entry, id)
  BY <1>1, <1>2 DEF Refresh, TypeOK
<1>3. CASE HeldBy(entry, id)
  <2>1. /\ id \in Registered
        /\ entry.scope \in SUBSET Scopes
        /\ lineage[r] \in Grants \cup {None}
    BY <1>3 DEF HeldBy, TypeOK, RefreshTokenEntry
  <2>2. PICK a \in AccessTokens : IssueAccess(a, id, entry.scope, lineage[r])
    BY <1>3 DEF Refresh
  <2>3. PICK n \in RefreshTokens : IssueRefresh(burnt, n, id, entry.scope, lineage[r])
    BY <1>3 DEF Refresh
  <2>4. /\ access_tokens' \subseteq AccessTokens
        /\ claims' \in [AccessTokens -> AccessClaims \cup {None}]
    BY <2>1, <2>2, IssueAccessType
  <2>5. /\ refresh_tokens' \in [RefreshTokens -> RefreshTokenEntry \cup {None}]
        /\ lineage' \in [RefreshTokens -> Grants \cup {None}]
    BY <1>1, <2>1, <2>3, IssueRefreshType
  <2> QED
    BY <1>3, <2>4, <2>5 DEF Refresh, TypeOK
<1> QED
  BY <1>2, <1>3

(* /device_authorization keeps every table well typed.                     *)
LEMMA DeviceAuthorizationType ==
  ASSUME TypeOK,
         NEW d \in DeviceCodes, NEW id \in Registered, NEW requested \in SUBSET Scopes,
         NEW u \in UserCodes, DeviceAuthorization(d, id, requested, u)
  PROVE  TypeOK'
<1> DEFINE entry == [client_id |-> id, scope |-> RequestedScope(id, requested), user_code |-> u,
                     expires_at |-> now + Lifetime, status |-> "Pending", poll_count |-> 0]
<1>1. now + Lifetime \in Nat
  BY TimeAssumption DEF TypeOK
<1>2. entry \in DeviceCodeEntry
  BY <1>1, RequestedScopeIsAllowed DEF DeviceCodeEntry, DeviceCodeStatus, PollCycle
<1>3. device_codes' = [device_codes EXCEPT ![d] = entry]
  BY DEF DeviceAuthorization
<1>4. device_codes' \in [DeviceCodes -> DeviceCodeEntry \cup {None}]
  BY <1>2, <1>3 DEF TypeOK
<1> QED
  BY <1>4 DEF DeviceAuthorization, TypeOK, history

(* A stored entry stays well formed when its status leaves Pending.        *)
LEMMA EntryWithStatus ==
  ASSUME NEW e \in DeviceCodeEntry, NEW status \in DeviceCodeStatus
  PROVE  /\ [e EXCEPT !.status = status, !.poll_count = 0] \in DeviceCodeEntry
         /\ [e EXCEPT !.status = status, !.poll_count = 0].client_id = e.client_id
         /\ [e EXCEPT !.status = status, !.poll_count = 0].scope = e.scope
<1>1. 0 \in 0 .. PollCycle - 1
  BY DEF PollCycle
<1> QED
  BY <1>1 DEF DeviceCodeEntry

(* So it does when a poll counts, or completes it.                         *)
LEMMA EntryPolled ==
  ASSUME NEW e \in DeviceCodeEntry, NEW n \in 0 .. PollCycle - 1
  PROVE  /\ [e EXCEPT !.poll_count = n] \in DeviceCodeEntry
         /\ [e EXCEPT !.poll_count = n].client_id = e.client_id
         /\ [e EXCEPT !.poll_count = n].scope = e.scope
         /\ [e EXCEPT !.status = "Completed"] \in DeviceCodeEntry
         /\ [e EXCEPT !.status = "Completed"].client_id = e.client_id
         /\ [e EXCEPT !.status = "Completed"].scope = e.scope
BY DEF DeviceCodeEntry, DeviceCodeStatus

(* The host's approve and deny keep every table well typed.                *)
LEMMA DecideType ==
  ASSUME TypeOK, NEW d \in DeviceCodes,
         NEW status \in DeviceCodeStatus, NEW verdict \in {"none", "approve", "deny"},
         NEW approvals \in Nat, Decide(d, status, verdict, approvals)
  PROVE  TypeOK'
<1>1. device_codes' \in [DeviceCodes -> DeviceCodeEntry \cup {None}]
  <2>1. device_codes[d] \in DeviceCodeEntry
    BY DEF Decide, TypeOK
  <2> QED
    BY <2>1, EntryWithStatus DEF Decide, TypeOK
<1>2. device_log' \in [DeviceCodes -> DeviceLog]
  BY DEF Decide, TypeOK, DeviceLog
<1> QED
  BY <1>1, <1>2 DEF Decide, TypeOK

(* What a poll finds is a well-formed entry of the same client.            *)
LEMMA PolledType ==
  ASSUME TypeOK, NEW d \in DeviceCodes, device_codes[d] # None
  PROVE  /\ Polled(d) \in DeviceCodeEntry
         /\ Polled(d).client_id = device_codes[d].client_id
         /\ Polled(d).scope = device_codes[d].scope
<1>1. device_codes[d] \in DeviceCodeEntry
  BY DEF TypeOK
<1> QED
  BY <1>1, EntryWithStatus DEF Polled, DeviceCodeStatus

(* handle_device_code keeps every table well typed.                        *)
LEMMA PollDeviceType ==
  ASSUME TypeOK, NEW d \in DeviceCodes, NEW id \in ClientIds, PollDevice(d, id)
  PROVE  TypeOK'
<1>1. CASE PollRefused(d, id)
  BY <1>1 DEF PollRefused, TypeOK, tables, history
<1>2. CASE HeldBy(device_codes[d], id) /\ PollPending(d)
  <2>1. (Polled(d).poll_count + 1) % PollCycle \in 0 .. PollCycle - 1
    BY <1>2, PolledType DEF HeldBy, DeviceCodeEntry, PollCycle
  <2>2. device_codes' \in [DeviceCodes -> DeviceCodeEntry \cup {None}]
    BY <1>2, <2>1, PolledType DEF HeldBy, PollPending, TypeOK, DeviceCodeEntry
  <2> QED
    BY <1>2, <2>2 DEF PollPending, TypeOK, history
<1>3. CASE HeldBy(device_codes[d], id) /\ PollApproved(d)
  <2> DEFINE entry == Polled(d)
  <2>1. /\ entry \in DeviceCodeEntry
        /\ entry.client_id \in Registered
        /\ entry.scope \in SUBSET Scopes
    BY <1>3, PolledType DEF HeldBy, DeviceCodeEntry
  <2>2. PICK a \in AccessTokens : IssueAccess(a, entry.client_id, entry.scope, d)
    BY <1>3 DEF PollApproved
  <2>3. PICK r \in RefreshTokens :
           IssueRefresh(refresh_tokens, r, entry.client_id, entry.scope, d)
    BY <1>3 DEF PollApproved
  <2>4. /\ access_tokens' \subseteq AccessTokens
        /\ claims' \in [AccessTokens -> AccessClaims \cup {None}]
    BY <2>1, <2>2, IssueAccessType DEF Grants
  <2>5. /\ refresh_tokens' \in [RefreshTokens -> RefreshTokenEntry \cup {None}]
        /\ lineage' \in [RefreshTokens -> Grants \cup {None}]
    BY <2>1, <2>3, IssueRefreshType DEF Grants, TypeOK
  <2>6. device_codes' \in [DeviceCodes -> DeviceCodeEntry \cup {None}]
    BY <1>3, <2>1 DEF PollApproved, TypeOK, DeviceCodeEntry, DeviceCodeStatus
  <2>7. device_log' \in [DeviceCodes -> DeviceLog]
    BY <1>3 DEF PollApproved, TypeOK, DeviceLog
  <2> QED
    BY <1>3, <2>4, <2>5, <2>6, <2>7 DEF PollApproved, TypeOK
<1>4. CASE HeldBy(device_codes[d], id) /\ PollAnswered(d)
  <2>1. device_codes' \in [DeviceCodes -> DeviceCodeEntry \cup {None}]
    BY <1>4, PolledType DEF HeldBy, PollAnswered, TypeOK
  <2>2. reply' \in Replies
    BY <1>4 DEF PollAnswered, PollReply
  <2> QED
    BY <1>4, <2>1, <2>2 DEF PollAnswered, TypeOK, history
<1> QED
  BY <1>1, <1>2, <1>3, <1>4 DEF PollDevice

(* No step of the server leaves the types.                                 *)
LEMMA TypeStep == TypeOK /\ [Next]_vars => TypeOK'
<1> SUFFICES ASSUME TypeOK, [Next]_vars
             PROVE  TypeOK'
  OBVIOUS
<1>1. CASE CodeStep
  <2>1. CASE AuthorizeRefused
    <3>1. reply' \in Replies
      BY <2>1 DEF AuthorizeRefused, AuthorizeRefusals, AuthorizeVerdict
    <3> QED
      BY <2>1, <3>1 DEF AuthorizeRefused, TypeOK, tables, history
  <2> QED
    BY <1>1, <2>1, AuthorizeType, ExchangeCodeType DEF CodeStep
<1>2. CASE DeviceStep
  <2>1. CASE DeviceAuthorizationRefused
    BY <2>1 DEF DeviceAuthorizationRefused, TypeOK, tables, history
  <2>2. ASSUME NEW u \in UserCodes, ApproveDeviceCode(u)
        PROVE  TypeOK'
    <3>1. PICK d \in DeviceCodes : Decide(d, "Approved", "approve", device_log[d].approved + 1)
      BY <2>2 DEF ApproveDeviceCode, Holders
    <3>2. device_log[d].approved + 1 \in Nat
      BY DEF TypeOK, DeviceLog
    <3> QED
      BY <3>1, <3>2, DecideType DEF DeviceCodeStatus
  <2>3. ASSUME NEW u \in UserCodes, DenyDeviceCode(u)
        PROVE  TypeOK'
    <3>1. PICK d \in DeviceCodes : Decide(d, "Denied", "deny", device_log[d].approved)
      BY <2>3 DEF DenyDeviceCode, Holders
    <3>2. device_log[d].approved \in Nat
      BY DEF TypeOK, DeviceLog
    <3> QED
      BY <3>1, <3>2, DecideType DEF DeviceCodeStatus
  <2>4. ASSUME NEW u \in UserCodes, DecisionNotFound(u)
        PROVE  TypeOK'
    BY <2>4 DEF DecisionNotFound, TypeOK, tables, history
  <2> QED
    BY <1>2, <2>1, <2>2, <2>3, <2>4, DeviceAuthorizationType, PollDeviceType DEF DeviceStep
<1>3. CASE TokenStep
  <2>1. CASE TokenRefused
    BY <2>1 DEF TokenRefused, TypeOK, tables, history
  <2>2. ASSUME NEW t \in Tokens, Userinfo(t) \/ Introspect(t)
        PROVE  TypeOK'
    BY <2>2 DEF Userinfo, Introspect, TypeOK, tables, history
  <2>3. ASSUME NEW t \in Tokens, Revoke(t)
        PROVE  TypeOK'
    BY <2>3 DEF Revoke, TypeOK, history
  <2> QED
    BY <1>3, <2>1, <2>2, <2>3, ClientCredentialsType, RefreshType DEF TokenStep
<1>4. CASE Tick
  BY <1>4 DEF Tick, TypeOK, tables, history
<1>5. CASE UNCHANGED vars
  BY <1>5 DEF vars, TypeOK, tables, history
<1> QED
  BY <1>1, <1>2, <1>3, <1>4, <1>5 DEF Next

(* Every reachable state is well typed, for every instance of OAuthMock.   *)
THEOREM TypeCorrect == Spec => []TypeOK
<1>1. Init => TypeOK
  BY DEF Init, TypeOK, DeviceLog, NoDecision
<1> QED
  BY <1>1, TypeStep, PTL DEF Spec

(***************************************************************************)
(* Codes and tokens                                                        *)
(***************************************************************************)

(* A grant, once made, keeps its client and its scope.                     *)
GrantsKept ==
  \A g \in Grants : GrantOf(g) # None =>
     /\ GrantOf(g)' # None
     /\ GrantOf(g)'.client_id = GrantOf(g).client_id
     /\ GrantOf(g)'.scope = GrantOf(g).scope

(* GrantInv reads only tables and history: a step that leaves them alone   *)
(* keeps it.                                                               *)
LEMMA UnchangedGrants ==
  ASSUME UNCHANGED <<granted, device_codes>>
  PROVE  GrantsKept
BY DEF GrantsKept, GrantOf

(* What a step must do to keep the access tokens right: sign at most one,  *)
(* with the client and scope of the grant it names.                        *)
LEMMA AccessKept ==
  ASSUME GrantInv, TypeOK', GrantsKept,
         \/ UNCHANGED claims
         \/ \E a \in AccessTokens, id \in Registered, scope \in SUBSET Scopes,
               grant \in Grants \cup {None} :
               /\ IssueAccess(a, id, scope, grant)
               /\ scope \subseteq ClientConfig[id].allowed_scopes
               /\ grant # None => /\ GrantOf(grant) # None
                                  /\ GrantOf(grant).client_id = id
                                  /\ GrantOf(grant).scope = scope
  PROVE  \A a \in AccessTokens : claims'[a] # None =>
            /\ claims'[a].scope \subseteq ClientConfig[claims'[a].client_id].allowed_scopes
            /\ claims'[a].grant # None => Matches(claims[a], claims[a].grant)'
<1> SUFFICES ASSUME NEW a \in AccessTokens, claims'[a] # None
             PROVE  /\ claims'[a].scope \subseteq ClientConfig[claims'[a].client_id].allowed_scopes
                    /\ claims'[a].grant # None => Matches(claims[a], claims[a].grant)'
  OBVIOUS
<1>1. claims'[a] \in AccessClaims
  BY DEF TypeOK
<1>2. CASE claims'[a] = claims[a]
  BY <1>1, <1>2 DEF GrantInv, TokensKeepTheirGrant, ScopesWithinRegistration, Matches,
                    GrantsKept, AccessClaims
<1>3. CASE claims'[a] # claims[a]
  <2>1. PICK id \in Registered, scope \in SUBSET Scopes, grant \in Grants \cup {None} :
           /\ claims'[a] = [client_id |-> id, scope |-> scope, grant |-> grant]
           /\ scope \subseteq ClientConfig[id].allowed_scopes
           /\ grant # None => /\ GrantOf(grant) # None
                              /\ GrantOf(grant).client_id = id
                              /\ GrantOf(grant).scope = scope
    BY <1>3 DEF IssueAccess, GrantInv, TypeOK
  <2> QED
    BY <2>1 DEF Matches, GrantsKept
<1> QED
  BY <1>2, <1>3

(* And to keep the refresh tokens right: store at most one more.           *)
LEMMA RefreshKept ==
  ASSUME GrantInv, TypeOK', GrantsKept,
         NEW table \in [RefreshTokens -> RefreshTokenEntry \cup {None}],
         \A r \in RefreshTokens : table[r] # None => table[r] = refresh_tokens[r],
         \/ refresh_tokens' = table /\ UNCHANGED lineage
         \/ \E r \in RefreshTokens, id \in Registered, scope \in SUBSET Scopes, grant \in Grants :
               /\ IssueRefresh(table, r, id, scope, grant)
               /\ scope \subseteq ClientConfig[id].allowed_scopes
               /\ GrantOf(grant) # None
               /\ GrantOf(grant).client_id = id
               /\ GrantOf(grant).scope = scope
  PROVE  \A r \in RefreshTokens : Live(r)' =>
            /\ refresh_tokens'[r].scope
                  \subseteq ClientConfig[refresh_tokens'[r].client_id].allowed_scopes
            /\ lineage'[r] # None
            /\ Matches(refresh_tokens[r], lineage[r])'
<1> SUFFICES ASSUME NEW r \in RefreshTokens, refresh_tokens'[r] # None
             PROVE  /\ refresh_tokens'[r].scope
                          \subseteq ClientConfig[refresh_tokens'[r].client_id].allowed_scopes
                    /\ lineage'[r] # None
                    /\ Matches(refresh_tokens[r], lineage[r])'
  BY DEF Live
<1>1. CASE refresh_tokens'[r] = refresh_tokens[r] /\ lineage'[r] = lineage[r]
  <2>1. lineage[r] \in Grants /\ Matches(refresh_tokens[r], lineage[r])
    BY <1>1 DEF GrantInv, TokensKeepTheirGrant, TypeOK, Live
  <2> QED
    BY <1>1, <2>1, NoneAssumption DEF GrantInv, ScopesWithinRegistration, Matches, GrantsKept, Live
<1>2. CASE ~(refresh_tokens'[r] = refresh_tokens[r] /\ lineage'[r] = lineage[r])
  <2>1. PICK id \in Registered, scope \in SUBSET Scopes, grant \in Grants :
           /\ refresh_tokens'[r] = [client_id |-> id, scope |-> scope]
           /\ lineage'[r] = grant
           /\ scope \subseteq ClientConfig[id].allowed_scopes
           /\ GrantOf(grant) # None
           /\ GrantOf(grant).client_id = id
           /\ GrantOf(grant).scope = scope
    BY <1>2 DEF IssueRefresh, GrantInv, TypeOK
  <2> QED
    BY <2>1, NoneAssumption DEF Matches, GrantsKept
<1> QED
  BY <1>1, <1>2

(* /authorize keeps GrantInv: the code it stores is new.                   *)
LEMMA AuthorizeInv ==
  ASSUME GrantInv, TypeOK', NEW c \in Codes, NEW g \in AuthorizeGrants, Authorize(c, g)
  PROVE  GrantInv'
<1>1. /\ g # None
      /\ g.scope \subseteq ClientConfig[g.client_id].allowed_scopes
  BY GrantsAreCodes
<1>2. GrantsKept
  BY <1>1 DEF Authorize, GrantsKept, GrantOf, GrantInv, TypeOK, Grants
<1>3. UNCHANGED <<claims, refresh_tokens, lineage>>
  BY DEF Authorize
<1>4. TokensKeepTheirGrant' /\ ScopesWithinRegistration'
  BY <1>2, <1>3, AccessKept, RefreshKept
     DEF TokensKeepTheirGrant, ScopesWithinRegistration, GrantInv, TypeOK
<1>5. GrantsWithinRegistration'
  BY <1>1 DEF Authorize, GrantInv, TypeOK, GrantsWithinRegistration, GrantOf, Grants
<1>6. HistoryAgrees'
  BY <1>1 DEF Authorize, GrantInv, TypeOK, HistoryAgrees
<1>7. TokensOnlyFromSpentCodes'
  BY DEF Authorize, GrantInv, TypeOK, HistoryAgrees, TokensOnlyFromSpentCodes
<1>8. OneRefreshTokenPerCode'
  BY <1>3 DEF GrantInv, OneRefreshTokenPerCode, Live
<1> QED
  BY <1>4, <1>5, <1>6, <1>7, <1>8 DEF GrantInv

(* The exchange keeps GrantInv: the code leaves the table as its first     *)
(* tokens appear.                                                          *)
LEMMA ExchangeCodeInv ==
  ASSUME GrantInv, TypeOK',
         NEW c \in Codes, NEW id \in ClientIds, NEW uri \in Uris, NEW v \in Verifiers,
         ExchangeCode(c, id, uri, v)
  PROVE  GrantInv'
<1> DEFINE entry == authorization_codes[c]
           verdict == CodeVerdict(entry, id, uri, v)
<1>1. /\ UNCHANGED <<granted, device_codes>>
      /\ authorization_codes' = [authorization_codes EXCEPT ![c] = None]
  BY DEF ExchangeCode
<1>2. GrantsKept /\ GrantsWithinRegistration'
  BY <1>1, UnchangedGrants DEF GrantInv, GrantsWithinRegistration, GrantOf
<1>3. CASE verdict # "ok"
  <2>1. UNCHANGED <<refresh_tokens, lineage, claims>>
    BY <1>3 DEF ExchangeCode
  <2>2. TokensKeepTheirGrant' /\ ScopesWithinRegistration'
    BY <1>2, <2>1, AccessKept, RefreshKept
       DEF TokensKeepTheirGrant, ScopesWithinRegistration, GrantInv, TypeOK
  <2>3. HistoryAgrees' /\ TokensOnlyFromSpentCodes' /\ OneRefreshTokenPerCode'
    BY <1>1, <2>1 DEF GrantInv, TypeOK, HistoryAgrees, TokensOnlyFromSpentCodes,
                      OneRefreshTokenPerCode, Live
  <2> QED
    BY <1>2, <2>2, <2>3 DEF GrantInv
<1>4. CASE verdict = "ok"
  <2>1. /\ id \in Registered
        /\ entry # None
        /\ entry \in AuthorizationCode
        /\ entry.client_id = id
    BY <1>4 DEF CodeVerdict, GrantInv, TypeOK
  <2>2. PICK a \in AccessTokens : IssueAccess(a, id, entry.scope, c)
    BY <1>4 DEF ExchangeCode
  <2>3. PICK r \in RefreshTokens : IssueRefresh(refresh_tokens, r, id, entry.scope, c)
    BY <1>4 DEF ExchangeCode
  <2>4. /\ GrantOf(c) = entry
        /\ entry.scope \in SUBSET Scopes
        /\ entry.scope \subseteq ClientConfig[id].allowed_scopes
    BY <2>1 DEF GrantInv, HistoryAgrees, GrantsWithinRegistration, GrantOf, Grants, AuthorizationCode
  <2>5. TokensKeepTheirGrant' /\ ScopesWithinRegistration'
    <3>1. \A t \in AccessTokens : claims'[t] # None =>
            /\ claims'[t].scope \subseteq ClientConfig[claims'[t].client_id].allowed_scopes
            /\ claims'[t].grant # None => Matches(claims[t], claims[t].grant)'
      BY <1>2, <2>1, <2>2, <2>4, AccessKept DEF Grants
    <3>2. \A t \in RefreshTokens : Live(t)' =>
            /\ refresh_tokens'[t].scope
                  \subseteq ClientConfig[refresh_tokens'[t].client_id].allowed_scopes
            /\ lineage'[t] # None
            /\ Matches(refresh_tokens[t], lineage[t])'
      BY <1>2, <2>1, <2>3, <2>4, RefreshKept DEF Grants, GrantInv, TypeOK
    <3> QED
      BY <3>1, <3>2 DEF TokensKeepTheirGrant, ScopesWithinRegistration
  <2>6. HistoryAgrees' /\ TokensOnlyFromSpentCodes'
    BY <1>1, <2>1, <2>2, <2>3
       DEF IssueAccess, IssueRefresh, GrantInv, TypeOK, HistoryAgrees, TokensOnlyFromSpentCodes
  <2>7. OneRefreshTokenPerCode'
    BY <2>1, <2>3
       DEF IssueRefresh, GrantInv, TypeOK, TokensOnlyFromSpentCodes, OneRefreshTokenPerCode, Live
  <2> QED
    BY <1>2, <2>5, <2>6, <2>7 DEF GrantInv
<1> QED
  BY <1>3, <1>4

(* The client_credentials grant keeps GrantInv: its token descends from    *)
(* no grant.                                                               *)
LEMMA ClientCredentialsInv ==
  ASSUME GrantInv, TypeOK',
         NEW id \in ClientIds, NEW secret \in Secrets, NEW requested \in SUBSET Scopes,
         ClientCredentials(id, secret, requested)
  PROVE  GrantInv'
<1>1. UNCHANGED <<authorization_codes, refresh_tokens, device_codes, granted, lineage>>
  BY DEF ClientCredentials
<1>2. GrantsKept /\ GrantsWithinRegistration'
  BY <1>1, UnchangedGrants DEF GrantInv, GrantsWithinRegistration, GrantOf
<1>3. \/ UNCHANGED claims
      \/ /\ id \in Registered
         /\ \E a \in AccessTokens : IssueAccess(a, id, RequestedScope(id, requested), None)
  BY DEF ClientCredentials, Authenticated
<1>4. TokensKeepTheirGrant' /\ ScopesWithinRegistration'
  <2>1. \A t \in AccessTokens : claims'[t] # None =>
          /\ claims'[t].scope \subseteq ClientConfig[claims'[t].client_id].allowed_scopes
          /\ claims'[t].grant # None => Matches(claims[t], claims[t].grant)'
    BY <1>2, <1>3, RequestedScopeIsAllowed, AccessKept
  <2>2. \A t \in RefreshTokens : Live(t)' =>
          /\ refresh_tokens'[t].scope
                \subseteq ClientConfig[refresh_tokens'[t].client_id].allowed_scopes
          /\ lineage'[t] # None
          /\ Matches(refresh_tokens[t], lineage[t])'
    BY <1>1, <1>2, RefreshKept DEF GrantInv, TypeOK
  <2> QED
    BY <2>1, <2>2 DEF TokensKeepTheirGrant, ScopesWithinRegistration
<1>5. HistoryAgrees' /\ TokensOnlyFromSpentCodes'
  <2>1. \A a \in AccessTokens, c \in Codes :
           claims'[a] # None /\ claims'[a].grant = c => claims[a] # None /\ claims[a].grant = c
    BY <1>3, NoneAssumption DEF IssueAccess, GrantInv, TypeOK, Grants
  <2> QED
    BY <1>1, <2>1 DEF GrantInv, HistoryAgrees, TokensOnlyFromSpentCodes
<1>6. OneRefreshTokenPerCode'
  BY <1>1 DEF GrantInv, OneRefreshTokenPerCode, Live
<1> QED
  BY <1>2, <1>4, <1>5, <1>6 DEF GrantInv

(* Rotation keeps GrantInv: the successor replaces the token it descends   *)
(* from.                                                                   *)
LEMMA RefreshInv ==
  ASSUME GrantInv, TypeOK', NEW r \in RefreshTokens, NEW id \in ClientIds, Refresh(r, id)
  PROVE  GrantInv'
<1> DEFINE entry == refresh_tokens[r]
           burnt == [refresh_tokens EXCEPT ![r] = None]
<1>1. UNCHANGED <<authorization_codes, device_codes, granted>>
  BY DEF Refresh
<1>2. GrantsKept /\ GrantsWithinRegistration'
  BY <1>1, UnchangedGrants DEF GrantInv, GrantsWithinRegistration, GrantOf
<1>3. PICK table \in [RefreshTokens -> RefreshTokenEntry \cup {None}] :
         /\ table = burnt
         /\ \A s \in RefreshTokens : table[s] # None => table[s] = refresh_tokens[s]
  <2>1. /\ burnt \in [RefreshTokens -> RefreshTokenEntry \cup {None}]
        /\ \A s \in RefreshTokens : burnt[s] # None => burnt[s] = refresh_tokens[s]
    BY DEF GrantInv, TypeOK
  <2> HIDE DEF burnt
  <2> QED
    BY <2>1
<1>4. CASE ~HeldBy(entry, id)
  <2>1. refresh_tokens' = table /\ UNCHANGED <<lineage, claims>>
    BY <1>3, <1>4 DEF Refresh
  <2>2. TokensKeepTheirGrant' /\ ScopesWithinRegistration'
    BY <1>2, <1>3, <2>1, AccessKept, RefreshKept
       DEF TokensKeepTheirGrant, ScopesWithinRegistration
  <2>3. HistoryAgrees' /\ TokensOnlyFromSpentCodes' /\ OneRefreshTokenPerCode'
    BY <1>1, <1>3, <2>1 DEF GrantInv, TypeOK, HistoryAgrees, TokensOnlyFromSpentCodes,
                      OneRefreshTokenPerCode, Live
  <2> QED
    BY <1>2, <2>2, <2>3 DEF GrantInv
<1>5. CASE HeldBy(entry, id)
  <2>1. /\ entry # None
        /\ entry.client_id = id
        /\ id \in Registered
        /\ entry.scope \in SUBSET Scopes
        /\ entry.scope \subseteq ClientConfig[id].allowed_scopes
    BY <1>5 DEF HeldBy, GrantInv, TypeOK, RefreshTokenEntry, ScopesWithinRegistration, Live
  <2>2. PICK a \in AccessTokens : IssueAccess(a, id, entry.scope, lineage[r])
    BY <1>5 DEF Refresh
  <2>3. PICK n \in RefreshTokens : IssueRefresh(table, n, id, entry.scope, lineage[r])
    BY <1>3, <1>5 DEF Refresh
  <2>4. /\ lineage[r] \in Grants
        /\ GrantOf(lineage[r]) # None
        /\ GrantOf(lineage[r]).client_id = id
        /\ GrantOf(lineage[r]).scope = entry.scope
    BY <2>1 DEF GrantInv, TypeOK, TokensKeepTheirGrant, Matches, Live
  <2>5. TokensKeepTheirGrant' /\ ScopesWithinRegistration'
    <3>1. \A t \in AccessTokens : claims'[t] # None =>
            /\ claims'[t].scope \subseteq ClientConfig[claims'[t].client_id].allowed_scopes
            /\ claims'[t].grant # None => Matches(claims[t], claims[t].grant)'
      BY <1>2, <2>1, <2>2, <2>4, AccessKept
    <3>2. \A t \in RefreshTokens : Live(t)' =>
            /\ refresh_tokens'[t].scope
                  \subseteq ClientConfig[refresh_tokens'[t].client_id].allowed_scopes
            /\ lineage'[t] # None
            /\ Matches(refresh_tokens[t], lineage[t])'
      <4>1. \E m \in RefreshTokens, i \in Registered, scope \in SUBSET Scopes, grant \in Grants :
               /\ IssueRefresh(table, m, i, scope, grant)
               /\ scope \subseteq ClientConfig[i].allowed_scopes
               /\ GrantOf(grant) # None
               /\ GrantOf(grant).client_id = i
               /\ GrantOf(grant).scope = scope
        BY <2>1, <2>3, <2>4
      <4> QED
        BY <1>2, <1>3, <4>1, RefreshKept
    <3> QED
      BY <3>1, <3>2 DEF TokensKeepTheirGrant, ScopesWithinRegistration
  <2>6. HistoryAgrees' /\ TokensOnlyFromSpentCodes'
    BY <1>1, <1>3, <2>2, <2>3
       DEF IssueAccess, IssueRefresh, GrantInv, TypeOK, HistoryAgrees, TokensOnlyFromSpentCodes
  <2>7. OneRefreshTokenPerCode'
    BY <1>3, <2>1, <2>3, NoneAssumption DEF IssueRefresh, GrantInv, TypeOK, OneRefreshTokenPerCode, Live
  <2> QED
    BY <1>2, <2>5, <2>6, <2>7 DEF GrantInv
<1> QED
  BY <1>4, <1>5

(* A step that only touches device entries, and keeps the client and the   *)
(* scope of those that exist, keeps the invariant.                         *)
LEMMA DeviceTableInv ==
  ASSUME GrantInv, TypeOK', GrantsKept, GrantsWithinRegistration',
         UNCHANGED <<authorization_codes, refresh_tokens, granted, lineage, claims>>
  PROVE  GrantInv'
<1>1. TokensKeepTheirGrant' /\ ScopesWithinRegistration'
  BY AccessKept, RefreshKept DEF TokensKeepTheirGrant, ScopesWithinRegistration, GrantInv, TypeOK
<1>2. HistoryAgrees' /\ TokensOnlyFromSpentCodes' /\ OneRefreshTokenPerCode'
  BY DEF GrantInv, HistoryAgrees, TokensOnlyFromSpentCodes, OneRefreshTokenPerCode, Live
<1> QED
  BY <1>1, <1>2 DEF GrantInv

(* Rewriting one existing device entry, client and scope kept.             *)
LEMMA EntryRewritten ==
  ASSUME GrantInv, UNCHANGED granted,
         NEW d \in DeviceCodes, device_codes[d] # None,
         NEW entry \in DeviceCodeEntry,
         device_codes' = [device_codes EXCEPT ![d] = entry],
         entry.client_id = device_codes[d].client_id,
         entry.scope = device_codes[d].scope
  PROVE  GrantsKept /\ GrantsWithinRegistration'
<1>1. entry # None
  BY NoneAssumption
<1>2. GrantsKept
  BY <1>1 DEF GrantsKept, GrantOf, Grants, GrantInv, TypeOK
<1>3. GrantsWithinRegistration'
  BY <1>1, DisjointAssumption DEF GrantsWithinRegistration, GrantOf, Grants, GrantInv, TypeOK
<1> QED
  BY <1>2, <1>3

(* /device_authorization keeps GrantInv: nothing descends from the new     *)
(* device code yet.                                                        *)
LEMMA DeviceAuthorizationInv ==
  ASSUME GrantInv, TypeOK',
         NEW d \in DeviceCodes, NEW id \in Registered, NEW requested \in SUBSET Scopes,
         NEW u \in UserCodes, DeviceAuthorization(d, id, requested, u)
  PROVE  GrantInv'
<1>1. UNCHANGED <<authorization_codes, refresh_tokens, granted, lineage, claims>>
  BY DEF DeviceAuthorization, history
<1>2. PICK entry :
         /\ entry.client_id = id
         /\ entry.scope = RequestedScope(id, requested)
         /\ device_codes' = [device_codes EXCEPT ![d] = entry]
         /\ device_codes[d] = None
  BY DEF DeviceAuthorization
<1>3. GrantsKept
  BY <1>1, <1>2 DEF GrantsKept, GrantOf, Grants, GrantInv, TypeOK
<1>4. GrantsWithinRegistration'
  BY <1>1, <1>2, RequestedScopeIsAllowed, DisjointAssumption
     DEF GrantsWithinRegistration, GrantOf, Grants, GrantInv, TypeOK
<1> QED
  BY <1>1, <1>3, <1>4, DeviceTableInv

(* The host's decision keeps GrantInv: it leaves client and scope of the   *)
(* entry alone.                                                            *)
LEMMA DecideInv ==
  ASSUME GrantInv, TypeOK', NEW d \in DeviceCodes,
         NEW status \in DeviceCodeStatus, NEW verdict, NEW approvals,
         Decide(d, status, verdict, approvals)
  PROVE  GrantInv'
<1>1. UNCHANGED <<authorization_codes, refresh_tokens, granted, lineage, claims>>
  BY DEF Decide
<1>2. device_codes[d] # None /\ device_codes[d] \in DeviceCodeEntry
  BY DEF Decide, GrantInv, TypeOK
<1>3. PICK entry \in DeviceCodeEntry :
         /\ device_codes' = [device_codes EXCEPT ![d] = entry]
         /\ entry.client_id = device_codes[d].client_id
         /\ entry.scope = device_codes[d].scope
  BY <1>2, EntryWithStatus DEF Decide
<1> QED
  BY <1>1, <1>2, <1>3, EntryRewritten, DeviceTableInv

(* A poll keeps GrantInv: its tokens take client and scope from the        *)
(* entry.                                                                  *)
LEMMA PollDeviceInv ==
  ASSUME GrantInv, TypeOK', NEW d \in DeviceCodes, NEW id \in ClientIds, PollDevice(d, id)
  PROVE  GrantInv'
<1> DEFINE entry == Polled(d)
<1>1. CASE PollRefused(d, id)
  <2>1. UNCHANGED <<tables, history>>
    BY <1>1 DEF PollRefused
  <2> QED
    BY <2>1, UnchangedGrants, DeviceTableInv
       DEF tables, history, GrantInv, GrantsWithinRegistration, GrantOf
<1>2. CASE HeldBy(device_codes[d], id) /\ (PollPending(d) \/ PollApproved(d) \/ PollAnswered(d))
  <2>1. /\ device_codes[d] # None
        /\ entry \in DeviceCodeEntry
        /\ entry.client_id = device_codes[d].client_id
        /\ entry.scope = device_codes[d].scope
    BY <1>2, PolledType DEF HeldBy, GrantInv
  <2>2. UNCHANGED <<authorization_codes, granted>>
    BY <1>2 DEF PollPending, PollApproved, PollAnswered, history
  <2>3. PICK e \in DeviceCodeEntry :
           /\ device_codes' = [device_codes EXCEPT ![d] = e]
           /\ e.client_id = entry.client_id
           /\ e.scope = entry.scope
    <3>1. CASE PollPending(d)
      <4>1. (entry.poll_count + 1) % PollCycle \in 0 .. PollCycle - 1
        BY <2>1 DEF DeviceCodeEntry, PollCycle
      <4> QED
        BY <2>1, <3>1, <4>1, EntryPolled DEF PollPending
    <3>2. CASE PollApproved(d)
      <4>1. 0 \in 0 .. PollCycle - 1
        BY DEF PollCycle
      <4> QED
        BY <2>1, <3>2, <4>1, EntryPolled DEF PollApproved
    <3>3. CASE PollAnswered(d)
      BY <2>1, <3>3 DEF PollAnswered
    <3> QED
      BY <1>2, <3>1, <3>2, <3>3
  <2>6. GrantsKept /\ GrantsWithinRegistration'
    BY <2>1, <2>2, <2>3, EntryRewritten
  <2>7. CASE PollPending(d) \/ PollAnswered(d)
    <3>1. UNCHANGED <<refresh_tokens, lineage, claims>>
      BY <2>7 DEF PollPending, PollAnswered, history
    <3> QED
      BY <2>2, <2>6, <3>1, DeviceTableInv
  <2>8. CASE PollApproved(d)
    <3>1. PICK a \in AccessTokens : IssueAccess(a, entry.client_id, entry.scope, d)
      BY <2>8 DEF PollApproved
    <3>2. PICK r \in RefreshTokens :
             IssueRefresh(refresh_tokens, r, entry.client_id, entry.scope, d)
      BY <2>8 DEF PollApproved
    <3>3. /\ d \in Grants
          /\ GrantOf(d) = device_codes[d]
          /\ entry.client_id \in Registered
          /\ entry.scope \in SUBSET Scopes
          /\ entry.scope \subseteq ClientConfig[entry.client_id].allowed_scopes
      BY <2>1, DisjointAssumption
         DEF Grants, GrantOf, DeviceCodeEntry, GrantInv, GrantsWithinRegistration
    <3>4. TokensKeepTheirGrant' /\ ScopesWithinRegistration'
      <4>1. \A t \in AccessTokens : claims'[t] # None =>
              /\ claims'[t].scope \subseteq ClientConfig[claims'[t].client_id].allowed_scopes
              /\ claims'[t].grant # None => Matches(claims[t], claims[t].grant)'
        BY <2>1, <2>6, <3>1, <3>3, AccessKept
      <4>2. \A t \in RefreshTokens : Live(t)' =>
              /\ refresh_tokens'[t].scope
                    \subseteq ClientConfig[refresh_tokens'[t].client_id].allowed_scopes
              /\ lineage'[t] # None
              /\ Matches(refresh_tokens[t], lineage[t])'
        BY <2>1, <2>6, <3>2, <3>3, RefreshKept DEF GrantInv, TypeOK
      <4> QED
        BY <4>1, <4>2 DEF TokensKeepTheirGrant, ScopesWithinRegistration
    <3>5. HistoryAgrees' /\ TokensOnlyFromSpentCodes'
      BY <2>2, <3>1, <3>2, DisjointAssumption
         DEF IssueAccess, IssueRefresh, GrantInv, TypeOK, HistoryAgrees, TokensOnlyFromSpentCodes
    <3>6. OneRefreshTokenPerCode'
      BY <3>2, DisjointAssumption DEF IssueRefresh, GrantInv, TypeOK, OneRefreshTokenPerCode, Live
    <3> QED
      BY <2>6, <3>4, <3>5, <3>6 DEF GrantInv
  <2> QED
    BY <1>2, <2>7, <2>8
<1> QED
  BY <1>1, <1>2 DEF PollDevice

(* /revoke keeps GrantInv: it only removes tokens.                         *)
LEMMA RevokeInv ==
  ASSUME GrantInv, TypeOK', NEW t \in Tokens, Revoke(t)
  PROVE  GrantInv'
<1>1. UNCHANGED <<authorization_codes, device_codes, granted, lineage, claims>>
  BY DEF Revoke, history
<1>2. GrantsKept /\ GrantsWithinRegistration'
  BY <1>1, UnchangedGrants DEF GrantInv, GrantsWithinRegistration, GrantOf
<1>3. /\ refresh_tokens' \in [RefreshTokens -> RefreshTokenEntry \cup {None}]
      /\ \A r \in RefreshTokens : refresh_tokens'[r] # None => refresh_tokens'[r] = refresh_tokens[r]
  BY DEF Revoke, TypeOK
<1>4. TokensKeepTheirGrant' /\ ScopesWithinRegistration'
  BY <1>1, <1>2, <1>3, AccessKept, RefreshKept DEF TokensKeepTheirGrant, ScopesWithinRegistration
<1>5. HistoryAgrees' /\ TokensOnlyFromSpentCodes' /\ OneRefreshTokenPerCode'
  BY <1>1, <1>3 DEF GrantInv, HistoryAgrees, TokensOnlyFromSpentCodes, OneRefreshTokenPerCode, Live
<1> QED
  BY <1>2, <1>4, <1>5 DEF GrantInv

(* GrantInv is inductive over every step of the server.                    *)
LEMMA GrantStep == GrantInv /\ [Next]_vars => GrantInv'
<1> SUFFICES ASSUME GrantInv, [Next]_vars
             PROVE  GrantInv'
  OBVIOUS
<1>1. TypeOK'
  BY TypeStep DEF GrantInv
<1>2. ASSUME UNCHANGED <<tables, history>>
      PROVE  GrantInv'
  BY <1>1, <1>2, UnchangedGrants, DeviceTableInv
     DEF tables, history, GrantInv, GrantsWithinRegistration, GrantOf
<1>3. CASE CodeStep
  BY <1>1, <1>2, <1>3, AuthorizeInv, ExchangeCodeInv DEF CodeStep, AuthorizeRefused
<1>4. CASE DeviceStep
  <2>1. ASSUME NEW u \in UserCodes, ApproveDeviceCode(u) \/ DenyDeviceCode(u)
        PROVE  GrantInv'
    BY <1>1, <2>1, DecideInv DEF ApproveDeviceCode, DenyDeviceCode, Holders, DeviceCodeStatus
  <2> QED
    BY <1>1, <1>2, <1>4, <2>1, DeviceAuthorizationInv, PollDeviceInv
       DEF DeviceStep, DeviceAuthorizationRefused, DecisionNotFound
<1>5. CASE TokenStep
  BY <1>1, <1>2, <1>5, ClientCredentialsInv, RefreshInv, RevokeInv
     DEF TokenStep, TokenRefused, Userinfo, Introspect
<1>6. CASE Tick
  BY <1>2, <1>6 DEF Tick
<1>7. CASE UNCHANGED vars
  BY <1>2, <1>7 DEF vars
<1> QED
  BY <1>3, <1>4, <1>5, <1>6, <1>7 DEF Next

(* GrantInv holds of the empty tables the server starts with.              *)
LEMMA GrantInit == Init => GrantInv
<1> SUFFICES ASSUME Init
             PROVE  GrantInv
  OBVIOUS
<1>1. TypeOK
  BY DEF Init, TypeOK, DeviceLog, NoDecision
<1>2. /\ \A g \in Grants : GrantOf(g) = None
      /\ \A r \in RefreshTokens : refresh_tokens[r] = None /\ lineage[r] = None
      /\ \A a \in AccessTokens : claims[a] = None
      /\ \A c \in Codes : authorization_codes[c] = None
  BY DEF Init, Grants, GrantOf
<1> QED
  BY <1>1, <1>2, NoneAssumption
     DEF GrantInv, HistoryAgrees, GrantsWithinRegistration, TokensKeepTheirGrant,
         ScopesWithinRegistration, TokensOnlyFromSpentCodes, OneRefreshTokenPerCode, Live, Grants

(* GrantInv holds in every reachable state.                                *)
THEOREM GrantInvariant == Spec => []GrantInv
BY GrantInit, GrantStep, PTL DEF Spec

(* Exchanges and rotations never change a token's client or scope: it is   *)
(* the one granted by /authorize or /device_authorization.                 *)
THEOREM TokensKeepTheirGrantAlways == Spec => []TokensKeepTheirGrant
<1>1. GrantInv => TokensKeepTheirGrant
  BY DEF GrantInv
<1> QED
  BY <1>1, GrantInvariant, PTL

(* No token carries a scope its client is not registered for.              *)
THEOREM ScopesStayWithinRegistration == Spec => []ScopesWithinRegistration
<1>1. GrantInv => ScopesWithinRegistration
  BY DEF GrantInv
<1> QED
  BY <1>1, GrantInvariant, PTL

(* No token descends from an authorization code that can still be          *)
(* exchanged: a code is good for one exchange.                             *)
THEOREM CodesAreSingleUse == Spec => []TokensOnlyFromSpentCodes
<1>1. GrantInv => TokensOnlyFromSpentCodes
  BY DEF GrantInv
<1> QED
  BY <1>1, GrantInvariant, PTL

(* At most one refresh token of an authorization code's line is alive.     *)
THEOREM RefreshLinesDoNotFork == Spec => []OneRefreshTokenPerCode
<1>1. GrantInv => OneRefreshTokenPerCode
  BY DEF GrantInv
<1> QED
  BY <1>1, GrantInvariant, PTL

(***************************************************************************)
(* Device codes                                                            *)
(***************************************************************************)

(* The one step that redeems a device code.                                *)
LEMMA RedeemedByPoll ==
  ASSUME TypeOK, [Next]_vars, NEW d \in DeviceCodes, Redeemed(d)
  PROVE  PollApproved(d) /\ device_codes[d] # None
<1>1. CASE UNCHANGED device_log
  BY <1>1 DEF Redeemed
<1>2. ASSUME NEW e \in DeviceCodes, NEW s, NEW verdict, NEW n, Decide(e, s, verdict, n)
      PROVE  FALSE
  BY <1>2 DEF Decide, Redeemed, TypeOK, DeviceLog
<1>3. ASSUME NEW e \in DeviceCodes, NEW id \in ClientIds, PollDevice(e, id)
      PROVE  PollApproved(d) /\ device_codes[d] # None
  BY <1>3 DEF PollDevice, HeldBy, PollRefused, PollPending, PollAnswered, PollApproved,
              Redeemed, TypeOK, history
<1>4. CASE CodeStep
  BY <1>1, <1>4 DEF CodeStep, AuthorizeRefused, Authorize, ExchangeCode, history
<1>5. CASE DeviceStep
  BY <1>1, <1>2, <1>3, <1>5
     DEF DeviceStep, DeviceAuthorization, DeviceAuthorizationRefused, ApproveDeviceCode,
         DenyDeviceCode, DecisionNotFound, Holders, history
<1>6. CASE TokenStep
  BY <1>1, <1>6
     DEF TokenStep, TokenRefused, ClientCredentials, Refresh, Userinfo, Introspect, Revoke, history
<1>7. CASE Tick \/ UNCHANGED vars
  BY <1>1, <1>7 DEF Tick, vars, history
<1> QED
  BY <1>4, <1>5, <1>6, <1>7 DEF Next

(* Per device code: what a step does to its entry and its log.             *)
LEMMA DeviceStepCases ==
  ASSUME TypeOK, [Next]_vars, NEW d \in DeviceCodes
  PROVE  \/ UNCHANGED <<device_codes[d], device_log[d]>>
         \/ /\ device_codes'[d].status # "Approved"
            /\ UNCHANGED device_log[d]
         \/ /\ device_log'[d].approved = device_log[d].approved + 1
            /\ device_log'[d].redeemed = device_log[d].redeemed
            /\ device_log'[d].verdict = "approve"
         \/ /\ device_codes'[d].status # "Approved"
            /\ device_log'[d].approved = device_log[d].approved
            /\ device_log'[d].redeemed = device_log[d].redeemed
         \/ /\ PollApproved(d)
            /\ device_codes[d] # None
<1>1. CASE UNCHANGED <<device_codes, device_log>>
  BY <1>1
<1>2. CASE CodeStep
  BY <1>1, <1>2 DEF CodeStep, AuthorizeRefused, Authorize, ExchangeCode, tables, history
<1>3. CASE TokenStep
  BY <1>1, <1>3
     DEF TokenStep, TokenRefused, ClientCredentials, Refresh, Userinfo, Introspect, Revoke,
         tables, history
<1>4. CASE Tick \/ UNCHANGED vars
  BY <1>1, <1>4 DEF Tick, vars, tables, history
<1>5. CASE DeviceStep
  <2>1. ASSUME NEW e \in DeviceCodes, NEW id \in Registered, NEW requested \in SUBSET Scopes,
               NEW u \in UserCodes, DeviceAuthorization(e, id, requested, u)
        PROVE  \/ UNCHANGED <<device_codes[d], device_log[d]>>
               \/ device_codes'[d].status # "Approved" /\ UNCHANGED device_log[d]
    BY <2>1 DEF DeviceAuthorization, TypeOK, history
  <2>2. ASSUME NEW u \in UserCodes, ApproveDeviceCode(u)
        PROVE  \/ UNCHANGED <<device_codes[d], device_log[d]>>
               \/ /\ device_log'[d].approved = device_log[d].approved + 1
                  /\ device_log'[d].redeemed = device_log[d].redeemed
                  /\ device_log'[d].verdict = "approve"
    BY <2>2 DEF ApproveDeviceCode, Holders, Decide, TypeOK, DeviceLog
  <2>3. ASSUME NEW u \in UserCodes, DenyDeviceCode(u)
        PROVE  \/ UNCHANGED <<device_codes[d], device_log[d]>>
               \/ /\ device_codes'[d].status # "Approved"
                  /\ device_log'[d].approved = device_log[d].approved
                  /\ device_log'[d].redeemed = device_log[d].redeemed
    BY <2>3 DEF DenyDeviceCode, Holders, Decide, TypeOK, DeviceLog, DeviceCodeEntry
  <2>4. CASE DeviceAuthorizationRefused \/ \E u \in UserCodes : DecisionNotFound(u)
    BY <1>1, <2>4 DEF DeviceAuthorizationRefused, DecisionNotFound, tables, history
  <2>5. ASSUME NEW e \in DeviceCodes, NEW id \in ClientIds, PollDevice(e, id)
        PROVE  \/ UNCHANGED <<device_codes[d], device_log[d]>>
               \/ device_codes'[d].status # "Approved" /\ UNCHANGED device_log[d]
               \/ PollApproved(d) /\ device_codes[d] # None
    <3>1. CASE PollRefused(e, id)
      BY <3>1 DEF PollRefused, tables, history
    <3>2. CASE HeldBy(device_codes[e], id) /\ e = d
                 /\ (PollPending(e) \/ PollAnswered(e) \/ PollApproved(e))
      <4>1. device_codes[d] # None /\ Polled(d) \in DeviceCodeEntry
        BY <3>2, PolledType DEF HeldBy
      <4> QED
        BY <3>2, <4>1
           DEF PollPending, PollAnswered, PollReply, TypeOK, DeviceCodeEntry, history
    <3>3. CASE e # d /\ (PollPending(e) \/ PollAnswered(e) \/ PollApproved(e))
      BY <3>3 DEF PollPending, PollAnswered, PollApproved, TypeOK, history
    <3> QED
      BY <2>5, <3>1, <3>2, <3>3 DEF PollDevice
  <2> QED
    BY <1>5, <2>1, <2>2, <2>3, <2>4, <2>5 DEF DeviceStep
<1> QED
  BY <1>2, <1>3, <1>4, <1>5 DEF Next

(* DeviceInv is inductive over every step of the server.                   *)
LEMMA DeviceInvStep == DeviceInv /\ [Next]_vars => DeviceInv'
<1> SUFFICES ASSUME DeviceInv, [Next]_vars, NEW d \in DeviceCodes
             PROVE  /\ TypeOK'
                    /\ device_log'[d].redeemed <= device_log'[d].approved
                    /\ device_codes'[d] # None /\ device_codes'[d].status = "Approved" =>
                         /\ device_log'[d].redeemed < device_log'[d].approved
                         /\ device_log'[d].verdict = "approve"
  BY TypeStep DEF DeviceInv, RedemptionsWithinApprovals
<1>1. TypeOK /\ TypeOK'
  BY TypeStep DEF DeviceInv
<1>2. /\ device_log[d].redeemed \in Nat /\ device_log[d].approved \in Nat
      /\ device_log[d].redeemed <= device_log[d].approved
  BY <1>1 DEF TypeOK, DeviceLog, DeviceInv, RedemptionsWithinApprovals
<1>3. CASE PollApproved(d) /\ device_codes[d] # None
  <2>1. Polled(d) \in DeviceCodeEntry /\ device_codes[d].status = "Approved"
    BY <1>1, <1>3, PolledType DEF PollApproved, Polled, TypeOK, DeviceCodeEntry
  <2>2. device_codes'[d].status = "Completed"
    BY <1>1, <1>3, <2>1 DEF PollApproved, TypeOK, DeviceCodeEntry
  <2>3. device_log'[d].redeemed = device_log[d].redeemed + 1
          /\ device_log'[d].approved = device_log[d].approved
    BY <1>1, <1>3 DEF PollApproved, TypeOK, DeviceLog
  <2>4. device_log[d].redeemed < device_log[d].approved
    BY <1>3, <2>1 DEF DeviceInv, RedemptionsWithinApprovals
  <2> QED
    BY <1>1, <1>2, <2>2, <2>3, <2>4
<1> QED
  BY <1>1, <1>2, <1>3, DeviceStepCases DEF DeviceInv, RedemptionsWithinApprovals

(* DeviceInv holds in every reachable state.                               *)
THEOREM DeviceInvariant == Spec => []DeviceInv
<1>1. Init => DeviceInv
  BY DEF Init, DeviceInv, RedemptionsWithinApprovals, TypeOK, DeviceLog, NoDecision
<1> QED
  BY <1>1, DeviceInvStep, PTL DEF Spec

(* A device gets tokens at most once per approval by the host.             *)
THEOREM RedemptionsStayWithinApprovals == Spec => []RedemptionsWithinApprovals
<1>1. DeviceInv => RedemptionsWithinApprovals
  BY DEF DeviceInv
<1> QED
  BY <1>1, DeviceInvariant, PTL

(* After its lifetime a device code yields no tokens, however late or      *)
(* early the host approved it.                                             *)
THEOREM ExpiredCodesYieldNothing == Spec => NoLateRedemption
<1>1. TypeOK /\ [Next]_vars =>
        [\A d \in DeviceCodes : Redeemed(d) => now <= device_codes[d].expires_at]_vars
  <2> SUFFICES ASSUME TypeOK, [Next]_vars, NEW d \in DeviceCodes, Redeemed(d)
               PROVE  now <= device_codes[d].expires_at
    OBVIOUS
  <2>1. PollApproved(d) /\ device_codes[d] # None
    BY RedeemedByPoll
  <2>2. device_codes[d] \in DeviceCodeEntry /\ now \in Nat
    BY <2>1 DEF TypeOK
  <2>3. Polled(d).status = "Approved"
    BY <2>1 DEF PollApproved
  <2>4. CASE now > device_codes[d].expires_at
    BY <2>2, <2>3, <2>4 DEF Polled, DeviceCodeEntry
  <2> QED
    BY <2>2, <2>4 DEF DeviceCodeEntry
<1> QED
  BY <1>1, TypeCorrect, PTL DEF Spec, NoLateRedemption

(* A device code whose latest decision is a denial is not redeemed.        *)
THEOREM TheLastDecisionWins == Spec => LastDecisionWins
<1>1. DeviceInv /\ [Next]_vars =>
        [\A d \in DeviceCodes : Redeemed(d) => device_log[d].verdict = "approve"]_vars
  <2> SUFFICES ASSUME DeviceInv, [Next]_vars, NEW d \in DeviceCodes, Redeemed(d)
               PROVE  device_log[d].verdict = "approve"
    OBVIOUS
  <2>1. PollApproved(d) /\ device_codes[d] # None
    BY RedeemedByPoll DEF DeviceInv
  <2>2. device_codes[d] \in DeviceCodeEntry
    BY <2>1 DEF DeviceInv, TypeOK
  <2>3. device_codes[d].status = "Approved"
    BY <2>1, <2>2 DEF PollApproved, Polled, DeviceCodeEntry
  <2> QED
    BY <2>1, <2>3 DEF DeviceInv
<1> QED
  BY <1>1, DeviceInvariant, PTL DEF Spec, LastDecisionWins

(* A poll of a stored device code keeps its entry, and neither reopens nor *)
(* approves it.                                                            *)
LEMMA PollKeeps ==
  ASSUME TypeOK, NEW d \in DeviceCodes, NEW e \in DeviceCodes, NEW id \in ClientIds,
         PollDevice(e, id), device_codes[d] # None
  PROVE  /\ device_codes'[d] # None
         /\ device_codes'[d].status = "Pending" => device_codes[d].status = "Pending"
         /\ device_codes'[d].status = "Approved" => device_codes[d].status = "Approved"
<1>1. CASE PollRefused(e, id)
  BY <1>1 DEF PollRefused, tables
<1>2. CASE e # d /\ (PollPending(e) \/ PollAnswered(e) \/ PollApproved(e))
  BY <1>2 DEF PollPending, PollAnswered, PollApproved, TypeOK
<1>3. CASE e = d /\ (PollPending(d) \/ PollAnswered(d) \/ PollApproved(d))
  <2>1. Polled(d) \in DeviceCodeEntry /\ device_codes[d] \in DeviceCodeEntry
    BY PolledType DEF TypeOK
  <2>2. Polled(d).status \in {device_codes[d].status, "Expired"}
    BY <2>1 DEF Polled, DeviceCodeEntry
  <2>3. CASE PollPending(d)
    <3> DEFINE count == (Polled(d).poll_count + 1) % PollCycle
    <3>1. device_codes'[d] = [Polled(d) EXCEPT !.poll_count = count]
      BY <2>3 DEF PollPending, TypeOK
    <3>2. count \in 0 .. PollCycle - 1
      BY <2>1 DEF DeviceCodeEntry, PollCycle
    <3>3. device_codes'[d] \in DeviceCodeEntry /\ device_codes'[d].status = Polled(d).status
      BY <2>1, <3>1, <3>2 DEF DeviceCodeEntry
    <3> QED
      BY <2>2, <2>3, <3>3, NoneAssumption DEF PollPending
  <2>4. CASE PollAnswered(d)
    BY <2>1, <2>2, <2>4, NoneAssumption DEF PollAnswered, TypeOK
  <2>5. CASE PollApproved(d)
    <3>1. device_codes'[d] = [Polled(d) EXCEPT !.status = "Completed"]
      BY <2>5 DEF PollApproved, TypeOK
    <3>2. device_codes'[d] \in DeviceCodeEntry /\ device_codes'[d].status = "Completed"
      BY <2>1, <3>1 DEF DeviceCodeEntry, DeviceCodeStatus
    <3> QED
      BY <3>2, NoneAssumption
  <2> QED
    BY <1>3, <2>3, <2>4, <2>5
<1> QED
  BY <1>1, <1>2, <1>3 DEF PollDevice

(* Polls neither lose nor reopen a device code, and only the host approves *)
(* one.                                                                    *)
THEOREM PollsKeepTheCode == Spec => PollsKeepDeviceCode
<1>1. TypeOK /\ [Next]_vars =>
        [\A d \in DeviceCodes : device_codes[d] # None =>
           /\ device_codes'[d] # None
           /\ device_codes'[d].status = "Pending" => device_codes[d].status = "Pending"
           /\ device_codes'[d].status = "Approved" /\ device_codes[d].status # "Approved"
                => device_log'[d].approved > device_log[d].approved]_vars
  <2> SUFFICES ASSUME TypeOK, [Next]_vars, NEW d \in DeviceCodes, device_codes[d] # None
               PROVE  /\ device_codes'[d] # None
                      /\ device_codes'[d].status = "Pending" => device_codes[d].status = "Pending"
                      /\ device_codes'[d].status = "Approved"
                           /\ device_codes[d].status # "Approved"
                           => device_log'[d].approved > device_log[d].approved
    OBVIOUS
  <2>1. device_codes[d] \in DeviceCodeEntry
    BY DEF TypeOK
  <2>2. CASE UNCHANGED device_codes
    BY <2>2
  <2>3. ASSUME NEW e \in DeviceCodes, NEW status \in {"Approved", "Denied"}, NEW verdict, NEW n,
               Decide(e, status, verdict, n),
               status = "Approved" => n = device_log[e].approved + 1
        PROVE  /\ device_codes'[d] # None
               /\ device_codes'[d].status = "Pending" => device_codes[d].status = "Pending"
               /\ device_codes'[d].status = "Approved" /\ device_codes[d].status # "Approved"
                    => device_log'[d].approved > device_log[d].approved
    <3>1. CASE e # d
      BY <2>3, <3>1 DEF Decide, TypeOK
    <3>2. CASE e = d
      <4>1. device_codes'[d] = [device_codes[d] EXCEPT !.status = status, !.poll_count = 0]
        BY <2>3, <3>2 DEF Decide, TypeOK
      <4>2. device_codes'[d] \in DeviceCodeEntry
        <5>1. status \in DeviceCodeStatus
          BY <2>3 DEF DeviceCodeStatus
        <5>2. [device_codes[d] EXCEPT !.status = status, !.poll_count = 0] \in DeviceCodeEntry
          BY <2>1, <5>1, EntryWithStatus
        <5> QED
          BY <4>1, <5>2
      <4>3. device_codes'[d].status = status
        BY <2>1, <4>1 DEF DeviceCodeEntry
      <4>4. device_log'[d].approved = n /\ device_log[d].approved \in Nat
        BY <2>3, <3>2 DEF Decide, TypeOK, DeviceLog
      <4> QED
        BY <2>3, <3>2, <4>2, <4>3, <4>4, NoneAssumption
    <3> QED
      BY <3>1, <3>2
  <2>4. CASE CodeStep
    BY <2>2, <2>4 DEF CodeStep, AuthorizeRefused, Authorize, ExchangeCode, tables
  <2>5. CASE TokenStep
    BY <2>2, <2>5
       DEF TokenStep, TokenRefused, ClientCredentials, Refresh, Userinfo, Introspect, Revoke, tables
  <2>6. CASE Tick \/ UNCHANGED vars
    BY <2>2, <2>6 DEF Tick, vars, tables
  <2>7. CASE DeviceStep
    <3>1. ASSUME NEW e \in DeviceCodes, NEW id \in Registered, NEW requested \in SUBSET Scopes,
                 NEW u \in UserCodes, DeviceAuthorization(e, id, requested, u)
          PROVE  UNCHANGED device_codes[d]
      BY <3>1 DEF DeviceAuthorization, TypeOK
    <3>2. CASE \E u \in UserCodes : ApproveDeviceCode(u)
      BY <2>3, <3>2 DEF ApproveDeviceCode, Holders
    <3>3. CASE \E u \in UserCodes : DenyDeviceCode(u)
      BY <2>3, <3>3 DEF DenyDeviceCode, Holders
    <3>4. CASE DeviceAuthorizationRefused \/ \E u \in UserCodes : DecisionNotFound(u)
      BY <2>2, <3>4 DEF DeviceAuthorizationRefused, DecisionNotFound, tables
    <3> QED
      BY <2>7, <3>1, <3>2, <3>3, <3>4, PollKeeps DEF DeviceStep
  <2> QED
    BY <2>4, <2>5, <2>6, <2>7 DEF Next
<1> QED
  BY <1>1, TypeCorrect, PTL DEF Spec, PollsKeepDeviceCode

(***************************************************************************)
(* Refusals                                                                *)
(***************************************************************************)

(* A request answered with an error leaves no new usable token behind.     *)
THEOREM RefusalsIssueNothing == Spec => RefusalIssuesNothing
<1>1. TypeOK /\ [Next]_vars =>
        [reply' # "ok" =>
           /\ access_tokens' \subseteq access_tokens
           /\ \A r \in RefreshTokens : ~Live(r) => ~Live(r)']_vars
  <2> SUFFICES ASSUME TypeOK, [Next]_vars, reply' # "ok"
               PROVE  /\ access_tokens' \subseteq access_tokens
                      /\ \A r \in RefreshTokens : refresh_tokens[r] = None =>
                                                  refresh_tokens'[r] = None
    BY DEF Live
  <2>1. CASE UNCHANGED <<access_tokens, refresh_tokens>>
    BY <2>1
  <2>2. ASSUME NEW s \in RefreshTokens, NEW id \in ClientIds, Refresh(s, id)
        PROVE  /\ access_tokens' = access_tokens
               /\ \A r \in RefreshTokens : refresh_tokens[r] = None => refresh_tokens'[r] = None
    BY <2>2 DEF Refresh, TypeOK
  <2>3. CASE CodeStep
    BY <2>1, <2>3 DEF CodeStep, AuthorizeRefused, Authorize, ExchangeCode, tables
  <2>4. CASE DeviceStep
    BY <2>1, <2>4
       DEF DeviceStep, DeviceAuthorization, DeviceAuthorizationRefused, ApproveDeviceCode,
           DenyDeviceCode, DecisionNotFound, Decide, PollDevice, PollRefused, PollPending,
           PollApproved, PollAnswered, tables
  <2>5. CASE TokenStep
    BY <2>1, <2>2, <2>5
       DEF TokenStep, TokenRefused, ClientCredentials, Userinfo, Introspect, Revoke, tables
  <2>6. CASE Tick \/ UNCHANGED vars
    BY <2>1, <2>6 DEF Tick, vars, tables
  <2> QED
    BY <2>3, <2>4, <2>5, <2>6 DEF Next
<1> QED
  BY <1>1, TypeCorrect, PTL DEF Spec, RefusalIssuesNothing

=============================================================================
