--------------------------- MODULE CodeGrantProofs ---------------------------
(***************************************************************************)
(* The mock provider implements CodeGrant: every handler moves at most one *)
(* authorization code one step along its life.                             *)
(***************************************************************************)
EXTENDS OAuthMockProofs

USE DEF Remove

LineLive(c) == \E r \in RefreshTokens : Live(r) /\ lineage[r] = c

(***************************************************************************)
(* From the tables to the abstract variables                               *)
(***************************************************************************)

LEMMA PhaseCases ==
  ASSUME NEW c \in Codes
  PROVE  Phase(c) = IF granted[c] = None THEN "unborn"
                    ELSE IF authorization_codes[c] # None THEN "offered"
                    ELSE IF LineLive(c) THEN "active" ELSE "closed"
BY DEF Phase, LineLive

(* A step that keeps every phase and every set of minted tokens stutters.  *)
LEMMA Stutter ==
  ASSUME \A c \in Codes : Phase(c)' = Phase(c) /\ Minted(c)' = Minted(c)
  PROVE  UNCHANGED Lifecycle!vars
BY DEF Lifecycle!vars

(* A step that changes the phase of one code only is an abstract move.     *)
LEMMA MoveOne ==
  ASSUME NEW c \in Codes, NEW from, NEW to,
         Phase(c) \in from,
         Phase(c)' = to,
         \A b \in Codes : b # c => Phase(b)' = Phase(b)
  PROVE  Lifecycle!Move(c, from, to)
BY DEF Lifecycle!Move

(* A step that signs no token for a code leaves its minted set alone.      *)
LEMMA MintedKept ==
  ASSUME \A b \in Codes : Minted(b)' = Minted(b)
  PROVE  UNCHANGED [c \in Codes |-> Minted(c)]
OBVIOUS

(* An access token signed for code c joins the tokens minted for c.        *)
LEMMA MintOne ==
  ASSUME TypeOK, NEW c \in Codes, NEW a \in AccessTokens,
         NEW id \in Registered, NEW scope \in SUBSET Scopes,
         IssueAccess(a, id, scope, c)
  PROVE  Lifecycle!Mint(c, a)
<1> DEFINE signed == [client_id |-> id, scope |-> scope, grant |-> c]
<1>1. claims' = [claims EXCEPT ![a] = signed] /\ claims[a] = None
  BY DEF IssueAccess
<1>2. signed # None /\ signed.grant = c
  BY NoneAssumption DEF AccessClaims, Grants
<1> HIDE DEF signed
<1>3. \A b \in Codes : a \notin Minted(b)
  BY <1>1 DEF Minted
<1>4. \A b \in Codes : Minted(b)' = IF b = c THEN Minted(b) \cup {a} ELSE Minted(b)
  BY <1>1, <1>2 DEF Minted, TypeOK
<1> QED
  BY <1>3, <1>4 DEF Lifecycle!Mint

(* Signing one for a device code, or for no grant, adds to no code.        *)
LEMMA MintOther ==
  ASSUME TypeOK, NEW a \in AccessTokens, NEW id, NEW scope, NEW g, g \notin Codes,
         IssueAccess(a, id, scope, g)
  PROVE  \A b \in Codes : Minted(b)' = Minted(b)
BY DEF IssueAccess, TypeOK, Minted

(***************************************************************************)
(* The handlers                                                            *)
(***************************************************************************)

LEMMA AuthorizeOffers ==
  ASSUME GrantInv, NEW c \in Codes, NEW g \in AuthorizeGrants, Authorize(c, g)
  PROVE  Lifecycle!Offer(c)
<1>1. g # None
  BY GrantsAreCodes
<1>2. Phase(c) = "unborn" /\ Phase(c)' = "offered"
  BY <1>1 DEF Authorize, Phase, GrantInv, TypeOK
<1>3. \A b \in Codes : b # c => Phase(b)' = Phase(b)
  BY DEF Authorize, Phase, GrantInv, TypeOK, Live
<1>4. \A b \in Codes : Minted(b)' = Minted(b)
  BY DEF Authorize, Minted
<1> QED
  BY <1>2, <1>3, <1>4, MoveOne, MintedKept DEF Lifecycle!Offer

(* The exchange spends an offered code (active) or burns it (closed).      *)
LEMMA ExchangeMoves ==
  ASSUME GrantInv,
         NEW c \in Codes, NEW id \in ClientIds, NEW uri \in Uris, NEW v \in Verifiers,
         ExchangeCode(c, id, uri, v)
  PROVE  [Lifecycle!Next]_Lifecycle!vars
<1> DEFINE entry == authorization_codes[c]
           verdict == CodeVerdict(entry, id, uri, v)
<1>1. /\ UNCHANGED granted
      /\ authorization_codes' = [authorization_codes EXCEPT ![c] = None]
  BY DEF ExchangeCode
<1>2. CASE entry = None
  <2>1. UNCHANGED <<authorization_codes, refresh_tokens, lineage, claims>>
    BY <1>1, <1>2 DEF ExchangeCode, CodeVerdict, GrantInv, TypeOK
  <2> QED
    BY <1>1, <2>1, Stutter DEF Phase, Minted, Live
<1>3. CASE entry # None
  <2>1. /\ granted[c] # None
        /\ \A r \in RefreshTokens : lineage[r] # c
        /\ Phase(c) = "offered"
    BY <1>3 DEF GrantInv, HistoryAgrees, TokensOnlyFromSpentCodes, Phase
  <2>2. CASE verdict # "ok"
    <3>1. UNCHANGED <<refresh_tokens, lineage, claims>>
      BY <2>2 DEF ExchangeCode
    <3>2. Phase(c)' = "closed"
      BY <1>1, <2>1, <3>1 DEF Phase, GrantInv, TypeOK
    <3>3. \A b \in Codes : b # c => Phase(b)' = Phase(b)
      BY <1>1, <3>1 DEF Phase, GrantInv, TypeOK, Live
    <3>4. \A b \in Codes : Minted(b)' = Minted(b)
      BY <3>1 DEF Minted
    <3>5. Lifecycle!Close(c)
      BY <2>1, <3>2, <3>3, <3>4, MoveOne, MintedKept DEF Lifecycle!Close
    <3> QED
      BY <3>5 DEF Lifecycle!Next
  <2>3. CASE verdict = "ok"
    <3>1. id \in Registered /\ entry.scope \in SUBSET Scopes
      BY <1>3, <2>3 DEF CodeVerdict, GrantInv, TypeOK, AuthorizationCode
    <3>2. PICK a \in AccessTokens : IssueAccess(a, id, entry.scope, c)
      BY <2>3 DEF ExchangeCode
    <3>3. PICK r \in RefreshTokens : IssueRefresh(refresh_tokens, r, id, entry.scope, c)
      BY <2>3 DEF ExchangeCode
    <3>4. PICK stored \in RefreshTokenEntry :
             /\ stored # None
             /\ refresh_tokens' = [refresh_tokens EXCEPT ![r] = stored]
             /\ lineage' = [lineage EXCEPT ![r] = c]
             /\ lineage[r] = None
      <4>1. [client_id |-> id, scope |-> entry.scope] \in RefreshTokenEntry
        BY <3>1 DEF RefreshTokenEntry
      <4> QED
        BY <3>3, <4>1, NoneAssumption DEF IssueRefresh
    <3>5. Phase(c)' = "active"
      BY <1>1, <2>1, <3>4 DEF Phase, GrantInv, TypeOK, Live
    <3>6. \A b \in Codes : b # c => Phase(b)' = Phase(b)
      <4>1. ~Live(r)
        BY <3>4 DEF GrantInv, TokensKeepTheirGrant
      <4>2. \A b \in Codes : b # c => LineLive(b)' = LineLive(b)
        BY <3>4, <4>1 DEF LineLive, Live, GrantInv, TypeOK
      <4> QED
        BY <1>1, <4>2 DEF Phase, LineLive, GrantInv, TypeOK
    <3>7. Lifecycle!Exchange(c, a)
      BY <2>1, <3>1, <3>2, <3>5, <3>6, MoveOne, MintOne DEF Lifecycle!Exchange, GrantInv
    <3> QED
      BY <3>7 DEF Lifecycle!Next
  <2> QED
    BY <2>2, <2>3
<1> QED
  BY <1>2, <1>3

(* A rotation mints for an active code; a refused one closes it; other     *)
(* codes keep their phase.                                                 *)
LEMMA RefreshMoves ==
  ASSUME GrantInv, NEW r \in RefreshTokens, NEW id \in ClientIds, Refresh(r, id)
  PROVE  [Lifecycle!Next]_Lifecycle!vars
<1> DEFINE entry == refresh_tokens[r]
<1>1. UNCHANGED <<granted, authorization_codes>>
  BY DEF Refresh
<1>2. CASE entry = None
  <2>1. UNCHANGED <<refresh_tokens, lineage, claims>>
    BY <1>2 DEF Refresh, HeldBy, GrantInv, TypeOK
  <2> QED
    BY <1>1, <2>1, Stutter DEF Phase, Minted, Live
<1>3. CASE entry # None
  <2>1. lineage[r] \in Grants /\ GrantOf(lineage[r]) # None
    BY <1>3 DEF GrantInv, TypeOK, TokensKeepTheirGrant, Matches, Live
  <2>2. \A s \in RefreshTokens : Live(s) /\ lineage[s] = lineage[r] /\ lineage[r] \in Codes => s = r
    BY <1>3 DEF GrantInv, OneRefreshTokenPerCode, Live
  <2>3. lineage[r] \in Codes => Phase(lineage[r]) = "active"
    BY <1>3, <2>1 DEF Phase, GrantOf, GrantInv, TokensOnlyFromSpentCodes, Live
  <2>4. CASE ~HeldBy(entry, id)
    <3>1. /\ UNCHANGED <<lineage, claims>>
          /\ refresh_tokens' = [refresh_tokens EXCEPT ![r] = None]
      BY <2>4 DEF Refresh
    <3>2. \A b \in Codes : Minted(b)' = Minted(b)
      BY <3>1 DEF Minted
    <3>3. \A b \in Codes : b # lineage[r] => Phase(b)' = Phase(b)
      BY <1>1, <3>1 DEF Phase, Live, GrantInv, TypeOK
    <3>4. CASE lineage[r] \in Codes
      <4> PICK c \in Codes : c = lineage[r]
        BY <3>4
      <4>1. ~LineLive(c)'
        BY <2>2, <3>1, <3>4 DEF LineLive, Live, GrantInv, TypeOK
      <4>2. authorization_codes[c] = None /\ granted[c] # None
        BY <2>1 DEF GrantOf, GrantInv, TokensOnlyFromSpentCodes
      <4>3. Phase(c)' = "closed"
        BY <1>1, <4>1, <4>2 DEF Phase, LineLive
      <4>4. Lifecycle!Close(c)
        BY <2>3, <3>2, <3>3, <4>3, MoveOne, MintedKept DEF Lifecycle!Close
      <4> QED
        BY <4>4 DEF Lifecycle!Next
    <3>5. CASE lineage[r] \notin Codes
      BY <3>2, <3>3, <3>5, Stutter
    <3> QED
      BY <3>4, <3>5
  <2>5. CASE HeldBy(entry, id)
    <3>1. id \in Registered /\ entry.scope \in SUBSET Scopes
      BY <2>5 DEF HeldBy, GrantInv, TypeOK, RefreshTokenEntry
    <3>2. PICK a \in AccessTokens : IssueAccess(a, id, entry.scope, lineage[r])
      BY <2>5 DEF Refresh
    <3>3. PICK n \in RefreshTokens, stored \in RefreshTokenEntry :
             /\ lineage[n] = None
             /\ lineage' = [lineage EXCEPT ![n] = lineage[r]]
             /\ refresh_tokens' = [[refresh_tokens EXCEPT ![r] = None] EXCEPT ![n] = stored]
      BY <2>5, <3>1 DEF Refresh, IssueRefresh, RefreshTokenEntry
    <3>4. /\ n # r
          /\ ~Live(n)
          /\ Live(n)'
          /\ lineage'[n] = lineage[r]
      BY <2>1, <3>3, NoneAssumption DEF GrantInv, TypeOK, TokensKeepTheirGrant, Live
    <3>5. \A b \in Codes : LineLive(b)' = LineLive(b)
      <4>1. \A s \in RefreshTokens : s # r /\ s # n =>
               Live(s)' = Live(s) /\ lineage'[s] = lineage[s]
        BY <3>3 DEF Live, GrantInv, TypeOK
      <4>2. Live(r) /\ ~Live(r)'
        BY <1>3, <3>3, <3>4 DEF Live, GrantInv, TypeOK
      <4> QED
        BY <3>4, <4>1, <4>2 DEF LineLive
    <3>6. \A b \in Codes : Phase(b)' = Phase(b)
      BY <1>1, <3>5 DEF Phase, LineLive
    <3>7. CASE lineage[r] \in Codes
      <4> PICK c \in Codes : c = lineage[r]
        BY <3>7
      <4>1. Lifecycle!Rotate(c, a)
        BY <2>3, <3>1, <3>2, <3>6, MoveOne, MintOne DEF Lifecycle!Rotate, GrantInv
      <4> QED
        BY <4>1 DEF Lifecycle!Next
    <3>8. CASE lineage[r] \notin Codes
      BY <3>2, <3>6, <3>8, MintOther, Stutter DEF GrantInv
    <3> QED
      BY <3>7, <3>8
  <2> QED
    BY <2>4, <2>5
<1> QED
  BY <1>2, <1>3

(* /revoke closes an active code or changes no phase.                      *)
LEMMA RevokeMoves ==
  ASSUME GrantInv, NEW t \in Tokens, Revoke(t)
  PROVE  [Lifecycle!Next]_Lifecycle!vars
<1>1. UNCHANGED <<granted, authorization_codes, lineage, claims>>
  BY DEF Revoke, history
<1>2. \A b \in Codes : Minted(b)' = Minted(b)
  BY <1>1 DEF Minted
<1>3. \A s \in RefreshTokens : refresh_tokens'[s] = IF s = t THEN None ELSE refresh_tokens[s]
  BY DEF Revoke
<1>4. CASE t \in RefreshTokens /\ Live(t) /\ lineage[t] \in Codes
  <2> PICK c \in Codes : c = lineage[t]
    BY <1>4
  <2>1. \A s \in RefreshTokens : Live(s) /\ lineage[s] = c => s = t
    BY <1>4 DEF GrantInv, OneRefreshTokenPerCode
  <2>2. granted[c] # None /\ authorization_codes[c] = None
    BY <1>4 DEF GrantInv, TokensKeepTheirGrant, Matches, GrantOf, TokensOnlyFromSpentCodes
  <2>3. Phase(c) = "active" /\ Phase(c)' = "closed"
    BY <1>1, <1>3, <1>4, <2>1, <2>2 DEF Phase, Live
  <2>4. \A b \in Codes : b # c => Phase(b)' = Phase(b)
    BY <1>1, <1>3 DEF Phase, Live
  <2>5. Lifecycle!Close(c)
    BY <1>2, <2>3, <2>4, MoveOne, MintedKept DEF Lifecycle!Close
  <2> QED
    BY <2>5 DEF Lifecycle!Next
<1>5. CASE ~(t \in RefreshTokens /\ Live(t) /\ lineage[t] \in Codes)
  <2>1. \A b \in Codes : Phase(b)' = Phase(b)
    BY <1>1, <1>3, <1>5 DEF Phase, Live
  <2> QED
    BY <1>2, <2>1, Stutter
<1> QED
  BY <1>4, <1>5

(* A client_credentials token belongs to no code: no code moves.           *)
LEMMA ClientCredentialsStutter ==
  ASSUME GrantInv, NEW id \in ClientIds, NEW secret \in Secrets, NEW requested \in SUBSET Scopes,
         ClientCredentials(id, secret, requested)
  PROVE  UNCHANGED Lifecycle!vars
<1>1. \A b \in Codes : Phase(b)' = Phase(b)
  BY DEF ClientCredentials, Phase, Live
<1>2. \A b \in Codes : Minted(b)' = Minted(b)
  <2>1. CASE UNCHANGED claims
    BY <2>1 DEF Minted
  <2>2. ASSUME NEW a \in AccessTokens, IssueAccess(a, id, RequestedScope(id, requested), None)
        PROVE  \A b \in Codes : Minted(b)' = Minted(b)
    BY <2>2, NoneAssumption, MintOther DEF GrantInv, Grants
  <2> QED
    BY <2>1, <2>2 DEF ClientCredentials
<1> QED
  BY <1>1, <1>2, Stutter

(* A device poll issues for a device code: no authorization code moves.    *)
LEMMA PollStutters ==
  ASSUME GrantInv, NEW d \in DeviceCodes, NEW id \in ClientIds, PollDevice(d, id)
  PROVE  UNCHANGED Lifecycle!vars
<1>1. UNCHANGED <<granted, authorization_codes>>
  BY DEF PollDevice, PollRefused, PollPending, PollApproved, PollAnswered, tables, history
<1>2. CASE UNCHANGED <<refresh_tokens, lineage, claims>>
  BY <1>1, <1>2, Stutter DEF Phase, Minted, Live
<1>3. CASE PollApproved(d)
  <2>1. d \notin Codes
    BY DisjointAssumption
  <2>2. PICK r \in RefreshTokens :
           /\ lineage[r] = None
           /\ lineage' = [lineage EXCEPT ![r] = d]
           /\ refresh_tokens' = [refresh_tokens EXCEPT ![r] =
                [client_id |-> Polled(d).client_id, scope |-> Polled(d).scope]]
    BY <1>3 DEF PollApproved, IssueRefresh
  <2>3. \A b \in Codes : LineLive(b)' = LineLive(b)
    BY <2>1, <2>2 DEF LineLive, Live, GrantInv, TypeOK, TokensKeepTheirGrant
  <2>4. \A b \in Codes : Minted(b)' = Minted(b)
    BY <1>3, <2>1, MintOther DEF PollApproved, GrantInv
  <2> QED
    BY <1>1, <2>3, <2>4, Stutter DEF Phase, LineLive
<1> QED
  BY <1>2, <1>3 DEF PollDevice, PollRefused, PollPending, PollAnswered, tables, history

(***************************************************************************)
(* The refinement                                                          *)
(***************************************************************************)

(* The initial state of the server is that of CodeGrant.                   *)
LEMMA InitMaps == Init => Lifecycle!Init
BY DEF Init, Lifecycle!Init, Phase, Minted

(* Every step of the server is a step of CodeGrant or a stutter.           *)
LEMMA StepMaps == GrantInv /\ [Next]_vars => [Lifecycle!Next]_Lifecycle!vars
<1> SUFFICES ASSUME GrantInv, [Next]_vars
             PROVE  [Lifecycle!Next]_Lifecycle!vars
  OBVIOUS
<1>1. ASSUME UNCHANGED <<authorization_codes, refresh_tokens, granted, lineage, claims>>
      PROVE  UNCHANGED Lifecycle!vars
  BY <1>1, Stutter DEF Phase, Minted, Live
<1>2. CASE CodeStep
  <2>1. CASE AuthorizeRefused
    BY <1>1, <2>1 DEF AuthorizeRefused, tables, history
  <2>2. ASSUME NEW c \in Codes, NEW g \in AuthorizeGrants, Authorize(c, g)
        PROVE  Lifecycle!Next
    BY <2>2, AuthorizeOffers DEF Lifecycle!Next
  <2> QED
    BY <1>2, <2>1, <2>2, ExchangeMoves DEF CodeStep
<1>3. CASE DeviceStep
  <2>1. CASE \E d \in DeviceCodes, id \in ClientIds : PollDevice(d, id)
    BY <2>1, PollStutters
  <2>2. CASE ~\E d \in DeviceCodes, id \in ClientIds : PollDevice(d, id)
    <3>1. UNCHANGED <<authorization_codes, refresh_tokens, granted, lineage, claims>>
      BY <1>3, <2>2
         DEF DeviceStep, DeviceAuthorization, DeviceAuthorizationRefused, ApproveDeviceCode,
             DenyDeviceCode, Decide, DecisionNotFound, tables, history
    <3> QED
      BY <1>1, <3>1
  <2> QED
    BY <2>1, <2>2
<1>4. CASE TokenStep
  <2>1. CASE TokenRefused \/ \E t \in Tokens : Userinfo(t) \/ Introspect(t)
    BY <1>1, <2>1 DEF TokenRefused, Userinfo, Introspect, tables, history
  <2> QED
    BY <1>4, <2>1, ClientCredentialsStutter, RefreshMoves, RevokeMoves DEF TokenStep
<1>5. CASE Tick \/ UNCHANGED vars
  BY <1>1, <1>5 DEF Tick, vars, tables, history
<1> QED
  BY <1>2, <1>3, <1>4, <1>5 DEF Next

(* Every behaviour of the mock provider is, seen through the refinement    *)
(* mapping, a behaviour of CodeGrant: each authorization code goes         *)
(* unborn, offered, active, closed in that order, and access tokens are    *)
(* minted for it only by its one exchange and while its line is active.    *)
THEOREM MockImplementsCodeGrant == Spec => ImplementsCodeGrant
<1>1. Spec => Lifecycle!Init
  BY InitMaps DEF Spec
<1>2. Spec => [][Lifecycle!Next]_Lifecycle!vars
  BY StepMaps, GrantInvariant, PTL DEF Spec
<1> QED
  BY <1>1, <1>2 DEF ImplementsCodeGrant, Lifecycle!Spec

=============================================================================
