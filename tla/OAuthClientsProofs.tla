------------------------- MODULE OAuthClientsProofs -------------------------
(***************************************************************************)
(* Theorems about OAuthClients for every set of codes, tokens and tries:   *)
(* what sessions know of the server's tokens, whatever the network loses,  *)
(* repeats or reorders.  They rest on the lemmas of OAuthMockProofs about  *)
(* the handlers, which serve the messages here unchanged.                  *)
(***************************************************************************)
EXTENDS OAuthClients, OAuthMockProofs

USE DEF Remove

(***************************************************************************)
(* The server's tables                                                     *)
(***************************************************************************)

(* Every step of the clients and the network is a step of the server, or   *)
(* leaves it alone.                                                        *)
LEMMA ServerStep ==
  ASSUME ClientsTypeOK, [ClientsNext]_clientVars
  PROVE  [Next]_vars
<1>1. ASSUME NEW c \in Codes, Begin(c)
      PROVE  Next
  BY <1>1 DEF Begin, Next, CodeStep
<1>2. ASSUME NEW m \in wire, Serve(m)
      PROVE  Next
  <2>1. /\ m.code \in Codes
        /\ m.kind \in {"refresh", "revoke"} => m.token \in RefreshTokens
    BY DEF ClientsTypeOK
  <2>2. App \in ClientIds /\ Uri \in Uris /\ Proof \in Verifiers
    BY AppAssumption, ClientAssumption, UriAssumption
  <2>3. CASE m.kind = "exchange" /\ ExchangeCode(m.code, App, Uri, Proof)
    BY <2>1, <2>2, <2>3 DEF Next, CodeStep
  <2>4. CASE m.kind = "refresh" /\ Refresh(m.token, App)
    BY <2>1, <2>2, <2>4 DEF Next, TokenStep
  <2>5. CASE m.kind = "revoke" /\ Revoke(m.token)
    BY <2>1, <2>5 DEF Next, TokenStep, Tokens
  <2> QED
    BY <1>2, <2>3, <2>4, <2>5 DEF Serve, Handle
<1>3. ASSUME NEW c \in Codes, SendExchange(c) \/ SendRefresh(c) \/ SendRevoke(c)
      PROVE  UNCHANGED vars
  BY <1>3 DEF SendExchange, SendRefresh, SendRevoke, Send
<1>4. ASSUME Receive \/ Lose
      PROVE  UNCHANGED vars
  BY <1>4 DEF Receive, Lose
<1> QED
  BY <1>1, <1>2, <1>3, <1>4 DEF ClientsNext, clientVars

(* What serving m does to the tokens when it issues r ...                  *)
Issues(m, r) ==
  /\ lineage[r] = None /\ lineage' = [lineage EXCEPT ![r] = m.code]
  /\ Live(r)'
  /\ \A s \in RefreshTokens : Live(s)' => Live(s) \/ s = r
  /\ wire' = (wire \ {m}) \cup {Message("answer", m.code, m.try, r)}
  /\ \/ /\ m.kind = "exchange" /\ authorization_codes[m.code] # None
        /\ \A s \in RefreshTokens : Live(s) => Live(s)'
     \/ /\ m.kind = "refresh" /\ Live(m.token) /\ ~Live(m.token)' /\ m.token # r
        /\ \A s \in RefreshTokens : s # m.token /\ Live(s) => Live(s)'

(* ... and when it issues none: only a revocation takes a live token away. *)
IssuesNone(m) ==
  /\ UNCHANGED lineage
  /\ \A s \in RefreshTokens : Live(s)' => Live(s)
  /\ \A s \in RefreshTokens : Live(s) /\ ~Live(s)' => m.kind = "revoke" /\ s = m.token
  /\ m.kind = "revoke" => ~Live(m.token)'
  /\ wire' = (wire \ {m}) \cup {Message("answer", m.code, m.try, None)}

(* The answer carries the token that was issued.                           *)
LEMMA AnswerIsIssued ==
  ASSUME ClientsInv, NEW m \in wire, Serve(m),
         NEW r \in RefreshTokens, NEW g \in Codes,
         lineage[r] = None, lineage' = [lineage EXCEPT ![r] = g]
  PROVE  wire' = (wire \ {m}) \cup {Message("answer", m.code, m.try, r)}
<1>1. lineage \in [RefreshTokens -> Grants \cup {None}] /\ g # None
  BY NoneAssumption DEF ClientsInv, GrantInv, TypeOK, Grants
<1>2. Issued = {r}
  BY <1>1 DEF Issued
<1>3. (CHOOSE s \in Issued : TRUE) = r
  BY <1>2
<1> QED
  BY <1>2, <1>3 DEF Serve

(* If none was, it carries none.                                           *)
LEMMA NoAnswerIsIssued ==
  ASSUME NEW m \in wire, Serve(m), UNCHANGED lineage
  PROVE  wire' = (wire \ {m}) \cup {Message("answer", m.code, m.try, None)}
<1>1. Issued = {}
  BY DEF Issued
<1> QED
  BY <1>1 DEF Serve

(* An exchange succeeds if the code is still there: it was granted to the  *)
(* app, with its URI and challenge.                                        *)
LEMMA ServeExchange ==
  ASSUME ClientsInv, NEW m \in wire, Serve(m),
         m.kind = "exchange", ExchangeCode(m.code, App, Uri, Proof)
  PROVE  IssuesNone(m) \/ \E r \in RefreshTokens : Issues(m, r)
<1> DEFINE entry == authorization_codes[m.code]
           verdict == CodeVerdict(entry, App, Uri, Proof)
<1>1. m.code \in Codes
  BY DEF ClientsInv, ClientsTypeOK
<1>2. CASE entry = None
  <2>1. verdict # "ok"
    BY <1>2 DEF CodeVerdict
  <2>2. UNCHANGED <<refresh_tokens, lineage>>
    BY <2>1 DEF ExchangeCode
  <2> QED
    BY <2>2, NoAnswerIsIssued DEF IssuesNone, Live
<1>3. CASE entry # None
  <2>1. entry = granted[m.code] /\ granted[m.code] # None
    BY <1>1, <1>3 DEF ClientsInv, GrantInv, HistoryAgrees
  <2>2. /\ entry.client_id = App /\ entry.redirect_uri = Uri
        /\ entry.code_challenge = S256[Proof]
    BY <1>1, <2>1 DEF ClientsInv, CodesAreApps
  <2>3. verdict = "ok"
    BY <1>3, <2>2, AppAssumption DEF CodeVerdict
  <2>4. PICK r \in RefreshTokens : IssueRefresh(refresh_tokens, r, App, entry.scope, m.code)
    BY <2>3 DEF ExchangeCode
  <2>5. /\ lineage[r] = None /\ lineage' = [lineage EXCEPT ![r] = m.code]
        /\ refresh_tokens' =
             [refresh_tokens EXCEPT ![r] = [client_id |-> App, scope |-> entry.scope]]
    BY <2>4 DEF IssueRefresh
  <2>6. wire' = (wire \ {m}) \cup {Message("answer", m.code, m.try, r)}
    BY <1>1, <2>5, AnswerIsIssued
  <2>7. refresh_tokens \in [RefreshTokens -> RefreshTokenEntry \cup {None}]
    BY DEF ClientsInv, GrantInv, TypeOK
  <2>8. entry.scope \in SUBSET Scopes
    BY <1>1, <1>3 DEF ClientsInv, GrantInv, TypeOK, AuthorizationCode
  <2>9. [client_id |-> App, scope |-> entry.scope] # None
    BY <2>8, AppAssumption, NoneAssumption DEF RefreshTokenEntry
  <2>10. Live(r)' /\ \A s \in RefreshTokens : s # r => (Live(s)' <=> Live(s))
    BY <2>5, <2>7, <2>9 DEF Live
  <2>11. \A s \in RefreshTokens : Live(s) => Live(s)'
    BY <2>10
  <2> QED
    BY <1>3, <2>5, <2>6, <2>10, <2>11 DEF Issues
<1> QED
  BY <1>2, <1>3

(* A refresh succeeds if the token is still there: it is the app's.        *)
LEMMA ServeRefresh ==
  ASSUME ClientsInv, NEW m \in wire, Serve(m), m.kind = "refresh", Refresh(m.token, App)
  PROVE  IssuesNone(m) \/ \E r \in RefreshTokens : Issues(m, r)
<1> DEFINE entry == refresh_tokens[m.token]
<1>1. m.code \in Codes /\ m.token \in RefreshTokens
  BY DEF ClientsInv, ClientsTypeOK
<1>2. /\ refresh_tokens \in [RefreshTokens -> RefreshTokenEntry \cup {None}]
      /\ lineage[m.token] = m.code
  <2>1. m \in Under(m.code) /\ m.token # None
    BY <1>1, TokenAssumption DEF Under
  <2> QED
    BY <1>1, <2>1 DEF ClientsInv, LiveTokenIsKnown, GrantInv, TypeOK
<1>3. CASE entry = None
  <2>1. UNCHANGED lineage /\ refresh_tokens' = [refresh_tokens EXCEPT ![m.token] = None]
    BY <1>3 DEF Refresh, HeldBy
  <2>2. \A s \in RefreshTokens : Live(s)' <=> Live(s)
    BY <1>2, <1>3, <2>1 DEF Live
  <2> QED
    BY <2>1, <2>2, NoAnswerIsIssued DEF IssuesNone
<1>4. CASE entry # None
  <2>1. Matches(entry, m.code)
    <3>1. TokensKeepTheirGrant /\ Live(m.token)
      BY <1>4 DEF ClientsInv, GrantInv, Live
    <3>2. Matches(entry, lineage[m.token])
      BY <1>1, <3>1 DEF TokensKeepTheirGrant
    <3> QED
      BY <1>2, <3>2
  <2>2. entry.client_id = App
    BY <1>1, <2>1 DEF Matches, GrantOf, ClientsInv, CodesAreApps
  <2>3. PICK r \in RefreshTokens :
          IssueRefresh([refresh_tokens EXCEPT ![m.token] = None], r, App, entry.scope, m.code)
    BY <1>2, <1>4, <2>2 DEF Refresh, HeldBy
  <2>4. /\ lineage[r] = None /\ lineage' = [lineage EXCEPT ![r] = m.code]
        /\ refresh_tokens' = [[refresh_tokens EXCEPT ![m.token] = None]
                                EXCEPT ![r] = [client_id |-> App, scope |-> entry.scope]]
    BY <2>3 DEF IssueRefresh
  <2>5. wire' = (wire \ {m}) \cup {Message("answer", m.code, m.try, r)}
    BY <1>1, <2>4, AnswerIsIssued
  <2>6. entry.scope \in SUBSET Scopes
    <3>1. entry \in RefreshTokenEntry
      BY <1>1, <1>2, <1>4
    <3> QED
      BY <3>1 DEF RefreshTokenEntry
  <2>7. [client_id |-> App, scope |-> entry.scope] # None
    BY <2>6, AppAssumption, NoneAssumption DEF RefreshTokenEntry
  <2>8. m.token # r
    BY <1>1, <1>2, <2>4, NoneAssumption DEF Grants
  <2>9. Live(r)' /\ \A s \in RefreshTokens : s # r /\ s # m.token => (Live(s)' <=> Live(s))
    BY <1>2, <2>4, <2>7 DEF Live
  <2>10. Live(m.token) /\ ~Live(m.token)'
    BY <1>1, <1>2, <1>4, <2>4, <2>8 DEF Live
  <2>11. /\ \A s \in RefreshTokens : Live(s)' => Live(s) \/ s = r
         /\ \A s \in RefreshTokens : s # m.token /\ Live(s) => Live(s)'
    BY <2>9, <2>10
  <2> QED
    BY <2>4, <2>5, <2>8, <2>9, <2>10, <2>11 DEF Issues
<1> QED
  BY <1>3, <1>4

(* A served request gets a token or it does not.                           *)
LEMMA ServeCases ==
  ASSUME ClientsInv, NEW m \in wire, Serve(m)
  PROVE  IssuesNone(m) \/ \E r \in RefreshTokens : Issues(m, r)
<1>1. CASE m.kind = "revoke" /\ Revoke(m.token)
  <2>1. /\ UNCHANGED lineage
        /\ refresh_tokens' =
             [s \in RefreshTokens |-> IF s = m.token THEN None ELSE refresh_tokens[s]]
    BY <1>1 DEF Revoke, history
  <2>2. m.token \in RefreshTokens
    BY <1>1 DEF ClientsInv, ClientsTypeOK
  <2> QED
    BY <1>1, <2>1, <2>2, NoAnswerIsIssued DEF IssuesNone, Live
<1> QED
  BY <1>1, ServeExchange, ServeRefresh DEF Serve, Handle

(***************************************************************************)
(* ClientsInv is inductive                                                 *)
(***************************************************************************)

(* The app's codes stay the app's.                                         *)
LEMMA CodesAreAppsStep ==
  ASSUME ClientsInv, [ClientsNext]_clientVars
  PROVE  CodesAreApps'
<1>1. ASSUME NEW c \in Codes, Begin(c)
      PROVE  CodesAreApps'
  <2>1. PICK g \in AuthorizeGrants :
          /\ g.client_id = App /\ g.redirect_uri = Uri /\ g.code_challenge = S256[Proof]
          /\ granted' = [granted EXCEPT ![c] = g]
    BY <1>1 DEF Begin, Authorize
  <2>2. granted \in [Codes -> AuthorizationCode \cup {None}]
    BY DEF ClientsInv, GrantInv, TypeOK
  <2> QED
    BY <2>1, <2>2 DEF ClientsInv, CodesAreApps
<1>2. ASSUME NEW m \in wire, Serve(m)
      PROVE  UNCHANGED granted
  BY <1>2 DEF Serve, Handle, ExchangeCode, Refresh, Revoke, history
<1>3. ASSUME NEW c \in Codes, SendExchange(c) \/ SendRefresh(c) \/ SendRevoke(c)
      PROVE  UNCHANGED granted
  BY <1>3 DEF SendExchange, SendRefresh, SendRevoke, Send, vars, history
<1>4. ASSUME Receive \/ Lose \/ UNCHANGED clientVars
      PROVE  UNCHANGED granted
  BY <1>4 DEF Receive, Lose, clientVars, vars, history
<1>5. UNCHANGED granted => CodesAreApps'
  BY DEF ClientsInv, CodesAreApps
<1> QED
  BY <1>1, <1>2, <1>3, <1>4, <1>5 DEF ClientsNext

(* A new code has no token and no session that holds one.                  *)
LEMMA BeginStep ==
  ASSUME ClientsInv, NEW c \in Codes, Begin(c)
  PROVE  ClientsTypeOK' /\ LiveTokenIsKnown' /\ WireInv' /\ SessionInv'
<1>1. UNCHANGED <<refresh_tokens, lineage, held, wire, lost, left, cleanly>>
  BY DEF Begin, Authorize, client
<1> QED
  BY <1>1 DEF ClientsInv, ClientsTypeOK, LiveTokenIsKnown, WireInv, SessionInv, Under, Live, Quiet

(* A request carries nothing but the token its session holds, and one that *)
(* leaves cleanly has the last word on its line.                           *)
LEMMA SendStep ==
  ASSUME ClientsInv, NEW c \in Codes, SendExchange(c) \/ SendRefresh(c) \/ SendRevoke(c)
  PROVE  ClientsTypeOK' /\ LiveTokenIsKnown' /\ WireInv' /\ SessionInv'
<1>1. PICK kind \in Kinds, try \in Tries, token \in {None, held[c]} :
        /\ kind \in {"refresh", "revoke"} => token = held[c] /\ token # None
        /\ kind = "exchange" => token = None
        /\ kind # "revoke" => left' = left /\ cleanly' = cleanly
        /\ kind = "revoke" => /\ left' = left \cup {c}
                              /\ cleanly' = IF Under(c) = {} /\ c \notin lost
                                            THEN cleanly \cup {c} ELSE cleanly
        /\ wire' = wire \cup {Message(kind, c, try, token)}
  BY DEF SendExchange, SendRefresh, SendRevoke, Send, Kinds
<1> DEFINE new == Message(kind, c, try, token)
<1>2. /\ new.kind = kind /\ new.code = c /\ new.token = token
      /\ wire' = wire \cup {new}
  BY <1>1 DEF Message
<1> HIDE DEF new
<1>3. /\ UNCHANGED <<refresh_tokens, lineage, held, lost>>
      /\ c \notin left
  BY DEF SendExchange, SendRefresh, SendRevoke, Send, vars, tables, history
<1>4. held \in [Codes -> RefreshTokens \cup {None}]
  BY DEF ClientsInv, ClientsTypeOK
<1>5. ClientsTypeOK'
  BY <1>1, <1>2, <1>3, <1>4 DEF ClientsInv, ClientsTypeOK, Kinds
<1>6. LiveTokenIsKnown'
  BY <1>1, <1>2, <1>3 DEF ClientsInv, LiveTokenIsKnown, Under, Live, Quiet
<1>7. WireInv'
  <2>1. ~Good(new)
    BY <1>2 DEF Good, Kinds
  <2>2. \A m \in wire : Good(m) => new.token # m.token
    <3> SUFFICES ASSUME NEW m \in wire, Good(m), new.token = m.token
                 PROVE  FALSE
      OBVIOUS
    <3>1. /\ m.token # None /\ m.code \in Codes /\ m \in Under(m.code)
          /\ held[m.code] # m.token
      BY DEF Good, ClientsInv, ClientsTypeOK, WireInv, Under
    <3>2. lineage[m.token] = m.code
      BY <3>1 DEF ClientsInv, LiveTokenIsKnown
    <3>3. m.token = held[c]
      BY <1>1, <1>2, <3>1
    <3>4. lineage[m.token] = c
      BY <3>1, <3>3 DEF ClientsInv, LiveTokenIsKnown
    <3> QED
      BY <3>1, <3>2, <3>3, <3>4
  <2> SUFFICES ASSUME NEW m \in wire'
               PROVE  /\ Good(m) => /\ Live(m.token)' /\ held'[m.code] # m.token
                                    /\ \A n \in wire' : n.token = m.token => n = m
                      /\ m.kind \in {"refresh", "revoke"} /\ Live(m.token)' =>
                           held'[m.code] = m.token
    BY DEF WireInv
  <2>3. CASE m = new
    BY <1>1, <1>2, <1>3, <2>1, <2>3
  <2>4. CASE m \in wire
    BY <1>2, <1>3, <2>2, <2>4 DEF ClientsInv, WireInv, Live
  <2> QED
    BY <1>2, <2>3, <2>4
<1>8. SessionInv'
  BY <1>1, <1>2, <1>3 DEF ClientsInv, ClientsTypeOK, SessionInv, Under, Live, Good, Kinds
<1> QED
  BY <1>5, <1>6, <1>7, <1>8

(* While a good answer is under way nobody else has anything of use: the   *)
(* token held is dead, and no other good answer of the session exists.     *)
LEMMA GoodAnswerIsAlone ==
  ASSUME ClientsInv, NEW m \in wire, Good(m)
  PROVE  /\ m.code \in Codes /\ m.token \in RefreshTokens /\ m.token # None
         /\ lineage[m.token] = m.code /\ Live(m.token)
         /\ \A s \in RefreshTokens : Live(s) /\ lineage[s] = m.code => s = m.token
         /\ held[m.code] # None => ~Live(held[m.code])
         /\ \A n \in Under(m.code) : Good(n) => n = m
         /\ m.code \notin lost /\ m.code \notin cleanly
<1>1. /\ m.code \in Codes /\ m.token \in RefreshTokens /\ m.token # None
      /\ m \in Under(m.code)
  BY TokenAssumption DEF Good, ClientsInv, ClientsTypeOK, Under
<1>2. lineage[m.token] = m.code /\ Live(m.token)
  BY <1>1 DEF ClientsInv, LiveTokenIsKnown, WireInv
<1>3. \A s \in RefreshTokens : Live(s) /\ lineage[s] = m.code => s = m.token
  BY <1>1, <1>2 DEF ClientsInv, GrantInv, OneRefreshTokenPerCode
<1>4. held[m.code] # None => /\ held[m.code] \in RefreshTokens
                            /\ lineage[held[m.code]] = m.code
                            /\ held[m.code] # m.token
  BY <1>1 DEF ClientsInv, ClientsTypeOK, LiveTokenIsKnown, WireInv
<1>5. ASSUME NEW n \in Under(m.code), Good(n)
      PROVE  n = m
  <2>1. n \in wire /\ n.code = m.code /\ n.token # None /\ n.token \in RefreshTokens
    BY <1>5 DEF Under, Good, ClientsInv, ClientsTypeOK
  <2>2. lineage[n.token] = m.code /\ Live(n.token)
    BY <1>1, <1>5, <2>1 DEF ClientsInv, LiveTokenIsKnown, WireInv
  <2>3. n.token = m.token
    BY <1>3, <2>1, <2>2
  <2> QED
    BY <2>1, <2>3 DEF ClientsInv, WireInv
<1>6. m.code \notin lost /\ m.code \notin cleanly
  BY <1>1 DEF ClientsInv, SessionInv, Good
<1> QED
  BY <1>1, <1>2, <1>3, <1>4, <1>5, <1>6

(* A message that is taken from the wire and was no good answer changes    *)
(* nothing that anyone knows.                                              *)
LEMMA DropStep ==
  ASSUME ClientsInv, NEW m \in wire, ~Good(m), wire' = wire \ {m},
         UNCHANGED <<vars, client>>
  PROVE  ClientsTypeOK' /\ LiveTokenIsKnown' /\ WireInv' /\ SessionInv'
<1>1. UNCHANGED <<refresh_tokens, lineage, held, lost, left, cleanly>>
  BY DEF vars, tables, history, client
<1>2. ClientsTypeOK'
  BY <1>1 DEF ClientsInv, ClientsTypeOK
<1>3. \A c \in Codes : Under(c)' = Under(c) \ {m}
  BY DEF Under
<1>4. WireInv'
  BY <1>1 DEF ClientsInv, WireInv, Live
<1>5. SessionInv'
  BY <1>1, <1>3 DEF ClientsInv, SessionInv, Live
<1>6. LiveTokenIsKnown'
  <2> SUFFICES ASSUME NEW c \in Codes
               PROVE  /\ \A r \in {held[c]} \cup {n.token : n \in Under(c)'} : r # None => lineage[r] = c
                      /\ \A r \in RefreshTokens : Live(r) /\ lineage[r] = c =>
                           held[c] = r \/ c \in lost
                             \/ \E n \in Under(c)' : n.kind = "answer" /\ n.token = r
                      /\ held[c] # None /\ Under(c)' = {} /\ c \notin lost \cup left => Live(held[c])
    BY <1>1 DEF LiveTokenIsKnown, Live, Quiet
  <2>1. \A r \in {held[c]} \cup {n.token : n \in Under(c)'} : r # None => lineage[r] = c
    BY <1>3 DEF ClientsInv, LiveTokenIsKnown
  <2>2. ASSUME NEW r \in RefreshTokens, Live(r), lineage[r] = c, held[c] # r, c \notin lost
        PROVE  \E n \in Under(c)' : n.kind = "answer" /\ n.token = r
    <3>1. PICK n \in Under(c) : n.kind = "answer" /\ n.token = r
      BY <2>2 DEF ClientsInv, LiveTokenIsKnown
    <3>2. n # m
      BY <2>2, <3>1, TokenAssumption DEF Good
    <3> QED
      BY <1>3, <3>1, <3>2
  <2>3. ASSUME held[c] # None, Under(c)' = {}, c \notin lost \cup left
        PROVE  Live(held[c])
    <3>1. \A n \in Under(c) : ~Good(n)
      BY <1>3, <2>3
    <3> QED
      BY <2>3, <3>1 DEF ClientsInv, SessionInv
  <2> QED
    BY <2>1, <2>2, <2>3
<1> QED
  BY <1>2, <1>4, <1>5, <1>6

(* A good answer that arrives: the session holds the live token.           *)
LEMMA TakeStep ==
  ASSUME ClientsInv, NEW m \in wire, Good(m), wire' = wire \ {m},
         held' = [held EXCEPT ![m.code] = m.token],
         UNCHANGED <<vars, lost, left, cleanly>>
  PROVE  ClientsTypeOK' /\ LiveTokenIsKnown' /\ WireInv' /\ SessionInv'
<1>1. UNCHANGED <<refresh_tokens, lineage, lost, left, cleanly>>
  BY DEF vars, tables, history
<1>2. \A c \in Codes : Under(c)' = Under(c) \ {m}
  BY DEF Under
<1>3. held \in [Codes -> RefreshTokens \cup {None}]
  BY DEF ClientsInv, ClientsTypeOK
<1>4. ClientsTypeOK'
  BY <1>1, <1>3, GoodAnswerIsAlone DEF ClientsInv, ClientsTypeOK
<1>5. WireInv'
  <2> SUFFICES ASSUME NEW n \in wire, n # m
               PROVE  /\ Good(n) => /\ Live(n.token) /\ held'[n.code] # n.token
                                    /\ \A o \in wire : o.token = n.token => o = n
                      /\ n.kind \in {"refresh", "revoke"} /\ Live(n.token) =>
                           held'[n.code] = n.token
    BY <1>1 DEF WireInv, Live
  <2>1. n.code \in Codes /\ n \in Under(n.code)
    BY DEF ClientsInv, ClientsTypeOK, Under
  <2>2. CASE n.code # m.code
    BY <1>3, <2>1, <2>2 DEF ClientsInv, WireInv
  <2>3. CASE n.code = m.code
    <3>1. ~Good(n)
      BY <2>1, <2>3, GoodAnswerIsAlone
    <3>2. n.kind \in {"refresh", "revoke"} => ~Live(n.token)
      <4> SUFFICES ASSUME n.kind \in {"refresh", "revoke"}, Live(n.token)
                   PROVE  FALSE
        OBVIOUS
      <4>1. n.token = held[m.code] /\ n.token # None
        BY <2>3 DEF ClientsInv, WireInv, ClientsTypeOK
      <4> QED
        BY <4>1, GoodAnswerIsAlone
    <3> QED
      BY <3>1, <3>2
  <2> QED
    BY <2>2, <2>3
<1>6. ASSUME NEW c \in Codes, c # m.code
      PROVE  held'[c] = held[c] /\ Under(c)' = Under(c)
  BY <1>2, <1>3, <1>6 DEF Under
<1>7. /\ held'[m.code] = m.token /\ Live(m.token)
      /\ m.code \notin lost /\ m.code \notin cleanly /\ m.code \in Codes
  BY <1>3, GoodAnswerIsAlone
<1>8. SessionInv'
  <2> SUFFICES ASSUME NEW c \in Codes
               PROVE  /\ held'[c] # None /\ c \notin lost \cup left =>
                           Live(held'[c]) \/ \E n \in Under(c)' : Good(n)
                      /\ c \in lost => /\ \E r \in RefreshTokens : lineage[r] = c
                                       /\ held'[c] # None => ~Live(held'[c])
                                       /\ \A n \in Under(c)' : ~Good(n)
                      /\ c \in cleanly =>
                           /\ c \notin lost
                           /\ \A n \in Under(c)' : \/ n.kind = "revoke" /\ n.token = held'[c]
                                                   \/ n.kind = "answer" /\ n.token = None
    BY <1>1 DEF SessionInv, Live
  <2>1. CASE c = m.code
    BY <1>7, <2>1
  <2>2. CASE c # m.code
    BY <1>6, <2>2 DEF ClientsInv, SessionInv
  <2> QED
    BY <2>1, <2>2
<1>9. LiveTokenIsKnown'
  <2> SUFFICES ASSUME NEW c \in Codes
               PROVE  /\ \A r \in {held'[c]} \cup {n.token : n \in Under(c)'} :
                            r # None => lineage[r] = c
                      /\ \A r \in RefreshTokens : Live(r) /\ lineage[r] = c =>
                           held'[c] = r \/ c \in lost
                             \/ \E n \in Under(c)' : n.kind = "answer" /\ n.token = r
                      /\ held'[c] # None /\ Under(c)' = {} /\ c \notin lost \cup left =>
                           Live(held'[c])
    BY <1>1 DEF LiveTokenIsKnown, Live, Quiet
  <2>1. CASE c = m.code
    <3>1. \A n \in Under(c)' : n.token # None => lineage[n.token] = c
      BY <1>2 DEF ClientsInv, LiveTokenIsKnown
    <3> QED
      BY <1>7, <2>1, <3>1, GoodAnswerIsAlone
  <2>2. CASE c # m.code
    BY <1>6, <2>2 DEF ClientsInv, LiveTokenIsKnown, Quiet
  <2> QED
    BY <2>1, <2>2
<1> QED
  BY <1>4, <1>5, <1>8, <1>9

(* A good answer that is lost: nobody knows a live token of the session.   *)
LEMMA LoseStep ==
  ASSUME ClientsInv, NEW m \in wire, Good(m), wire' = wire \ {m},
         lost' = lost \cup {m.code}, UNCHANGED <<vars, held, left, cleanly>>
  PROVE  ClientsTypeOK' /\ LiveTokenIsKnown' /\ WireInv' /\ SessionInv'
<1>1. UNCHANGED <<refresh_tokens, lineage, held, left, cleanly>>
  BY DEF vars, tables, history
<1>2. \A c \in Codes : Under(c)' = Under(c) \ {m}
  BY DEF Under
<1>3. ClientsTypeOK'
  BY <1>1, GoodAnswerIsAlone DEF ClientsInv, ClientsTypeOK
<1>4. WireInv'
  BY <1>1 DEF ClientsInv, WireInv, Live
<1>5. ASSUME NEW c \in Codes, c # m.code
      PROVE  Under(c)' = Under(c) /\ (c \in lost' <=> c \in lost)
  BY <1>2, <1>5 DEF Under
<1>6. /\ m.code \in Codes /\ m.code \in lost' /\ m.code \notin cleanly
      /\ \E r \in RefreshTokens : lineage[r] = m.code
      /\ held[m.code] # None => ~Live(held[m.code])
      /\ \A n \in Under(m.code)' : ~Good(n)
  BY <1>2, GoodAnswerIsAlone
<1>7. SessionInv'
  <2> SUFFICES ASSUME NEW c \in Codes
               PROVE  /\ held[c] # None /\ c \notin lost' \cup left =>
                           Live(held[c]) \/ \E n \in Under(c)' : Good(n)
                      /\ c \in lost' => /\ \E r \in RefreshTokens : lineage[r] = c
                                        /\ held[c] # None => ~Live(held[c])
                                        /\ \A n \in Under(c)' : ~Good(n)
                      /\ c \in cleanly =>
                           /\ c \notin lost'
                           /\ \A n \in Under(c)' : \/ n.kind = "revoke" /\ n.token = held[c]
                                                   \/ n.kind = "answer" /\ n.token = None
    BY <1>1 DEF SessionInv, Live
  <2>1. CASE c = m.code
    BY <1>6, <2>1
  <2>2. CASE c # m.code
    BY <1>5, <2>2 DEF ClientsInv, SessionInv
  <2> QED
    BY <2>1, <2>2
<1>8. LiveTokenIsKnown'
  <2> SUFFICES ASSUME NEW c \in Codes
               PROVE  /\ \A r \in {held[c]} \cup {n.token : n \in Under(c)'} :
                            r # None => lineage[r] = c
                      /\ \A r \in RefreshTokens : Live(r) /\ lineage[r] = c =>
                           held[c] = r \/ c \in lost'
                             \/ \E n \in Under(c)' : n.kind = "answer" /\ n.token = r
                      /\ held[c] # None /\ Under(c)' = {} /\ c \notin lost' \cup left =>
                           Live(held[c])
    BY <1>1 DEF LiveTokenIsKnown, Live, Quiet
  <2>1. CASE c = m.code
    BY <1>2, <1>6, <2>1 DEF ClientsInv, LiveTokenIsKnown
  <2>2. CASE c # m.code
    BY <1>5, <2>2 DEF ClientsInv, LiveTokenIsKnown, Quiet
  <2> QED
    BY <2>1, <2>2
<1> QED
  BY <1>3, <1>4, <1>7, <1>8

(* A request that gets no token: a revocation takes the token its session  *)
(* holds away, and nothing else changes.                                   *)
LEMMA ServeNoneStep ==
  ASSUME ClientsInv, NEW m \in wire, m.kind \in Kinds, IssuesNone(m),
         UNCHANGED client
  PROVE  ClientsTypeOK' /\ LiveTokenIsKnown' /\ WireInv' /\ SessionInv'
<1> DEFINE a == Message("answer", m.code, m.try, None)
<1>1. /\ a.kind = "answer" /\ a.code = m.code /\ a.token = None
      /\ wire' = (wire \ {m}) \cup {a}
  BY DEF IssuesNone, Message
<1> HIDE DEF a
<1>2. UNCHANGED <<lineage, held, lost, left, cleanly>>
  BY DEF IssuesNone, client
<1>3. /\ m.code \in Codes /\ m \in Under(m.code) /\ ~Good(m) /\ ~Good(a)
      /\ m.kind = "revoke" => /\ m.token \in RefreshTokens /\ lineage[m.token] = m.code
                              /\ m.code \in left
  BY <1>1, TokenAssumption
     DEF ClientsInv, ClientsTypeOK, LiveTokenIsKnown, Under, Good, Kinds
<1>4. ClientsTypeOK'
  BY <1>1, <1>2, <1>3 DEF ClientsInv, ClientsTypeOK
<1>5. \A c \in Codes : Under(c)' = (Under(c) \ {m}) \cup (IF c = m.code THEN {a} ELSE {})
  BY <1>1 DEF Under
<1>6. \A s \in RefreshTokens :
        /\ Live(s)' => Live(s)
        /\ Live(s) /\ ~Live(s)' => m.kind = "revoke" /\ s = m.token
  BY DEF IssuesNone
<1>7. ASSUME NEW n \in wire, Good(n)
      PROVE  Live(n.token)'
  <2>1. /\ n.code \in Codes /\ n \in Under(n.code) /\ n.token \in RefreshTokens
        /\ Live(n.token) /\ n # m
    BY <1>3, <1>7, GoodAnswerIsAlone DEF Under
  <2>2. n.token # m.token
    BY <1>7, <2>1 DEF ClientsInv, WireInv
  <2> QED
    BY <1>6, <2>1, <2>2
<1>8. WireInv'
  <2> SUFFICES ASSUME NEW n \in wire'
               PROVE  /\ Good(n) => /\ Live(n.token)' /\ held[n.code] # n.token
                                    /\ \A o \in wire' : o.token = n.token => o = n
                      /\ n.kind \in {"refresh", "revoke"} /\ Live(n.token)' =>
                           held[n.code] = n.token
    BY <1>2 DEF WireInv
  <2>1. CASE n = a
    BY <1>1, <1>3, <2>1
  <2>2. CASE n \in wire
    <3>1. n.kind \in {"refresh", "revoke"} => n.token \in RefreshTokens
      BY <2>2 DEF ClientsInv, ClientsTypeOK
    <3>2. Good(n) => n.token # None
      BY DEF Good
    <3>3. Good(n) => /\ Live(n.token)' /\ held[n.code] # n.token
                     /\ \A o \in wire : o.token = n.token => o = n
      BY <1>7, <2>2 DEF ClientsInv, WireInv
    <3>4. n.kind \in {"refresh", "revoke"} /\ Live(n.token)' => held[n.code] = n.token
      BY <1>6, <2>2, <3>1 DEF ClientsInv, WireInv
    <3> QED
      BY <1>1, <3>2, <3>3, <3>4
  <2> QED
    BY <1>1, <2>1, <2>2
<1>9. ASSUME NEW c \in Codes, held[c] # None, c \notin lost \cup left, Live(held[c])
      PROVE  Live(held[c])'
  <2>1. held[c] \in RefreshTokens /\ lineage[held[c]] = c
    BY <1>9 DEF ClientsInv, ClientsTypeOK, LiveTokenIsKnown
  <2> QED
    BY <1>2, <1>3, <1>6, <1>9, <2>1
<1>10. ASSUME NEW c \in Codes
       PROVE  \A n \in Under(c) : Good(n) => n \in Under(c)'
  BY <1>3, <1>5
<1>11. SessionInv'
  <2> SUFFICES ASSUME NEW c \in Codes
               PROVE  /\ held[c] # None /\ c \notin lost \cup left =>
                           Live(held[c])' \/ \E n \in Under(c)' : Good(n)
                      /\ c \in lost => /\ \E r \in RefreshTokens : lineage[r] = c
                                       /\ held[c] # None => ~Live(held[c])'
                                       /\ \A n \in Under(c)' : ~Good(n)
                      /\ c \in cleanly =>
                           /\ c \notin lost
                           /\ \A n \in Under(c)' : \/ n.kind = "revoke" /\ n.token = held[c]
                                                   \/ n.kind = "answer" /\ n.token = None
    BY <1>2 DEF SessionInv
  <2>1. held[c] # None /\ c \notin lost \cup left =>
          Live(held[c])' \/ \E n \in Under(c)' : Good(n)
    BY <1>9, <1>10 DEF ClientsInv, SessionInv
  <2>2. ASSUME c \in lost
        PROVE  /\ \E r \in RefreshTokens : lineage[r] = c
               /\ held[c] # None => ~Live(held[c])'
               /\ \A n \in Under(c)' : ~Good(n)
    <3>1. /\ \E r \in RefreshTokens : lineage[r] = c
          /\ held[c] # None => ~Live(held[c])
          /\ \A n \in Under(c) : ~Good(n)
      BY <2>2 DEF ClientsInv, SessionInv
    <3>2. \A n \in Under(c)' : n \in Under(c) \/ n = a
      BY <1>5
    <3>3. held[c] # None => held[c] \in RefreshTokens
      BY DEF ClientsInv, ClientsTypeOK
    <3> QED
      BY <1>2, <1>3, <1>6, <3>1, <3>2, <3>3
  <2>3. c \in cleanly => /\ c \notin lost
                         /\ \A n \in Under(c)' : \/ n.kind = "revoke" /\ n.token = held[c]
                                                 \/ n.kind = "answer" /\ n.token = None
    BY <1>1, <1>5 DEF ClientsInv, SessionInv
  <2> QED
    BY <2>1, <2>2, <2>3
<1>12. LiveTokenIsKnown'
  <2> SUFFICES ASSUME NEW c \in Codes
               PROVE  /\ \A r \in {held[c]} \cup {n.token : n \in Under(c)'} :
                            r # None => lineage[r] = c
                      /\ \A r \in RefreshTokens : Live(r)' /\ lineage[r] = c =>
                           held[c] = r \/ c \in lost
                             \/ \E n \in Under(c)' : n.kind = "answer" /\ n.token = r
                      /\ held[c] # None /\ Under(c)' = {} /\ c \notin lost \cup left =>
                           Live(held[c])'
    BY <1>2 DEF LiveTokenIsKnown, Quiet
  <2>1. \A r \in {held[c]} \cup {n.token : n \in Under(c)'} : r # None => lineage[r] = c
    BY <1>1, <1>5 DEF ClientsInv, LiveTokenIsKnown
  <2>2. ASSUME NEW r \in RefreshTokens, Live(r)', lineage[r] = c, held[c] # r, c \notin lost
        PROVE  \E n \in Under(c)' : n.kind = "answer" /\ n.token = r
    <3>1. PICK n \in Under(c) : n.kind = "answer" /\ n.token = r
      BY <1>6, <2>2 DEF ClientsInv, LiveTokenIsKnown
    <3>2. Good(n)
      BY <2>2, <3>1, TokenAssumption DEF Good
    <3> QED
      BY <1>10, <3>1, <3>2
  <2>3. ASSUME held[c] # None, Under(c)' = {}, c \notin lost \cup left
        PROVE  Live(held[c])'
    <3>1. \A n \in Under(c) : ~Good(n)
      BY <1>10, <2>3
    <3>2. Live(held[c])
      BY <2>3, <3>1 DEF ClientsInv, SessionInv
    <3> QED
      BY <1>9, <2>3, <3>2
  <2> QED
    BY <2>1, <2>2, <2>3
<1> QED
  BY <1>4, <1>8, <1>11, <1>12

(* What issuing a token says of the state before: the session has lost     *)
(* nothing, has not left cleanly, and no live token of it is under way.    *)
LEMMA IssuerIsOpen ==
  ASSUME ClientsInv, NEW m \in wire, NEW r \in RefreshTokens, Issues(m, r)
  PROVE  /\ m.code \in Codes /\ m \in Under(m.code)
         /\ m.code \notin lost /\ m.code \notin cleanly
         /\ \A n \in Under(m.code) : ~Good(n)
         /\ \A s \in RefreshTokens : Live(s)' /\ lineage[s] = m.code => s = r
<1>1. m.code \in Codes /\ m \in Under(m.code)
  BY DEF ClientsInv, ClientsTypeOK, Under
<1>2. CASE m.kind = "exchange" /\ authorization_codes[m.code] # None
  <2>1. \A s \in RefreshTokens : lineage[s] # m.code
    BY <1>1, <1>2 DEF ClientsInv, GrantInv, TokensOnlyFromSpentCodes
  <2>2. m.code \notin lost /\ m.code \notin cleanly
    BY <1>1, <1>2, <2>1 DEF ClientsInv, SessionInv
  <2>3. \A n \in Under(m.code) : ~Good(n)
    BY <2>1, GoodAnswerIsAlone DEF Under
  <2> QED
    BY <1>1, <2>1, <2>2, <2>3
<1>3. CASE m.kind = "refresh" /\ Live(m.token)
  <2>1. m.token \in RefreshTokens /\ m.token # None /\ lineage[m.token] = m.code
    BY <1>1, <1>3, TokenAssumption DEF ClientsInv, ClientsTypeOK, LiveTokenIsKnown
  <2>2. held[m.code] = m.token
    BY <1>3 DEF ClientsInv, WireInv
  <2>3. m.code \notin lost /\ m.code \notin cleanly
    BY <1>1, <1>3, <2>1, <2>2 DEF ClientsInv, SessionInv
  <2>4. \A n \in Under(m.code) : ~Good(n)
    BY <1>3, <2>1, <2>2, GoodAnswerIsAlone DEF Under
  <2>5. \A s \in RefreshTokens : Live(s) /\ lineage[s] = m.code => s = m.token
    BY <1>1, <1>3, <2>1 DEF ClientsInv, GrantInv, OneRefreshTokenPerCode
  <2> QED
    <3>1. /\ \A s \in RefreshTokens : Live(s)' => Live(s) \/ s = r
          /\ ~Live(m.token)'
      BY <1>3 DEF Issues
    <3>2. \A s \in RefreshTokens : Live(s)' /\ lineage[s] = m.code => s = r
      BY <2>5, <3>1
    <3> QED
      BY <1>1, <2>3, <2>4, <3>2
<1> QED
  BY <1>2, <1>3 DEF Issues

(* A request that gets a token: the answer is the one place it is known.   *)
LEMMA ServeIssueStep ==
  ASSUME ClientsInv, NEW m \in wire, m.kind \in Kinds,
         NEW r \in RefreshTokens, Issues(m, r), UNCHANGED client
  PROVE  ClientsTypeOK' /\ LiveTokenIsKnown' /\ WireInv' /\ SessionInv'
<1> DEFINE a == Message("answer", m.code, m.try, r)
<1>1. /\ a.kind = "answer" /\ a.code = m.code /\ a.token = r
      /\ wire' = (wire \ {m}) \cup {a}
  BY DEF Issues, Message
<1> HIDE DEF a
<1>2. /\ UNCHANGED <<held, lost, left, cleanly>>
      /\ lineage \in [RefreshTokens -> Grants \cup {None}]
      /\ lineage[r] = None /\ lineage' = [lineage EXCEPT ![r] = m.code]
      /\ Live(r)' /\ \A s \in RefreshTokens : Live(s)' => Live(s) \/ s = r
  BY DEF Issues, client, ClientsInv, GrantInv, TypeOK
<1>3. /\ m.code \in Codes /\ m \in Under(m.code) /\ m.code \notin lost
      /\ m.code \notin cleanly /\ ~Good(m) /\ Good(a)
      /\ \A n \in Under(m.code) : ~Good(n)
  BY <1>1, IssuerIsOpen, TokenAssumption DEF Good
<1>4. ClientsTypeOK'
  BY <1>1, <1>2, <1>3 DEF ClientsInv, ClientsTypeOK
<1>5. \A c \in Codes : c # m.code => Under(c)' = Under(c)
  BY <1>1 DEF Under
<1>6. a \in Under(m.code)' /\ \A n \in Under(m.code)' : n = a \/ n \in Under(m.code)
  BY <1>1 DEF Under
(* r is new: nobody has it, and every other token keeps its line.          *)
<1>7. /\ \A c \in Codes : held[c] # r
      /\ \A n \in wire : n.token # r
  <2>1. \A c \in Codes : lineage[r] # c
    BY <1>2, NoneAssumption DEF Grants
  <2>2. r # None
    BY TokenAssumption
  <2>3. \A c \in Codes : held[c] # r
    BY <2>1, <2>2 DEF ClientsInv, LiveTokenIsKnown
  <2>4. \A n \in wire : n.code \in Codes /\ n \in Under(n.code)
    BY DEF ClientsInv, ClientsTypeOK, Under
  <2>5. \A n \in wire : n.token # r
    BY <2>1, <2>2, <2>4 DEF ClientsInv, LiveTokenIsKnown
  <2> QED
    BY <2>3, <2>5
<1>8. lineage'[r] = m.code /\ \A s \in RefreshTokens : s # r => lineage'[s] = lineage[s]
  BY <1>2
(* Another line loses nothing.                                             *)
<1>9. ASSUME NEW s \in RefreshTokens, Live(s), lineage[s] # m.code
      PROVE  Live(s)'
  <2>1. m.kind = "refresh" => m.token # None /\ m.token \in RefreshTokens
    BY TokenAssumption DEF ClientsInv, ClientsTypeOK
  <2>2. m.kind = "refresh" => lineage[m.token] = m.code
    BY <1>3, <2>1 DEF ClientsInv, LiveTokenIsKnown
  <2> QED
    BY <1>9, <2>2 DEF Issues
<1>10. WireInv'
  <2> SUFFICES ASSUME NEW n \in wire'
               PROVE  /\ Good(n) => /\ Live(n.token)' /\ held[n.code] # n.token
                                    /\ \A o \in wire' : o.token = n.token => o = n
                      /\ n.kind \in {"refresh", "revoke"} /\ Live(n.token)' =>
                           held[n.code] = n.token
    BY <1>2 DEF WireInv
  <2>1. CASE n = a
    BY <1>1, <1>2, <1>3, <1>7, <2>1
  <2>2. CASE n \in wire
    <3>1. n.kind \in {"refresh", "revoke"} => n.token \in RefreshTokens
      BY <2>2 DEF ClientsInv, ClientsTypeOK
    <3>2. ASSUME Good(n)
          PROVE  /\ Live(n.token)' /\ held[n.code] # n.token
                 /\ \A o \in wire : o.token = n.token => o = n
      <4>1. /\ n.code # m.code /\ n.token \in RefreshTokens
            /\ lineage[n.token] = n.code /\ Live(n.token)
        BY <1>3, <2>2, <3>2, GoodAnswerIsAlone DEF Under
      <4> QED
        BY <1>9, <2>2, <3>2, <4>1 DEF ClientsInv, WireInv
    <3>3. n.kind \in {"refresh", "revoke"} /\ Live(n.token)' => held[n.code] = n.token
      BY <1>2, <1>7, <2>2, <3>1 DEF ClientsInv, WireInv
    <3> QED
      BY <1>1, <1>7, <2>2, <3>2, <3>3
  <2> QED
    BY <1>1, <2>1, <2>2
<1>11. \A c \in Codes : held[c] # None =>
         held[c] \in RefreshTokens /\ held[c] # r /\ lineage[held[c]] = c
  BY <1>7 DEF ClientsInv, ClientsTypeOK, LiveTokenIsKnown
<1>12. SessionInv'
  <2> SUFFICES ASSUME NEW c \in Codes
               PROVE  /\ held[c] # None /\ c \notin lost \cup left =>
                           Live(held[c])' \/ \E n \in Under(c)' : Good(n)
                      /\ c \in lost => /\ \E s \in RefreshTokens : lineage'[s] = c
                                       /\ held[c] # None => ~Live(held[c])'
                                       /\ \A n \in Under(c)' : ~Good(n)
                      /\ c \in cleanly =>
                           /\ c \notin lost
                           /\ \A n \in Under(c)' : \/ n.kind = "revoke" /\ n.token = held[c]
                                                   \/ n.kind = "answer" /\ n.token = None
    BY <1>2 DEF SessionInv
  <2>1. CASE c = m.code
    BY <1>3, <1>6, <2>1
  <2>2. CASE c # m.code
    <3>1. held[c] # None => (Live(held[c])' <=> Live(held[c]))
      BY <1>2, <1>9, <1>11, <2>2
    <3>2. c \in lost => \E s \in RefreshTokens : lineage'[s] = c
      <4> SUFFICES ASSUME c \in lost
                   PROVE  \E s \in RefreshTokens : lineage'[s] = c
        OBVIOUS
      <4>1. PICK s \in RefreshTokens : lineage[s] = c
        BY DEF ClientsInv, SessionInv
      <4>2. s # r
        BY <1>2, <4>1, NoneAssumption DEF Grants
      <4> QED
        BY <1>8, <4>1, <4>2
    <3> QED
      BY <1>5, <2>2, <3>1, <3>2 DEF ClientsInv, SessionInv
  <2> QED
    BY <2>1, <2>2
<1>13. LiveTokenIsKnown'
  <2> SUFFICES ASSUME NEW c \in Codes
               PROVE  /\ \A s \in {held[c]} \cup {n.token : n \in Under(c)'} :
                            s # None => lineage'[s] = c
                      /\ \A s \in RefreshTokens : Live(s)' /\ lineage'[s] = c =>
                           held[c] = s \/ c \in lost
                             \/ \E n \in Under(c)' : n.kind = "answer" /\ n.token = s
                      /\ held[c] # None /\ Under(c)' = {} /\ c \notin lost \cup left =>
                           Live(held[c])'
    BY <1>2 DEF LiveTokenIsKnown, Quiet
  <2>1. held[c] # None => lineage'[held[c]] = c
    BY <1>8, <1>11
  <2>2. ASSUME NEW n \in Under(c)', n.token # None
        PROVE  lineage'[n.token] = c
    <3>1. CASE n \in Under(c)
      <4>1. /\ n.token \in RefreshTokens /\ n.token # r /\ lineage[n.token] = c
        BY <1>7, <2>2, <3>1 DEF Under, ClientsInv, ClientsTypeOK, LiveTokenIsKnown
      <4> QED
        BY <1>8, <4>1
    <3>2. CASE n = a /\ c = m.code
      BY <1>1, <1>8, <3>2
    <3> QED
      BY <1>5, <1>6, <2>2, <3>1, <3>2
  <2>3. CASE c = m.code
    <3>1. \A s \in RefreshTokens : Live(s)' /\ lineage'[s] = c => s = r
      BY <1>8, <2>3, IssuerIsOpen
    <3> QED
      BY <1>1, <1>6, <2>1, <2>2, <2>3, <3>1
  <2>4. CASE c # m.code
    <3>1. \A s \in RefreshTokens : Live(s)' /\ lineage'[s] = c => Live(s) /\ lineage[s] = c
      BY <1>2, <1>8, <2>4
    <3>2. \A s \in RefreshTokens : Live(s)' /\ lineage'[s] = c =>
            held[c] = s \/ c \in lost
              \/ \E n \in Under(c)' : n.kind = "answer" /\ n.token = s
      BY <1>5, <2>4, <3>1 DEF ClientsInv, LiveTokenIsKnown
    <3>3. held[c] # None /\ Under(c)' = {} /\ c \notin lost \cup left => Live(held[c])'
      BY <1>2, <1>5, <1>9, <1>11, <2>4 DEF ClientsInv, LiveTokenIsKnown, Quiet
    <3> QED
      BY <2>1, <2>2, <3>2, <3>3
  <2> QED
    BY <2>3, <2>4
<1> QED
  BY <1>4, <1>10, <1>12, <1>13

(* ClientsInv is inductive over every step of sessions, server and network. *)
LEMMA ClientsStep == ClientsInv /\ [ClientsNext]_clientVars => ClientsInv'
<1> SUFFICES ASSUME ClientsInv, [ClientsNext]_clientVars
             PROVE  ClientsInv'
  OBVIOUS
<1>1. GrantInv'
  BY ServerStep, GrantStep DEF ClientsInv
<1>2. CodesAreApps'
  BY CodesAreAppsStep
<1> SUFFICES ClientsTypeOK' /\ LiveTokenIsKnown' /\ WireInv' /\ SessionInv'
  BY <1>1, <1>2 DEF ClientsInv
<1>3. ASSUME NEW m \in wire, Serve(m)
      PROVE  ClientsTypeOK' /\ LiveTokenIsKnown' /\ WireInv' /\ SessionInv'
  BY <1>3, ServeCases, ServeNoneStep, ServeIssueStep DEF Serve
<1>4. CASE Receive
  <2>1. PICK m \in wire :
          /\ m.kind = "answer" /\ wire' = wire \ {m}
          /\ held' = IF m.token = None THEN held ELSE [held EXCEPT ![m.code] = m.token]
    BY <1>4 DEF Receive
  <2>2. UNCHANGED <<vars, lost, left, cleanly>>
    BY <1>4 DEF Receive
  <2>3. CASE Good(m)
    BY <2>1, <2>2, <2>3, TakeStep DEF Good
  <2>4. CASE ~Good(m)
    BY <2>1, <2>2, <2>4, DropStep DEF Good, client
  <2> QED
    BY <2>3, <2>4
<1>5. CASE Lose
  <2>1. PICK m \in wire :
          /\ wire' = wire \ {m}
          /\ lost' = IF Good(m) THEN lost \cup {m.code} ELSE lost
    BY <1>5 DEF Lose, Good
  <2>2. UNCHANGED <<vars, held, left, cleanly>>
    BY <1>5 DEF Lose
  <2>3. CASE Good(m)
    BY <2>1, <2>2, <2>3, LoseStep
  <2>4. CASE ~Good(m)
    BY <2>1, <2>2, <2>4, DropStep DEF client
  <2> QED
    BY <2>3, <2>4
<1>6. CASE UNCHANGED clientVars
  <2>1. UNCHANGED <<refresh_tokens, lineage, held, wire, lost, left, cleanly>>
    BY <1>6 DEF clientVars, vars, tables, history, client
  <2> QED
    BY <2>1 DEF ClientsInv, ClientsTypeOK, LiveTokenIsKnown, WireInv, SessionInv, Under, Live, Quiet
<1> QED
  BY <1>3, <1>4, <1>5, <1>6, BeginStep, SendStep DEF ClientsNext

(***************************************************************************)
(* Theorems                                                                *)
(***************************************************************************)

(* ClientsInv holds in every reachable state, with GrantInv: the server    *)
(* keeps its promises to these clients too.                                *)
THEOREM ClientsInvariant == ClientsSpec => []ClientsInv
<1>1. ClientsInit => ClientsInv
  <2> SUFFICES ASSUME ClientsInit
               PROVE  ClientsInv
    OBVIOUS
  <2>1. GrantInv /\ ClientsTypeOK /\ CodesAreApps /\ WireInv /\ SessionInv
    BY GrantInit DEF ClientsInit, Init, ClientsTypeOK, CodesAreApps, WireInv, SessionInv
  <2>2. LiveTokenIsKnown
    BY DEF ClientsInit, Init, LiveTokenIsKnown, Live, Under
  <2> QED
    BY <2>1, <2>2 DEF ClientsInv
<1> QED
  BY <1>1, ClientsStep, PTL DEF ClientsSpec

(* The provider behind the wire is the one OAuthMock describes, so that    *)
(* all its theorems hold of what these sessions do to it.                  *)
THEOREM ClientsUseTheMock == ClientsSpec => Spec
<1>1. ClientsInit => Init
  BY DEF ClientsInit
<1>2. ClientsInv => ClientsTypeOK
  BY DEF ClientsInv
<1>3. ClientsTypeOK /\ [ClientsNext]_clientVars => [Next]_vars
  BY ServerStep
<1> QED
  BY <1>1, <1>2, <1>3, ClientsInvariant, PTL DEF ClientsSpec, Spec

(* No session ever holds or is sent a token that is out of date without    *)
(* the live one being on its way to it, or lost.                           *)
THEOREM TheLiveTokenIsKnown == ClientsSpec => []LiveTokenIsKnown
<1>1. ClientsInv => LiveTokenIsKnown
  BY DEF ClientsInv
<1> QED
  BY <1>1, ClientsInvariant, PTL

(* The line of a session that has lost a good answer never grows again.    *)
THEOREM LossEndsTheLine == ClientsSpec => LossIsFinal
<1>1. ClientsInv /\ [ClientsNext]_clientVars =>
        [\A c \in lost, r \in RefreshTokens : lineage[r] # c => lineage'[r] # c]_clientVars
  <2> SUFFICES ASSUME ClientsInv, ClientsNext, NEW c \in lost, NEW r \in RefreshTokens,
                      lineage[r] # c
               PROVE  lineage'[r] # c
    OBVIOUS
  <2>1. ASSUME NEW m \in wire, Serve(m)
        PROVE  lineage'[r] # c
    <3>1. CASE IssuesNone(m)
      BY <3>1 DEF IssuesNone
    <3>2. ASSUME NEW s \in RefreshTokens, Issues(m, s)
          PROVE  lineage'[r] # c
      <4>1. m.code # c
        BY <3>2, IssuerIsOpen
      <4>2. lineage' = [lineage EXCEPT ![s] = m.code] /\ lineage \in [RefreshTokens -> Grants \cup {None}]
        BY <3>2 DEF Issues, ClientsInv, GrantInv, TypeOK
      <4> QED
        BY <4>1, <4>2
    <3> QED
      BY <2>1, <3>1, <3>2, ServeCases
  <2>2. (\E d \in Codes : Begin(d) \/ SendExchange(d) \/ SendRefresh(d) \/ SendRevoke(d))
          \/ Receive \/ Lose => UNCHANGED lineage
    BY DEF Begin, Authorize, SendExchange, SendRefresh, SendRevoke, Send, Receive, Lose, vars, history
  <2> QED
    BY <2>1, <2>2 DEF ClientsNext
<1> QED
  BY <1>1, ClientsInvariant, PTL DEF ClientsSpec, LossIsFinal

(* The revocation a session sends with nothing under way, once it arrives, *)
(* takes away the last live token of its line.                             *)
THEOREM CleanLeavesEndTheirLine == ClientsSpec => CleanLeaveEndsTheLine
<1>1. ClientsInv /\ [ClientsNext]_clientVars =>
        [\A m \in wire : Serve(m) /\ m.kind = "revoke" /\ m.code \in cleanly =>
           \A r \in RefreshTokens : lineage[r] = m.code => ~Live(r)']_clientVars
  <2> SUFFICES ASSUME ClientsInv, NEW m \in wire, Serve(m), m.kind = "revoke", m.code \in cleanly,
                      NEW r \in RefreshTokens, lineage[r] = m.code, Live(r)'
               PROVE  FALSE
    OBVIOUS
  <2>1. IssuesNone(m)
    <3>1. \A s \in RefreshTokens : ~Issues(m, s)
      BY DEF Issues
    <3> QED
      BY <3>1, ServeCases
  <2>2. Live(r) /\ r # m.token
    BY <2>1 DEF IssuesNone
  <2>3. /\ m.code \in Codes /\ m \in Under(m.code) /\ m.code \notin lost
        /\ \A n \in Under(m.code) : \/ n.kind = "revoke" /\ n.token = held[m.code]
                                    \/ n.kind = "answer" /\ n.token = None
    BY DEF ClientsInv, ClientsTypeOK, SessionInv, Under
  <2>4. held[m.code] = r
    <3>1. held[m.code] = r \/ \E n \in Under(m.code) : n.kind = "answer" /\ n.token = r
      BY <2>2, <2>3 DEF ClientsInv, LiveTokenIsKnown
    <3> QED
      BY <2>3, <3>1, TokenAssumption
  <2> QED
    BY <2>2, <2>3, <2>4
<1> QED
  BY <1>1, ClientsInvariant, PTL DEF ClientsSpec, CleanLeaveEndsTheLine
=============================================================================
