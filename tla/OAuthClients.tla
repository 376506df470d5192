---------------------------- MODULE OAuthClients ----------------------------
(***************************************************************************)
(* Clients of the mock provider behind a network that loses and reorders   *)
(* messages: the server of OAuthMock with its /token and /revoke handlers  *)
(* unchanged, and for every authorization code the session of the one app  *)
(* it was sent to.                                                         *)
(*                                                                         *)
(* A session sends what it holds, may send it again before the answer is   *)
(* there, and takes over the refresh token of every good answer, the only  *)
(* rule of tests/oauth.rs.  A message is lost, or arrives in any order.    *)
(***************************************************************************)
EXTENDS OAuthMock, FiniteSets

CONSTANTS
  App,      \* client of all sessions
  Uri,      \* its redirect URI
  Proof,    \* the verifier of all sessions
  Tries     \* bound: requests of a session that are under way

ASSUME AppAssumption ==
  /\ App \in Registered /\ Uri \in ParsableUris /\ Uri \in ClientConfig[App].redirect_uris
  /\ Proof \in Verifiers
ASSUME TokenAssumption == None \notin RefreshTokens

VARIABLES
  held,     \* Codes -> refresh token the session holds, None if none
  wire,     \* requests and answers under way
  lost,     \* sessions that have lost a good answer
  left,     \* sessions that have sent a revocation
  cleanly   \* those of left that had nothing under way, and had lost nothing, when they sent it

client == <<held, lost, left, cleanly>>
clientVars == <<vars, wire, client>>

Kinds == {"exchange", "refresh", "revoke"}
Message(kind, c, try, token) == [kind |-> kind, code |-> c, try |-> try, token |-> token]

Under(c) == {m \in wire : m.code = c}

ClientsInit ==
  /\ Init
  /\ held = [c \in Codes |-> None] /\ wire = {} /\ lost = {} /\ left = {} /\ cleanly = {}

(* The session begins: /authorize has answered with a code.                *)
Begin(c) ==
  /\ \E g \in AuthorizeGrants :
       /\ g.client_id = App /\ g.redirect_uri = Uri /\ g.code_challenge = S256[Proof]
       /\ Authorize(c, g)
  /\ UNCHANGED <<wire, client>>

Send(kind, c, token) ==
  /\ \E t \in Tries : /\ \A m \in Under(c) : m.try # t
                      /\ wire' = wire \cup {Message(kind, c, t, token)}
  /\ UNCHANGED <<vars, held, lost>>

SendExchange(c) ==
  /\ granted[c] # None /\ held[c] = None /\ c \notin left
  /\ Send("exchange", c, None) /\ UNCHANGED <<left, cleanly>>

SendRefresh(c) ==
  /\ held[c] # None /\ c \notin left
  /\ Send("refresh", c, held[c]) /\ UNCHANGED <<left, cleanly>>

(* The last request of a session, for the token it holds.                  *)
SendRevoke(c) ==
  /\ held[c] # None /\ c \notin left
  /\ Send("revoke", c, held[c])
  /\ left' = left \cup {c}
  /\ cleanly' = IF Under(c) = {} /\ c \notin lost THEN cleanly \cup {c} ELSE cleanly

FaultyHandleRevoke(m) ==      \* a revocation is answered and forgotten
  \/ m.kind = "exchange" /\ ExchangeCode(m.code, App, Uri, Proof)
  \/ m.kind = "refresh" /\ Refresh(m.token, App)
  \/ m.kind = "revoke" /\ Introspect(m.token)

Handle(m) ==
  \/ m.kind = "exchange" /\ ExchangeCode(m.code, App, Uri, Proof)
  \/ m.kind = "refresh" /\ Refresh(m.token, App)
  \/ m.kind = "revoke" /\ Revoke(m.token)

(* The refresh token of the answer.                                        *)
Issued == {r \in RefreshTokens : lineage[r] = None /\ lineage'[r] # None}

Serve(m) ==
  /\ m.kind \in Kinds /\ Handle(m)
  /\ wire' = (wire \ {m}) \cup
       {Message("answer", m.code, m.try, IF Issued = {} THEN None ELSE CHOOSE r \in Issued : TRUE)}
  /\ UNCHANGED client

Receive ==
  /\ \E m \in wire :
       /\ m.kind = "answer" /\ wire' = wire \ {m}
       /\ held' = IF m.token = None THEN held ELSE [held EXCEPT ![m.code] = m.token]
  /\ UNCHANGED <<vars, lost, left, cleanly>>

Lose ==
  /\ \E m \in wire :
       /\ wire' = wire \ {m}
       /\ lost' = IF m.kind = "answer" /\ m.token # None THEN lost \cup {m.code} ELSE lost
  /\ UNCHANGED <<vars, held, left, cleanly>>

ClientsNext ==
  \/ \E c \in Codes : Begin(c) \/ SendExchange(c) \/ SendRefresh(c) \/ SendRevoke(c)
  \/ \E m \in wire : Serve(m)
  \/ Receive \/ Lose

ClientsSpec == ClientsInit /\ [][ClientsNext]_clientVars

(***************************************************************************)
(* Properties                                                              *)
(***************************************************************************)

Quiet(c) == Under(c) = {}

(* However answers are delayed and requests repeated, none is out of date: *)
(* the live token of a line is the one its session holds, or on its way to *)
(* it, or was lost.  A session is never given a token of another line, and *)
(* one that has lost nothing and waits for nothing holds a live token      *)
(* until it gives it back.                                                 *)
LiveTokenIsKnown ==
  \A c \in Codes :
    /\ \A r \in {held[c]} \cup {m.token : m \in Under(c)} : r # None => lineage[r] = c
    /\ \A r \in RefreshTokens : Live(r) /\ lineage[r] = c =>
         held[c] = r \/ c \in lost \/ \E m \in Under(c) : m.kind = "answer" /\ m.token = r
    /\ held[c] # None /\ Quiet(c) /\ c \notin lost \cup left => Live(held[c])

(* A lost answer is the end of a session: the token of its line that still *)
(* lives is one that nobody knows, and whatever the session sends, again   *)
(* or late, brings it no other.                                            *)
LossIsFinal ==
  [][\A c \in lost, r \in RefreshTokens : lineage[r] # c => lineage'[r] # c]_clientVars

(* A session that leaves with nothing under way leaves no live token, once *)
(* its revocation has arrived; one that is still being refreshed may.      *)
CleanLeaveEndsTheLine ==
  [][\A m \in wire : Serve(m) /\ m.kind = "revoke" /\ m.code \in cleanly =>
       \A r \in RefreshTokens : lineage[r] = m.code => ~Live(r)']_clientVars

(***************************************************************************)
(* The inductive invariant behind them                                     *)
(***************************************************************************)

ClientsTypeOK ==
  /\ held \in [Codes -> RefreshTokens \cup {None}]
  /\ lost \subseteq Codes /\ left \subseteq Codes /\ cleanly \subseteq left
  /\ \A m \in wire :
       /\ m.code \in Codes /\ m.kind \in Kinds \cup {"answer"}
       /\ m.token \in RefreshTokens \cup {None}
       /\ m.kind \in {"refresh", "revoke"} => m.token # None
       /\ m.kind = "revoke" => m.code \in left

Good(m) == m.kind = "answer" /\ m.token # None

CodesAreApps ==
  \A c \in Codes : granted[c] # None =>
    /\ granted[c].client_id = App /\ granted[c].redirect_uri = Uri
    /\ granted[c].code_challenge = S256[Proof]

(* A good answer carries the live token of its line, which nobody else     *)
(* knows; a request carries a live token only while its session holds it.  *)
WireInv ==
  \A m \in wire :
    /\ Good(m) => /\ Live(m.token) /\ held[m.code] # m.token
                  /\ \A n \in wire : n.token = m.token => n = m
    /\ m.kind \in {"refresh", "revoke"} /\ Live(m.token) => held[m.code] = m.token

SessionInv ==
  \A c \in Codes :
    /\ held[c] # None /\ c \notin lost \cup left => Live(held[c]) \/ \E m \in Under(c) : Good(m)
    /\ c \in lost => /\ \E r \in RefreshTokens : lineage[r] = c
                     /\ held[c] # None => ~Live(held[c])
                     /\ \A m \in Under(c) : ~Good(m)
    /\ c \in cleanly =>
         /\ c \notin lost
         /\ \A m \in Under(c) : \/ m.kind = "revoke" /\ m.token = held[c]
                                \/ m.kind = "answer" /\ m.token = None

ClientsInv ==
  GrantInv /\ ClientsTypeOK /\ CodesAreApps /\ LiveTokenIsKnown /\ WireInv /\ SessionInv
=============================================================================
