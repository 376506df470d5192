----------------------------- MODULE MockServer -----------------------------
(***************************************************************************)
(* crates/oauth-mock/src/lib.rs: the life of a mock provider, from its     *)
(* builder to the end of its task, with the connections it serves.  What   *)
(* the handlers do to the tables is in OAuthMock; here a request asks for  *)
(* the discovery document or, with credentials, for a token.               *)
(*                                                                         *)
(* axum and hyper are external: a connection waits in the backlog until it *)
(* is accepted, and a handler is called with a whole request, of which a   *)
(* client may withhold a part of the head or of the form; at a graceful    *)
(* shutdown the listener closes, idle connections are closed, answers that *)
(* are under way are sent, and the rest of a request is waited for.        *)
(***************************************************************************)
EXTENDS Integers, Sequences

CONSTANTS
  Ids, Secrets,    \* client ids and secrets
  Default,         \* the client a new builder has: [id, secret]
  Connections,     \* connections that are made
  MaxCalls,        \* bound: calls of with_client
  None

(* What the parameters can be; Toolkit assumes it.                         *)
ServerAssumption ==
  /\ Default \in [id : Ids, secret : Secrets] /\ MaxCalls \in Nat
  /\ None \notin Ids \cup Secrets

VARIABLES
  calls,      \* history: clients in the order of their configuration
  clients,    \* the HashMap: id -> secret, None for an id that is not in it
  suffix,     \* has the issuer a suffix
  handle,     \* of the host: "builder", "spawning", "held", "dropped" or "error"
  first,      \* the client its HashMap yields first
  shutdown,   \* the sender: "none", "held", "sent"
  listener,   \* "none", "bound", "open" or "closed"
  task,       \* "none", "serving", "draining" or "ended"
  conn,       \* connection -> "none", "backlog", "idle", "arriving", "handling", "closed",
              \* "reset" or "left"
  request,    \* connection -> its last request, None before the first
  status,     \* connection -> status of its last answer, 0 before one
  known       \* has a discovery document been read

builder == <<calls, clients, suffix>>
server == <<handle, first, shutdown, listener, task>>
traffic == <<conn, request, status, known>>
vars == <<builder, server, traffic>>

Credentials == [id : Ids, secret : Secrets]

Init ==
  /\ calls = <<Default>> /\ suffix = FALSE
  /\ clients = [id \in Ids |-> IF id = Default.id THEN Default.secret ELSE None]
  /\ handle = "builder" /\ first = None
  /\ shutdown = "none" /\ listener = "none" /\ task = "none"
  /\ conn = [c \in Connections |-> "none"] /\ request = [c \in Connections |-> None]
  /\ status = [c \in Connections |-> 0] /\ known = FALSE

(***************************************************************************)
(* The host                                                                *)
(***************************************************************************)

WithClient(client) ==
  /\ handle = "builder" /\ Len(calls) <= MaxCalls
  /\ calls' = Append(calls, client)
  /\ clients' = [clients EXCEPT ![client.id] = client.secret]
  /\ UNCHANGED <<suffix, server, traffic>>

WithIssuerSuffix ==
  /\ handle = "builder" /\ suffix' = TRUE
  /\ UNCHANGED <<calls, clients, server, traffic>>

(* The kernel accepts connections from here on; nobody serves them yet.    *)
Bind ==
  /\ handle = "builder"
  /\ \/ handle' = "spawning" /\ listener' = "bound"
     \/ handle' = "error" /\ UNCHANGED listener
  /\ UNCHANGED <<builder, first, shutdown, task, traffic>>

FaultySpawn ==      \* the sender is not kept: `let (_, shutdown_rx)`
  /\ handle = "spawning"
  /\ handle' = "held" /\ listener' = "open" /\ shutdown' = "sent" /\ task' = "serving"
  /\ first' \in {id \in Ids : clients[id] # None}
  /\ UNCHANGED <<builder, traffic>>

(* Generating the keys can fail; the listener goes with the error.         *)
Spawn ==
  /\ handle = "spawning"
  /\ \/ /\ handle' = "held" /\ listener' = "open" /\ shutdown' = "held" /\ task' = "serving"
        /\ first' \in {id \in Ids : clients[id] # None}
        /\ UNCHANGED conn
     \/ /\ handle' = "error" /\ listener' = "closed"
        /\ conn' = [c \in Connections |-> IF conn[c] = "backlog" THEN "reset" ELSE conn[c]]
        /\ UNCHANGED <<shutdown, task, first>>
  /\ UNCHANGED <<builder, request, status, known>>

DropServer ==
  /\ handle = "held" /\ handle' = "dropped" /\ shutdown' = "sent"
  /\ UNCHANGED <<builder, first, listener, task, traffic>>

DefaultClient == [id |-> first, secret |-> clients[first]]

(***************************************************************************)
(* Clients of the server                                                   *)
(***************************************************************************)

Url(base, route) == [base |-> base, route |-> route]

(* The endpoints of a discovery document start with the issuer.            *)
Document == {Url("issuer", "token")}

(* A client knows base_url() and issuer() from the host.                   *)
Urls == {Url(base, "discovery") : base \in {"base_url", "issuer"}}
        \cup (IF known THEN Document ELSE {})

Connect(c) ==
  /\ conn[c] = "none" /\ listener \in {"bound", "open"}
  /\ conn' = [conn EXCEPT ![c] = "backlog"]
  /\ UNCHANGED <<builder, server, request, status, known>>

(* A part of a request is sent.                                            *)
Begin(c) ==
  /\ conn[c] = "idle" /\ conn' = [conn EXCEPT ![c] = "arriving"]
  /\ UNCHANGED <<builder, server, request, status, known>>

(* The request, or the rest of it, is sent.  The credentials are what      *)
(* default_client returns, or what was configured at some time.            *)
Send(c) ==
  /\ conn[c] \in {"idle", "arriving"} /\ conn' = [conn EXCEPT ![c] = "handling"]
  /\ \E url \in Urls, client \in {calls[i] : i \in DOMAIN calls} \cup {DefaultClient} :
       request' = [request EXCEPT ![c] = [url |-> url, client |-> client]]
  /\ UNCHANGED <<builder, server, status, known>>

(* The client closes the connection; hyper drops a handler that waits for  *)
(* the lock.                                                               *)
Leave(c) ==
  /\ conn[c] \in {"backlog", "idle", "arriving", "handling"}
  /\ conn' = [conn EXCEPT ![c] = "left"]
  /\ UNCHANGED <<builder, server, request, status, known>>

(***************************************************************************)
(* The task                                                                *)
(***************************************************************************)

Accept(c) ==
  /\ task = "serving" /\ conn[c] = "backlog"
  /\ conn' = [conn EXCEPT ![c] = "idle"]
  /\ UNCHANGED <<builder, server, request, status, known>>

(* The routes lie at the root, whatever the issuer.                        *)
Routed(url) == url.base = "base_url" \/ ~suffix

Handled(r) ==
  IF ~Routed(r.url) THEN 404
  ELSE IF r.url.route = "token" /\ clients[r.client.id] # r.client.secret THEN 401
  ELSE 200

Answer(c) ==
  /\ conn[c] = "handling"
  /\ status' = [status EXCEPT ![c] = Handled(request[c])]
  /\ known' = (known \/ (Handled(request[c]) = 200 /\ request[c].url.route = "discovery"))
  /\ conn' = [conn EXCEPT ![c] = IF task = "serving" THEN "idle" ELSE "closed"]
  /\ UNCHANGED <<builder, server, request>>

(* with_graceful_shutdown.  A connection that has been answered before is  *)
(* still idle for hyper while only a part of a head has come.              *)
Shutdown ==
  /\ task = "serving" /\ shutdown = "sent"
  /\ task' = "draining" /\ listener' = "closed"
  /\ \E cut \in SUBSET {c \in Connections : conn[c] = "arriving" /\ status[c] # 0} :
       conn' = [c \in Connections |-> CASE conn[c] = "backlog" -> "reset"
                                         [] conn[c] = "idle" \/ c \in cut -> "closed"
                                         [] OTHER -> conn[c]]
  /\ UNCHANGED <<builder, handle, first, shutdown, request, status, known>>

TaskEnds ==
  /\ task = "draining" /\ \A c \in Connections : conn[c] \notin {"arriving", "handling"}
  /\ task' = "ended"
  /\ UNCHANGED <<builder, handle, first, shutdown, listener, traffic>>

Next ==
  \/ \E client \in Credentials : WithClient(client)
  \/ WithIssuerSuffix \/ Bind \/ Spawn \/ DropServer \/ Shutdown \/ TaskEnds
  \/ \E c \in Connections :
       Connect(c) \/ Begin(c) \/ Send(c) \/ Leave(c) \/ Accept(c) \/ Answer(c)

(* The runtime polls the task, and the handlers of the requests that have  *)
(* come; nothing is fair about the host and the clients.                   *)
Fairness ==
  /\ WF_vars(Shutdown) /\ WF_vars(TaskEnds)
  /\ \A c \in Connections : WF_vars(Answer(c))

Spec == Init /\ [][Next]_vars /\ Fairness

(***************************************************************************)
(* Properties                                                              *)
(***************************************************************************)

(* The variables hold what the host, the task and a connection can be in;  *)
(* a spawn that fails leaves no listener.                                  *)
TypeOK ==
  /\ calls \in Seq(Credentials) /\ Len(calls) \in 1 .. MaxCalls + 1
  /\ clients \in [Ids -> Secrets \cup {None}] /\ suffix \in BOOLEAN
  /\ handle \in {"builder", "spawning", "held", "dropped", "error"}
  /\ handle = "error" => listener \in {"none", "closed"}
  /\ first = None \/ clients[first] # None
  /\ shutdown \in {"none", "held", "sent"} /\ listener \in {"none", "bound", "open", "closed"}
  /\ task \in {"none", "serving", "draining", "ended"} /\ known \in BOOLEAN
  /\ conn \in [Connections ->
        {"none", "backlog", "idle", "arriving", "handling", "closed", "reset", "left"}]
  /\ \A c \in Connections : request[c] # None => request[c].client \in Credentials
  /\ status \in [Connections -> {0, 200, 401, 404}]

(* While a test holds the MockServer, its task serves: the end of the task *)
(* comes from Drop alone, and nothing in spawn drops the sender early.     *)
ServesWhileHeld == handle = "held" => task = "serving" /\ listener = "open"

Answered(c) == conn[c] \in {"idle", "closed"} /\ status[c] # 0

Latest(id) ==
  LET last == CHOOSE i \in DOMAIN calls :
                calls[i].id = id /\ \A j \in DOMAIN calls : calls[j].id = id => j <= i
  IN  calls[last].secret

(* A token is given for exactly the secret an id was last configured with, *)
(* the default client's being replaceable too.                             *)
LastConfigurationCounts ==
  \A c \in Connections :
    Answered(c) /\ request[c].url.route = "token" /\ status[c] # 404 =>
      (status[c] = 200) = (request[c].client.secret = Latest(request[c].client.id))

(* Without an issuer suffix, every URL a client can learn is served.       *)
RootIssuerIsServed ==
  ~suffix => \A c \in Connections : status[c] # 404

(* A server that is dropped comes to its end, unless a client withholds    *)
(* the rest of a request it has begun: the graceful shutdown has no        *)
(* timeout, so that such a client keeps the task for as long as it stays.  *)
NobodyWithholds == \A c \in Connections : []<>(conn[c] # "arriving")
DroppedServerEnds == NobodyWithholds => (handle = "dropped" ~> task = "ended")

(* A request that has come whole is answered, also when the server is      *)
(* dropped under it; only its own client can give it up.                   *)
AcceptedIsAnswered ==
  \A c \in Connections : conn[c] = "handling" ~> conn[c] \in {"idle", "closed", "left"}

(***************************************************************************)
(* What every step preserves: host and task keep step, the map has the     *)
(* last secret of every id, and what was answered was right for the last   *)
(* request of its connection, whose id stays in the map.                   *)
(***************************************************************************)

Requests ==
  [url : [base : {"base_url", "issuer"}, route : {"discovery", "token"}], client : Credentials]

HostAndTask ==
  /\ handle = "builder" => listener = "none"
  /\ handle \in {"builder", "spawning", "error"} <=> task = "none"
  /\ handle = "held" => shutdown = "held"
  /\ task # "none" => first \in Ids /\ clients[first] # None
  /\ \A c \in Connections : conn[c] \in {"idle", "arriving", "handling", "closed"} => task # "none"

Registered == \A id \in Ids :
  IF clients[id] = None THEN \A i \in DOMAIN calls : calls[i].id # id
  ELSE \E i \in DOMAIN calls : /\ calls[i] = [id |-> id, secret |-> clients[id]]
                              /\ \A j \in DOMAIN calls : calls[j].id = id => j <= i

Answers ==
  /\ request \in [Connections -> Requests \cup {None}]
  /\ \A c \in Connections :
       /\ conn[c] = "handling" \/ status[c] # 0 =>
            task # "none" /\ request[c] \in Requests /\ clients[request[c].client.id] # None
       /\ Answered(c) \/ (conn[c] = "arriving" /\ status[c] # 0) =>
            status[c] = Handled(request[c])
       /\ conn[c] \in {"none", "backlog"} => status[c] = 0

ServerInv == TypeOK /\ HostAndTask /\ Registered /\ Answers /\ ServesWhileHeld /\ RootIssuerIsServed
=============================================================================
