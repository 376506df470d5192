--------------------------- MODULE MCOAuthClients ---------------------------
(***************************************************************************)
(* Instance of OAuthClients: one registered client, one scope.             *)
(***************************************************************************)
EXTENDS OAuthClients, TLC

CONSTANTS app, good, s1, u1, v1, h1

MCClientConfig == (app :> [client_secret |-> good, redirect_uris |-> {u1}, allowed_scopes |-> {s1}])
MCS256 == (v1 :> h1)

Symmetry == Permutations(RefreshTokens) \cup Permutations(AccessTokens)
              \cup Permutations(Codes) \cup Permutations(Tries)
=============================================================================
