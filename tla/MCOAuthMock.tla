----------------------------- MODULE MCOAuthMock -----------------------------
(***************************************************************************)
(* Small instances of OAuthMock: the registered clients differ in redirect *)
(* URIs and scopes (one URI of the second does not parse); the .cfg says   *)
(* which client ids exist and which of them are registered.                *)
(***************************************************************************)
EXTENDS OAuthMock, TLC

CONSTANTS app, good, s1, u1, broken, v1, v2, h1, h2

MCClientConfig ==
  [id \in Registered |->
     IF id = app
     THEN [client_secret |-> good, redirect_uris |-> {u1}, allowed_scopes |-> Scopes]
     ELSE [client_secret |-> good, redirect_uris |-> {u1, broken}, allowed_scopes |-> {s1}]]

MCS256 == (v1 :> h1) @@ (v2 :> h2)

Symmetry == Permutations(Codes) \cup Permutations(RefreshTokens) \cup Permutations(AccessTokens)

DeviceSymmetry == Permutations(DeviceCodes) \cup Permutations(UserCodes)
                    \cup Permutations(RefreshTokens) \cup Permutations(AccessTokens)

=============================================================================
