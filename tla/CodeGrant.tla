------------------------------ MODULE CodeGrant ------------------------------
(***************************************************************************)
(* What the mock provider promises about one authorization code: it is     *)
(* offered once, exchanged at most once, refreshed along a single line of  *)
(* refresh tokens, and closed for good.  Rotating the refresh token is not *)
(* visible here except for the access token that it mints.                 *)
(***************************************************************************)
CONSTANTS
  Codes,      \* authorization codes
  Tokens      \* access tokens

VARIABLES
  phase,      \* Codes -> where the code stands
  minted      \* Codes -> the access tokens ever minted for it

vars == <<phase, minted>>

Init ==
  /\ phase = [c \in Codes |-> "unborn"]
  /\ minted = [c \in Codes |-> {}]

Move(c, from, to) ==
  /\ phase[c] \in from
  /\ phase' = [phase EXCEPT ![c] = to]

Mint(c, t) ==
  /\ \A b \in Codes : t \notin minted[b]
  /\ minted' = [minted EXCEPT ![c] = @ \cup {t}]

Offer(c) == Move(c, {"unborn"}, "offered") /\ UNCHANGED minted

Exchange(c, t) == Move(c, {"offered"}, "active") /\ Mint(c, t)

Rotate(c, t) == Move(c, {"active"}, "active") /\ Mint(c, t)

Close(c) == Move(c, {"offered", "active"}, "closed") /\ UNCHANGED minted

Next ==
  \E c \in Codes :
     \/ Offer(c)
     \/ Close(c)
     \/ \E t \in Tokens : Exchange(c, t) \/ Rotate(c, t)

Spec == Init /\ [][Next]_vars

=============================================================================
