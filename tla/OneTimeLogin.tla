---------------------------- MODULE OneTimeLogin ----------------------------
(***************************************************************************)
(* What the admin login promises: a token opens at most one handoff code,  *)
(* and a handoff code begins at most one session, over all instances.      *)
(***************************************************************************)

CONSTANTS
    Request,        \* exchange requests; each opens at most one code
    Redemption,     \* requests that redeem a code
    TokenOf         \* request -> the token it presents

VARIABLES
    codes,          \* requests whose code was opened
    begun           \* <<request, redemption>>: sessions that began

LoginInit == codes = {} /\ begun = {}

Open(r) ==
    /\ \A q \in codes : TokenOf[q] # TokenOf[r]
    /\ codes' = codes \union {r}
    /\ begun' = begun

Begin(r, d) ==
    /\ r \in codes
    /\ \A s \in begun : s[1] # r
    /\ begun' = begun \union {<<r, d>>}
    /\ codes' = codes

LoginNext ==
    \/ \E r \in Request : Open(r)
    \/ \E r \in Request, d \in Redemption : Begin(r, d)

LoginSpec == LoginInit /\ [][LoginNext]_<<codes, begun>>

=============================================================================
