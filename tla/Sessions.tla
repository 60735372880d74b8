------------------------------ MODULE Sessions ------------------------------
(***************************************************************************)
(* The sessions of one account: logins by password, PIN and TOTP, the      *)
(* rotation of refresh tokens with detection of their reuse, the closing   *)
(* of one session and of all of them, and the second factor.               *)
(*                                                                         *)
(* A login or an exchange makes a pair of tokens: a refresh token with a   *)
(* row in refresh_tokens and an access token, which no handler compares    *)
(* with that row.  A token stands for the pair.  Account.status, expiry, a *)
(* wrong password and the lock after five of them only refuse requests:    *)
(* those requests do not begin.  Two pairs signed in the same second with  *)
(* the same claims collide on the unique column: the insert fails, as in   *)
(* Fail.                                                                   *)
(***************************************************************************)
EXTENDS Naturals, Requests

CONSTANTS
    Tokens,     \* pairs of tokens; their number bounds the pairs ever made
    Roles       \* roles the account may be given

UserRole == {"OWNER", "ADMIN", "FINANCE", "MECHANIC", "TRAINEE", "CLIENT"}

\* updateRole neither changes the role of an OWNER nor assigns it.
ASSUME RoleAssumption == Roles \subseteq UserRole \ {"OWNER"}

VARIABLES
    role,       \* Account.role
    mfaEnabled, \* Account.mfaEnabled, and with it mfaSecret
    row,        \* RefreshToken.revoked of each token
    claims,     \* what each token says and where it comes from, once made
    closedBy,   \* who ended a live token other than by exchanging it
    promoted    \* the account went from a role without MFA to one with it

account == <<role, promoted>>
family == <<row, claims, closedBy>>
vars == <<role, promoted, mfaEnabled, row, claims, closedBy, req>>

-----------------------------------------------------------------------------
PRIVILEGED_ROLES == {"OWNER", "ADMIN", "FINANCE"}

allowedRoles == {"MECHANIC", "TRAINEE"}

\* mfa: mfaVerified.  priv: the role in the access token is privileged.
\* totp: the login it goes back to verified a TOTP code.  from: the token it
\* was exchanged for, none after a login.  by: the worker that made it.
Claim == [mfa : BOOLEAN, priv : BOOLEAN, totp : BOOLEAN, from : SUBSET Tokens, by : Workers]

\* A token not made yet has the claims of no one.
Blank == [mfa |-> FALSE, priv |-> FALSE, totp |-> FALSE, from |-> {}, by |-> "nobody"]

MintRequest == [op : {"rotate", "mint"}, mfa : BOOLEAN, priv : BOOLEAN,
                totp : BOOLEAN, from : SUBSET Tokens]
AccountRequest == [op : {"enable", "sweep"}]


Request == MintRequest \cup AccountRequest \cup {Idle}

made == {t \in Tokens : row[t] # "none"}

\* The rows that GET /auth/sessions lists.
live == {t \in Tokens : row[t] = "live"}

TypeOK ==
    /\ role       \in Roles
    /\ mfaEnabled \in BOOLEAN
    /\ row        \in [Tokens -> {"none", "live", "revoked"}]
    /\ claims     \in [Tokens -> Claim \cup {Blank}]
    /\ \A t \in made : claims[t] \in Claim
    /\ closedBy   \in [Tokens -> SUBSET Workers]
    /\ promoted   \in BOOLEAN
    /\ req        \in [Workers -> Request]

Init ==
    /\ role \in Roles
    /\ mfaEnabled = FALSE
    /\ row = [t \in Tokens |-> "none"]
    /\ claims = [t \in Tokens |-> Blank]
    /\ closedBy = [t \in Tokens |-> {}]
    /\ promoted = FALSE
    /\ req = [w \in Workers |-> Idle]

-----------------------------------------------------------------------------
(* Logging in and exchanging a token *)

Park(w, r) ==
    /\ req[w] = Idle
    /\ req' = [req EXCEPT ![w] = r]
    /\ UNCHANGED <<account, mfaEnabled, family>>

\* generateTokens for the account as it was read: mfaVerified is what the caller
\* says, or that the role does not need MFA.
ParkMint(w, op, mfaVerified, totp, from) ==
    LET requiresMfa == role \in PRIVILEGED_ROLES
    IN Park(w, [op |-> op, mfa |-> mfaVerified \/ ~requiresMfa, priv |-> requiresMfa,
                totp |-> totp, from |-> from])

\* Mutant: a privileged account without MFA counts as verified.
BeginLoginUnenrolled(w) ==
    /\ ~mfaEnabled
    /\ ParkMint(w, "mint", TRUE, FALSE, {})

\* POST /auth/login without a second factor
BeginLogin(w) ==
    /\ ~mfaEnabled
    /\ ParkMint(w, "mint", FALSE, FALSE, {})

\* POST /auth/mechanic-login
BeginMechanicLogin(w) ==
    /\ role \in allowedRoles
    /\ ParkMint(w, "mint", FALSE, FALSE, {})

\* POST /auth/mfa/verify, with the sessionToken that a login signed up to five
\* minutes ago: nothing is kept of it.
BeginVerifyMfa(w) ==
    /\ mfaEnabled
    /\ ParkMint(w, "mint", TRUE, TRUE, {})

\* POST /auth/refresh with a token that is not revoked
BeginRefresh(w, t) ==
    /\ row[t] = "live"
    /\ ParkMint(w, "rotate", claims[t].mfa, claims[t].totp, {t})

\* Mutant: the exchanged token is not revoked.
RotateNothing(w) ==
    /\ req[w].op = "rotate"
    /\ req' = [req EXCEPT ![w].op = "mint"]
    /\ UNCHANGED <<account, mfaEnabled, family>>

Rotate(w) ==
    /\ req[w].op = "rotate"
    /\ row' = [t \in Tokens |-> IF t \in req[w].from THEN "revoked" ELSE row[t]]
    /\ req' = [req EXCEPT ![w].op = "mint"]
    /\ UNCHANGED <<account, mfaEnabled, claims, closedBy>>

\* The row is created, the session's key set, the answer sent.  A token whose
\* answer is lost is one that no client presents.
Mint(w, t) ==
    /\ req[w].op = "mint"
    /\ row[t] = "none"
    /\ row' = [row EXCEPT ![t] = "live"]
    /\ claims' = [claims EXCEPT ![t] =
                    [mfa |-> req[w].mfa, priv |-> req[w].priv, totp |-> req[w].totp,
                     from |-> req[w].from, by |-> w]]
    /\ req' = [req EXCEPT ![w] = Idle]
    /\ UNCHANGED <<account, mfaEnabled, closedBy>>

-----------------------------------------------------------------------------
(* Closing sessions.  A handler that closes reads first only what cannot change *)
(* back (that a row exists, that a token is revoked), so it is one step.         *)

\* w ends the live tokens of ts, and starts or is done with its request.
End(w, ts) ==
    /\ row' = [t \in Tokens |-> IF t \in ts \cap live THEN "revoked" ELSE row[t]]
    /\ closedBy' = [t \in Tokens |-> IF t \in ts \cap live THEN {w} ELSE closedBy[t]]
    /\ req' = [req EXCEPT ![w] = Idle]
    /\ UNCHANGED <<account, mfaEnabled, claims>>

\* Mutant: logging out drops the key of the session and leaves its row.
CloseKeyOnly(w, t) ==
    /\ req[w] = Idle
    /\ t \in made
    /\ closedBy' = [closedBy EXCEPT ![t] = IF t \in live THEN {w} ELSE @]
    /\ UNCHANGED <<account, mfaEnabled, row, claims, req>>

\* DELETE /auth/logout with the token
Close(w, t) ==
    /\ req[w] = Idle
    /\ t \in made
    /\ End(w, {t})

\* DELETE /auth/sessions/:id, from the list of the user's own live sessions
RevokeSession(w, t) == t \in live /\ Close(w, t)

\* POST /auth/logout, /auth/logout-all, /auth/force-logout and, once the hash is
\* written, /auth/change-password: revokeAllUserSessions.  The keys in Redis and
\* the sockets it drops as well are not carried.
CloseAll(w) ==
    /\ req[w] = Idle
    /\ End(w, Tokens)

\* POST /auth/refresh with a revoked token: reuse ends every session.
Reuse(w, t) ==
    /\ req[w] = Idle
    /\ row[t] = "revoked"
    /\ End(w, Tokens)

\* The end of mfa/confirm
Sweep(w) ==
    /\ req[w].op = "sweep"
    /\ End(w, Tokens)

-----------------------------------------------------------------------------
(* The second factor *)

\* POST /auth/mfa/confirm with a valid code for the secret that mfa/generate has
\* left in Redis up to ten minutes ago: for any session of an account without
\* MFA, otherwise for a verified one.
BeginConfirm(w) ==
    /\ \E t \in made : mfaEnabled => claims[t].mfa
    /\ Park(w, [op |-> "enable"])

Enable(w) ==
    /\ req[w].op = "enable"
    /\ mfaEnabled' = TRUE
    /\ req' = [req EXCEPT ![w] = [op |-> "sweep"]]
    /\ UNCHANGED <<account, family>>

-----------------------------------------------------------------------------
(* The account *)

\* PATCH /personnel/:id/role
ChangeRole(r) ==
    /\ role' = r
    /\ promoted' = (promoted \/ (role \notin PRIVILEGED_ROLES /\ r \in PRIVILEGED_ROLES))
    /\ UNCHANGED <<mfaEnabled, family, req>>

\* A request dies or one of its calls fails.
Fail(w) ==
    /\ req[w] # Idle
    /\ req' = [req EXCEPT ![w] = Idle]
    /\ UNCHANGED <<account, mfaEnabled, family>>

Begin(w) ==
    \/ BeginLogin(w) \/ BeginMechanicLogin(w) \/ BeginVerifyMfa(w) \/ BeginConfirm(w)
    \/ \E t \in Tokens : BeginRefresh(w, t)

Continue(w) ==
    \/ Rotate(w) \/ Enable(w) \/ Sweep(w)
    \/ \E t \in Tokens : Mint(w, t)

Closing(w) ==
    \/ CloseAll(w)
    \/ \E t \in Tokens : Close(w, t) \/ RevokeSession(w, t) \/ Reuse(w, t)

Next ==
    \/ \E r \in Roles : ChangeRole(r)
    \/ \E w \in Workers : Begin(w) \/ Continue(w) \/ Closing(w) \/ Fail(w)

Spec == Init /\ [][Next]_vars

-----------------------------------------------------------------------------
(* What holds however the requests interleave *)

\* "El refreshToken anterior es revocado inmediatamente": whatever crashes in
\* between, a session made by an exchange never coexists with the one it replaced.
ParentSpent == \A u \in made : \A t \in claims[u].from : row[t] = "revoked"

\* Rotation: a token buys a second successor only in a request that overlapped
\* the first exchange; requests handled one after the other buy one.
ExchangedOnce ==
    \A u, v \in made :
        /\ claims[u].from = claims[v].from /\ claims[u].from # {}
        /\ claims[u].by = claims[v].by
        => u = v

\* A session ended by a logout, a password change, an activation of MFA or a
\* detected reuse has no successor, but for an exchange that overlapped the end.
ClosedHasNoSuccessor ==
    \A u \in made : \A t \in claims[u].from : claims[u].by \notin closedBy[t]

\* So only requests that overlap give a refresh token a successor too many.
SuccessorsNeedOverlap == ExchangedOnce /\ ClosedHasNoSuccessor

\* "los roles privilegiados solo quedan verificados si completaron el TOTP":
\* a pair of tokens that opens the MFA interceptor and the gateway for a privileged
\* role goes back to a TOTP code ...
TotpBehind ==
    \A t \in made : claims[t].priv /\ claims[t].mfa => claims[t].totp

\* ... as long as nobody without MFA is promoted to a role that needs it.
TotpBehindUnlessPromoted == ~promoted => TotpBehind

-----------------------------------------------------------------------------
(* The inductive invariant *)

\* What w's login or exchange still knows: the token it exchanges was live when
\* it was read, so w has neither ended nor exchanged it.
ExchangeOK(w) ==
    req[w].op \in {"rotate", "mint"} =>
        \A t \in req[w].from :
            /\ t \in made
            /\ w \notin closedBy[t]
            /\ \A u \in made : claims[u].by = w => claims[u].from # req[w].from
            /\ req[w].op = "mint" => row[t] = "revoked"

\* Without a promotion a role once without MFA stays without it.
RankOK ==
    ~promoted =>
        /\ \A t \in made : ~claims[t].priv => role \notin PRIVILEGED_ROLES
        /\ \A w \in Workers :
             req[w].op \in {"rotate", "mint"} =>
                /\ ~req[w].priv => role \notin PRIVILEGED_ROLES
                /\ req[w].priv /\ req[w].mfa => req[w].totp

SessionInv ==
    /\ TypeOK
    /\ ParentSpent
    /\ ExchangedOnce
    /\ ClosedHasNoSuccessor
    /\ TotpBehindUnlessPromoted
    /\ \A t \in Tokens : row[t] # "revoked" => closedBy[t] = {}
    /\ \A w \in Workers : ExchangeOK(w)
    /\ RankOK

=============================================================================
