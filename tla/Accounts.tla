------------------------------ MODULE Accounts ------------------------------
(***************************************************************************)
(* The credentials of one account: logins by password with the lock after  *)
(* five wrong ones, by PIN, the TOTP step, the exchange of a refresh       *)
(* token, and the changes of the password and of the role.                 *)
(* Sessions tells the tokens apart and has the other ways to close them;   *)
(* here a session is what it was opened with: the password, told by the    *)
(* number of changes before it, and what makes it count as verified.       *)
(* Account.status and the expiry of a token only refuse requests: those do *)
(* not begin.                                                              *)
(*                                                                         *)
(* A handler reads the account and writes what it computed from it in a    *)
(* later call.  Trail adds the requests that present the access tokens.    *)
(***************************************************************************)
EXTENDS Naturals, Sequences, Requests

CONSTANTS
    Roles,      \* roles the account may have
    MaxFailed,  \* wrong passwords that lock the account, five in the code
    MaxWrong,   \* bound: wrong passwords in a row
    MaxRequests,    \* bound: requests on the account
    MaxChanges  \* bound: changes of the password

UserRole == {"OWNER", "ADMIN", "FINANCE", "MECHANIC", "TRAINEE", "CLIENT"}

ASSUME AccountAssumption ==
    /\ Roles \subseteq UserRole
    /\ MaxFailed \in Nat \ {0} /\ MaxWrong \in Nat /\ MaxRequests \in Nat /\ MaxChanges \in Nat

VARIABLES
    role,       \* Account.role
    promoted,   \* observer: the account went from a role without MFA to one with it
    mfaEnabled, \* Account.mfaEnabled
    failed,     \* Account.failedAttempts
    lock,       \* Account.lockedUntil: "none", "ahead" of now or "past"
    password,   \* Account.passwordHash, as the number of changes before it
    pending,    \* passwords behind the MFA session tokens made
    sessions,   \* the kinds of live rows of refresh_tokens
    tokens,     \* the kinds of access tokens made
    overlap,    \* observer: two of these requests have been under way together
    torn,       \* observer: a change of password stopped before the revocation
    begun,      \* requests on the account so far
    wrong       \* observer: wrong passwords answered since the last right one, till an overlap

person == <<role, promoted, mfaEnabled>>
counter == <<failed, lock, wrong>>
keys == <<pending, sessions, tokens>>
mishaps == <<overlap, torn, begun>>

PRIVILEGED_ROLES == {"OWNER", "ADMIN", "FINANCE"}
allowedRoles == {"MECHANIC", "TRAINEE"}
Generation == 0..MaxChanges

\* Why a token counts as verified: a TOTP code was checked, or it was made for a role
\* without MFA; with "none" it does not.
Factor == {"totp", "exempt", "none"}

mfaVerified(t) == t.factor # "none"

LoginRequest == [op : {"login"}, seen : Nat, password : Generation, right : BOOLEAN, as : Roles]
MintRequest == [op : {"mint"}, password : Generation, role : Roles, factor : Factor]
PlainRequest == [op : {"change", "sweep"}]
AccountRequest == LoginRequest \cup MintRequest \cup PlainRequest
AccountOps == {"login", "mint", "change", "sweep"}

AccountTypeOK ==
    /\ role \in Roles /\ promoted \in BOOLEAN /\ mfaEnabled \in BOOLEAN
    /\ failed \in Nat /\ wrong \in 0..MaxWrong /\ lock \in {"none", "ahead", "past"}
    /\ password \in Generation /\ pending \subseteq Generation
    /\ sessions \subseteq [password : Generation, factor : Factor]
    /\ tokens \subseteq [role : Roles, factor : Factor]
    /\ overlap \in BOOLEAN /\ torn \in BOOLEAN /\ begun \in 0..MaxRequests

AccountInit ==
    /\ role \in Roles /\ promoted = FALSE /\ mfaEnabled \in BOOLEAN
    /\ failed = 0 /\ lock = "none" /\ wrong = 0 /\ password = 0
    /\ pending = {} /\ sessions = {} /\ tokens = {}
    /\ overlap = FALSE /\ torn = FALSE /\ begun = 0
    /\ req = [w \in Workers |-> Idle]

\* The workers with a request on the account.
Busy == {w \in Workers : req[w] \in AccountRequest}

Begin(w, r) ==
    /\ req[w] = Idle
    /\ begun < MaxRequests
    /\ begun' = begun + 1
    /\ req' = [req EXCEPT ![w] = r]
    /\ overlap' = (overlap \/ Busy # {})
    /\ wrong' = IF overlap' THEN 0 ELSE wrong

Start(w, r) ==
    /\ Begin(w, r)
    /\ UNCHANGED <<person, failed, lock, password, keys, torn>>

\* generateTokens for the account as it was read, here with the role r: mfaVerified is
\* what the caller has, or that the role does not need it.
Minting(r, p, factor) ==
    [op |-> "mint", password |-> p, role |-> r,
     factor |-> IF factor = "none" /\ r \notin PRIVILEGED_ROLES THEN "exempt" ELSE factor]

-----------------------------------------------------------------------------
(* Logging in *)

BeginLogin(w) ==
    /\ lock # "ahead"
    /\ \E right \in BOOLEAN :
         Start(w, [op |-> "login", seen |-> failed, password |-> password, right |-> right,
                   as |-> role])

\* Mutant: the lock comes one wrong password later.
LoginWrongLate(w) ==
    /\ req[w].op = "login" /\ ~req[w].right
    /\ req[w].seen < MaxWrong
    /\ failed' = req[w].seen + 1
    /\ lock' = IF req[w].seen + 1 > MaxFailed THEN "ahead" ELSE lock
    /\ wrong' = IF overlap THEN 0 ELSE wrong + 1
    /\ req' = [req EXCEPT ![w] = Idle]
    /\ UNCHANGED <<person, password, keys, mishaps>>

LoginWrong(w) ==
    /\ req[w].op = "login" /\ ~req[w].right
    /\ req[w].seen < MaxWrong
    /\ failed' = req[w].seen + 1
    /\ lock' = IF req[w].seen + 1 >= MaxFailed THEN "ahead" ELSE lock
    /\ wrong' = IF overlap THEN 0 ELSE wrong + 1
    /\ req' = [req EXCEPT ![w] = Idle]
    /\ UNCHANGED <<person, password, keys, mishaps>>

\* An account with a second factor is handed a token to present with the code.
LoginRight(w) ==
    /\ req[w].op = "login" /\ req[w].right
    /\ failed' = 0 /\ lock' = "none" /\ wrong' = 0
    /\ IF mfaEnabled
       THEN /\ pending' = pending \cup {req[w].password}
            /\ req' = [req EXCEPT ![w] = Idle]
       ELSE /\ req' = [req EXCEPT ![w] = Minting(req[w].as, req[w].password, "none")]
            /\ UNCHANGED pending
    /\ UNCHANGED <<person, password, sessions, tokens, mishaps>>

\* By PIN: neither the password nor the lock nor the second factor is looked at.
BeginMechanicLogin(w) ==
    /\ role \in allowedRoles
    /\ Start(w, Minting(role, password, "none"))

\* The code is checked, nothing else: neither the password nor the lock nor the status.
BeginVerifyMfa(w) ==
    \E p \in pending : Start(w, Minting(role, p, "totp"))

\* The exchange of a refresh token keeps what it carries, for the role the account has
\* now.  There may be other sessions of its kind.
BeginRefresh(w) ==
    \E s \in sessions :
        /\ Begin(w, Minting(role, s.password, s.factor))
        /\ sessions' \in {sessions, sessions \ {s}}
        /\ UNCHANGED <<person, failed, lock, password, pending, tokens, torn>>

\* The row is created and the answer sent.
Mint(w) ==
    /\ req[w].op = "mint"
    /\ sessions' = sessions \cup {[password |-> req[w].password, factor |-> req[w].factor]}
    /\ tokens' = tokens \cup {[role |-> req[w].role, factor |-> req[w].factor]}
    /\ req' = [req EXCEPT ![w] = Idle]
    /\ UNCHANGED <<person, counter, password, pending, mishaps>>

-----------------------------------------------------------------------------
(* Changing the account *)

\* The user, with an access token and the current password; a second check refuses
\* a new password that is the old one.
BeginChange(w) ==
    /\ tokens # {}
    /\ Start(w, [op |-> "change"])

\* Mutant: the sessions stay open.
WritePasswordOnly(w) ==
    /\ req[w].op = "change"
    /\ password < MaxChanges
    /\ password' = password + 1
    /\ req' = [req EXCEPT ![w] = Idle]
    /\ UNCHANGED <<person, counter, keys, mishaps>>

WritePassword(w) ==
    /\ req[w].op = "change"
    /\ password < MaxChanges
    /\ password' = password + 1
    /\ req' = [req EXCEPT ![w] = [op |-> "sweep"]]
    /\ UNCHANGED <<person, counter, keys, mishaps>>

\* revokeAllUserSessions
Sweep(w) ==
    /\ req[w].op = "sweep"
    /\ sessions' = {}
    /\ req' = [req EXCEPT ![w] = Idle]
    /\ UNCHANGED <<person, counter, password, pending, tokens, mishaps>>

-----------------------------------------------------------------------------
\* PATCH /personnel/:id/role: no OWNER is made or unmade.
ChangeRole(r) ==
    /\ role # "OWNER" /\ r # "OWNER"
    /\ role' = r
    /\ promoted' = (promoted \/ (role \notin PRIVILEGED_ROLES /\ r \in PRIVILEGED_ROLES))
    /\ UNCHANGED <<mfaEnabled, counter, password, keys, mishaps, req>>

\* Fifteen minutes of lock
Lapse ==
    /\ lock = "ahead" /\ lock' = "past"
    /\ UNCHANGED <<person, failed, wrong, password, keys, mishaps, req>>

\* A request dies, or a call of it fails.
Fail(w) ==
    /\ req[w] \in AccountRequest
    /\ torn' = (torn \/ req[w].op = "sweep")
    /\ req' = [req EXCEPT ![w] = Idle]
    /\ UNCHANGED <<person, counter, password, keys, overlap, begun>>

AccountRequestNext(w) ==
    \/ BeginLogin(w) \/ LoginWrong(w) \/ LoginRight(w) \/ BeginMechanicLogin(w)
    \/ BeginVerifyMfa(w) \/ BeginRefresh(w) \/ Mint(w)
    \/ BeginChange(w) \/ WritePassword(w) \/ Sweep(w)
    \/ Fail(w)

AccountNext ==
    \/ Lapse
    \/ \E r \in Roles : ChangeRole(r)
    \/ \E w \in Workers : AccountRequestNext(w)

AccountSpec ==
    AccountInit /\ [][AccountNext]_<<person, counter, password, keys, mishaps, req>>

-----------------------------------------------------------------------------
\* "Bloquea la cuenta tras 5 intentos fallidos": until two requests overlap every
\* wrong password answered since the last right one is counted, and the one that
\* fills the count, as each later one, leaves a lock behind.
WrongOnesLock ==
    ~overlap => failed = wrong /\ (wrong >= MaxFailed => lock # "none")

\* SEC-19, all sessions are closed with a change of password: until two requests
\* overlap or a change is cut short, a session opened with an older password is one
\* whose TOTP step was still to come when the password changed.
OldPasswordClosed ==
    ~overlap /\ ~torn /\ (\A w \in Workers : req[w].op # "sweep") =>
        \A s \in sessions : s.password = password \/ s.factor = "totp"
-----------------------------------------------------------------------------
(* The inductive invariant *)

\* What a request that is alone has read is still so.
ReadOK(r) ==
    /\ r.op = "login" => r.seen = failed /\ r.password = password
    /\ r.op = "mint" => r.factor = "totp" \/ r.password = password \/ torn

\* The requests of other components are not told here.
AccountInv ==
    /\ AccountTypeOK
    /\ req = [w \in Workers |-> req[w]]
    /\ \A w \in Workers : req[w].op \in AccountOps <=> req[w] \in AccountRequest
    /\ ~overlap =>
         /\ \A v, w \in Busy : v = w
         /\ \A w \in Workers : ReadOK(req[w])
    /\ WrongOnesLock
    /\ OldPasswordClosed
=============================================================================
