--------------------------- MODULE SessionsProofs ---------------------------
(***************************************************************************)
(* Theorems of Sessions, for any number of tokens and of workers.          *)
(***************************************************************************)
EXTENDS Sessions, TLAPS

-----------------------------------------------------------------------------
LEMMA InitInv == Init => SessionInv
<1> SUFFICES ASSUME Init PROVE SessionInv
  OBVIOUS
<1>1. made = {}
  BY DEF Init, made
<1>2. TypeOK
  BY <1>1 DEF Init, TypeOK, Request
<1>3. \A w \in Workers : req[w].op = "idle"
  BY DEF Init, Idle
<1>4. ParentSpent /\ ExchangedOnce /\ ClosedHasNoSuccessor /\ TotpBehindUnlessPromoted
  BY <1>1 DEF ParentSpent, ExchangedOnce, ClosedHasNoSuccessor, TotpBehindUnlessPromoted, TotpBehind
<1>5. \A t \in Tokens : row[t] # "revoked" => closedBy[t] = {}
  BY DEF Init
<1>6. (\A w \in Workers : ExchangeOK(w)) /\ RankOK
  BY <1>1, <1>3 DEF ExchangeOK, RankOK
<1> QED
  BY <1>2, <1>4, <1>5, <1>6 DEF SessionInv

\* A step that changes only w's slot, to a request that leaves the invariant in
\* order, keeps it.
LEMMA SlotStep ==
    ASSUME SessionInv, NEW w \in Workers, NEW r \in Request,
           req' = [req EXCEPT ![w] = r],
           UNCHANGED <<account, mfaEnabled, family>>,
           r.op \in {"rotate", "mint"} =>
              /\ \A t \in r.from :
                   /\ t \in made
                   /\ w \notin closedBy[t]
                   /\ \A u \in made : claims[u].by = w => claims[u].from # r.from
                   /\ r.op = "mint" => row[t] = "revoked"
              /\ ~promoted =>
                   /\ ~r.priv => role \notin PRIVILEGED_ROLES
                   /\ r.priv /\ r.mfa => r.totp
    PROVE  SessionInv'
<1>1. req' \in [Workers -> Request] /\ req'[w] = r /\ \A v \in Workers \ {w} : req'[v] = req[v]
  BY DEF SessionInv, TypeOK
<1>2. made' = made
  BY DEF made, family
<1>3. TypeOK'
  BY <1>1, <1>2 DEF SessionInv, TypeOK, account, family
<1>4. ParentSpent' /\ ExchangedOnce' /\ ClosedHasNoSuccessor'
  BY <1>2 DEF SessionInv, ParentSpent, ExchangedOnce, ClosedHasNoSuccessor, family
<1>5. TotpBehindUnlessPromoted'
  BY <1>2 DEF SessionInv, TotpBehindUnlessPromoted, TotpBehind, family, account
<1>6. (\A t \in Tokens : row[t] # "revoked" => closedBy[t] = {})'
  BY DEF SessionInv, family
<1>7. \A v \in Workers : ExchangeOK(v)'
  <2> SUFFICES ASSUME NEW v \in Workers PROVE ExchangeOK(v)'
    OBVIOUS
  <2>1. CASE v = w
    BY <1>1, <1>2, <2>1 DEF ExchangeOK, family
  <2>2. CASE v # w
    BY <1>1, <1>2, <2>2 DEF SessionInv, ExchangeOK, family
  <2> QED BY <2>1, <2>2
<1>8. RankOK'
  <2> SUFFICES ASSUME ~promoted PROVE RankOK'
    BY DEF RankOK, account
  <2>1. \A t \in made' : ~claims'[t].priv => role' \notin PRIVILEGED_ROLES
    BY <1>2 DEF SessionInv, RankOK, family, account
  <2>2. ASSUME NEW v \in Workers, req'[v].op \in {"rotate", "mint"}
        PROVE  /\ ~req'[v].priv => role' \notin PRIVILEGED_ROLES
               /\ req'[v].priv /\ req'[v].mfa => req'[v].totp
    BY <1>1, <2>2 DEF SessionInv, RankOK, account
  <2> QED BY <2>1, <2>2 DEF RankOK
<1> QED
  BY <1>3, <1>4, <1>5, <1>6, <1>7, <1>8 DEF SessionInv

\* A request given up or done with.
LEMMA IdleStep ==
    ASSUME SessionInv, NEW w \in Workers,
           req' = [req EXCEPT ![w] = Idle],
           UNCHANGED <<account, mfaEnabled, family>>
    PROVE  SessionInv'
BY SlotStep DEF Idle, Request

\* What generateTokens is asked for is in order if the caller's claim is: it asks
\* for a verified privileged pair after a TOTP code only.
LEMMA ParkMintStep ==
    ASSUME SessionInv, NEW w \in Workers, NEW op \in {"rotate", "mint"},
           NEW verified \in BOOLEAN, NEW totp \in BOOLEAN, NEW from \in SUBSET Tokens,
           ParkMint(w, op, verified, totp, from),
           \A t \in from :
              /\ t \in made
              /\ w \notin closedBy[t]
              /\ \A u \in made : claims[u].by = w => claims[u].from # from
              /\ op = "mint" => row[t] = "revoked",
           ~promoted /\ role \in PRIVILEGED_ROLES /\ verified => totp
    PROVE  SessionInv'
<1>1. PICK r : r = [op |-> op, mfa |-> verified \/ ~(role \in PRIVILEGED_ROLES),
                    priv |-> role \in PRIVILEGED_ROLES, totp |-> totp, from |-> from]
  OBVIOUS
<1>2. r \in Request
  BY <1>1 DEF Request, MintRequest
<1>3. /\ r.op = op /\ r.from = from /\ r.totp = totp
      /\ r.priv = (role \in PRIVILEGED_ROLES)
      /\ r.mfa = (verified \/ ~(role \in PRIVILEGED_ROLES))
  BY <1>1
<1>4. req' = [req EXCEPT ![w] = r] /\ UNCHANGED <<account, mfaEnabled, family>>
  BY <1>1 DEF ParkMint, Park
<1>5. r.op \in {"rotate", "mint"} =>
        /\ \A t \in r.from :
             /\ t \in made
             /\ w \notin closedBy[t]
             /\ \A u \in made : claims[u].by = w => claims[u].from # r.from
             /\ r.op = "mint" => row[t] = "revoked"
        /\ ~promoted =>
             /\ ~r.priv => role \notin PRIVILEGED_ROLES
             /\ r.priv /\ r.mfa => r.totp
  BY <1>3
<1> QED
  BY <1>2, <1>4, <1>5, SlotStep

-----------------------------------------------------------------------------
\* An exchange starts from a live token: nothing has been made of it, and nobody
\* has ended it.
LEMMA RefreshStep ==
    ASSUME SessionInv, NEW w \in Workers, NEW t \in Tokens, BeginRefresh(w, t)
    PROVE  SessionInv'
<1>1. t \in made /\ row[t] = "live"
  BY DEF BeginRefresh, made
<1>2. claims[t] \in Claim
  BY <1>1 DEF SessionInv, TypeOK
<1>3. claims[t].mfa \in BOOLEAN /\ claims[t].totp \in BOOLEAN /\ claims[t].priv \in BOOLEAN
  BY <1>2 DEF Claim
<1>4. \A u \in made : claims[u].from # {t}
  BY <1>1 DEF SessionInv, ParentSpent
<1>5. closedBy[t] = {}
  BY <1>1 DEF SessionInv
<1>6. ASSUME ~promoted, role \in PRIVILEGED_ROLES, claims[t].mfa
      PROVE  claims[t].totp
  <2>1. claims[t].priv
    BY <1>1, <1>6 DEF SessionInv, RankOK
  <2> QED
    BY <1>1, <1>6, <2>1 DEF SessionInv, TotpBehindUnlessPromoted, TotpBehind
<1>7. ParkMint(w, "rotate", claims[t].mfa, claims[t].totp, {t})
  BY DEF BeginRefresh
<1>8. \A s \in {t} :
        /\ s \in made
        /\ w \notin closedBy[s]
        /\ \A u \in made : claims[u].by = w => claims[u].from # {t}
        /\ "rotate" = "mint" => row[s] = "revoked"
  BY <1>1, <1>4, <1>5
<1> QED
  BY <1>3, <1>6, <1>7, <1>8, ParkMintStep

LEMMA LoginSteps ==
    ASSUME SessionInv, NEW w \in Workers,
           BeginLogin(w) \/ BeginMechanicLogin(w) \/ BeginVerifyMfa(w) \/ BeginConfirm(w)
    PROVE  SessionInv'
<1>1. ASSUME NEW v \in BOOLEAN, NEW c \in BOOLEAN, v => c, ParkMint(w, "mint", v, c, {})
      PROVE  SessionInv'
  BY <1>1, ParkMintStep
<1>2. CASE BeginLogin(w)
  BY <1>1, <1>2 DEF BeginLogin
<1>3. CASE BeginMechanicLogin(w)
  BY <1>1, <1>3 DEF BeginMechanicLogin
<1>4. CASE BeginVerifyMfa(w)
  BY <1>1, <1>4 DEF BeginVerifyMfa
<1>5. CASE BeginConfirm(w)
  BY <1>5, SlotStep DEF BeginConfirm, Park, Request, AccountRequest
<1> QED
  BY <1>2, <1>3, <1>4, <1>5

\* The exchanged token is revoked; its successor does not exist yet.
LEMMA RotateStep ==
    ASSUME SessionInv, NEW w \in Workers, Rotate(w)
    PROVE  SessionInv'
<1>1. PICK r \in MintRequest : r = req[w] /\ r.op = "rotate"
  <2>1. req[w] \in Request /\ req[w].op = "rotate"
    BY DEF Rotate, SessionInv, TypeOK
  <2> QED
    BY <2>1 DEF Request, AccountRequest, Idle
<1>2. PICK m : m = [r EXCEPT !.op = "mint"]
  OBVIOUS
<1>2a. /\ m \in MintRequest /\ m \in Request
       /\ m.op = "mint" /\ m.from = r.from
  BY <1>2 DEF MintRequest, Request
<1>2b. m.mfa = r.mfa /\ m.priv = r.priv /\ m.totp = r.totp
  BY <1>2 DEF MintRequest
<1>3. /\ row' = [t \in Tokens |-> IF t \in r.from THEN "revoked" ELSE row[t]]
      /\ req' = [req EXCEPT ![w] = m]
      /\ UNCHANGED <<role, promoted, mfaEnabled, claims, closedBy>>
  BY <1>1, <1>2 DEF Rotate, account
<1>4. req' \in [Workers -> Request] /\ req'[w] = m /\ \A v \in Workers \ {w} : req'[v] = req[v]
  BY <1>2a, <1>3 DEF SessionInv, TypeOK
<1>5. \A t \in r.from : t \in made
  BY <1>1 DEF SessionInv, ExchangeOK
<1>6. made' = made
  BY <1>3, <1>5 DEF made
<1>7. \A t \in Tokens : row[t] = "revoked" => row'[t] = "revoked"
  BY <1>3
<1>8. TypeOK'
  BY <1>3, <1>4, <1>6 DEF SessionInv, TypeOK
<1>9. ParentSpent'
  <2> SUFFICES ASSUME NEW u \in made, NEW t \in claims[u].from PROVE row'[t] = "revoked"
    BY <1>3, <1>6 DEF ParentSpent
  <2>1. row[t] = "revoked"
    BY DEF SessionInv, ParentSpent
  <2>2. t \in Tokens
    BY DEF SessionInv, TypeOK, Claim
  <2> QED BY <1>7, <2>1, <2>2
<1>10. ExchangedOnce' /\ ClosedHasNoSuccessor'
  BY <1>3, <1>6 DEF SessionInv, ExchangedOnce, ClosedHasNoSuccessor
<1>11. TotpBehindUnlessPromoted'
  BY <1>3, <1>6 DEF SessionInv, TotpBehindUnlessPromoted, TotpBehind
<1>12. (\A t \in Tokens : row[t] # "revoked" => closedBy[t] = {})'
  BY <1>3 DEF SessionInv
<1>13. \A v \in Workers : ExchangeOK(v)'
  <2> SUFFICES ASSUME NEW v \in Workers PROVE ExchangeOK(v)'
    OBVIOUS
  <2>1. CASE v = w
    <3>1. \A t \in r.from : t \in Tokens /\ row'[t] = "revoked"
      BY <1>3, <1>5 DEF made
    <3> QED BY <1>1, <1>2a, <1>3, <1>4, <1>6, <2>1, <3>1 DEF SessionInv, ExchangeOK
  <2>2. CASE v # w
    BY <1>3, <1>4, <1>6, <1>7, <2>2 DEF SessionInv, ExchangeOK, made
  <2> QED BY <2>1, <2>2
<1>14. RankOK'
  <2> SUFFICES ASSUME ~promoted PROVE RankOK'
    BY <1>3 DEF RankOK
  <2>1. \A t \in made' : ~claims'[t].priv => role' \notin PRIVILEGED_ROLES
    BY <1>3, <1>6 DEF SessionInv, RankOK
  <2>2. ASSUME NEW v \in Workers, req'[v].op \in {"rotate", "mint"}
        PROVE  /\ ~req'[v].priv => role' \notin PRIVILEGED_ROLES
               /\ req'[v].priv /\ req'[v].mfa => req'[v].totp
    BY <1>1, <1>2b, <1>3, <1>4, <2>2 DEF SessionInv, RankOK
  <2> QED BY <2>1, <2>2 DEF RankOK
<1> QED
  BY <1>8, <1>9, <1>10, <1>11, <1>12, <1>13, <1>14 DEF SessionInv

\* The new token inherits what its request knew: w has made no other successor of
\* the same token, which is revoked and not by w.
LEMMA MintStep ==
    ASSUME SessionInv, NEW w \in Workers, NEW n \in Tokens, Mint(w, n)
    PROVE  SessionInv'
<1>1. PICK r \in MintRequest : r = req[w] /\ r.op = "mint"
  <2>1. req[w] \in Request /\ req[w].op = "mint"
    BY DEF Mint, SessionInv, TypeOK
  <2> QED
    BY <2>1 DEF Request, AccountRequest, Idle
<1>2. PICK c : c = [mfa |-> r.mfa, priv |-> r.priv, totp |-> r.totp, from |-> r.from, by |-> w]
  OBVIOUS
<1>3. /\ c \in Claim
      /\ c.from = r.from /\ c.by = w
  BY <1>2 DEF MintRequest, Claim
<1>4. c.mfa = r.mfa /\ c.priv = r.priv /\ c.totp = r.totp
  BY <1>2
<1>5. /\ row[n] = "none"
      /\ row' = [row EXCEPT ![n] = "live"]
      /\ claims' = [claims EXCEPT ![n] = c]
      /\ req' = [req EXCEPT ![w] = Idle]
      /\ UNCHANGED <<role, promoted, mfaEnabled, closedBy>>
  BY <1>1, <1>2 DEF Mint, account
<1>6. /\ claims' \in [Tokens -> Claim \cup {Blank}]
      /\ claims'[n] = c
      /\ \A t \in Tokens \ {n} : claims'[t] = claims[t]
  BY <1>3, <1>5 DEF SessionInv, TypeOK
<1>7. /\ row' \in [Tokens -> {"none", "live", "revoked"}]
      /\ row'[n] = "live"
      /\ \A t \in Tokens \ {n} : row'[t] = row[t]
  BY <1>5 DEF SessionInv, TypeOK
<1>8. n \notin made /\ made' = made \cup {n}
  BY <1>5, <1>7 DEF made
<1>9. /\ req' \in [Workers -> Request]
      /\ req'[w].op = "idle"
      /\ \A v \in Workers \ {w} : req'[v] = req[v]
  BY <1>5 DEF SessionInv, TypeOK, Idle, Request
<1>10. \A t \in made : t \in Tokens /\ t # n /\ claims'[t] = claims[t] /\ row'[t] = row[t]
  BY <1>6, <1>7, <1>8 DEF made
<1>11. \A t \in r.from :
          /\ t \in made /\ row[t] = "revoked" /\ w \notin closedBy[t]
          /\ \A u \in made : claims[u].by = w => claims[u].from # r.from
  BY <1>1 DEF SessionInv, ExchangeOK
<1>12. ~promoted => (~r.priv => role \notin PRIVILEGED_ROLES) /\ (r.priv /\ r.mfa => r.totp)
  BY <1>1 DEF SessionInv, RankOK
<1>13. TypeOK'
  <2>1. \A t \in made' : claims'[t] \in Claim
    BY <1>3, <1>6, <1>8, <1>10 DEF SessionInv, TypeOK
  <2> QED BY <1>5, <1>6, <1>7, <1>9, <2>1 DEF SessionInv, TypeOK
<1>14. ParentSpent'
  <2> SUFFICES ASSUME NEW u \in made', NEW t \in claims'[u].from PROVE row'[t] = "revoked"
    BY DEF ParentSpent
  <2>1. CASE u = n
    BY <1>3, <1>6, <1>10, <1>11, <2>1
  <2>2. CASE u # n
    <3>1. u \in made /\ claims'[u] = claims[u]
      BY <1>8, <1>10, <2>2
    <3>2. row[t] = "revoked" /\ t \in Tokens
      BY <3>1 DEF SessionInv, ParentSpent, TypeOK, Claim
    <3> QED BY <1>5, <1>7, <3>2
  <2> QED BY <2>1, <2>2
<1>15. ExchangedOnce'
  <2> SUFFICES ASSUME NEW u \in made', NEW v \in made',
                      claims'[u].from = claims'[v].from, claims'[u].from # {},
                      claims'[u].by = claims'[v].by
               PROVE  u = v
    BY DEF ExchangedOnce
  <2>1. CASE u # n /\ v # n
    BY <1>8, <1>10, <2>1 DEF SessionInv, ExchangedOnce
  <2>2. CASE u = n /\ v # n
    BY <1>3, <1>6, <1>8, <1>10, <1>11, <2>2
  <2>3. CASE u # n /\ v = n
    BY <1>3, <1>6, <1>8, <1>10, <1>11, <2>3
  <2> QED BY <2>1, <2>2, <2>3
<1>16. ClosedHasNoSuccessor'
  <2> SUFFICES ASSUME NEW u \in made', NEW t \in claims'[u].from PROVE claims'[u].by \notin closedBy[t]
    BY <1>5 DEF ClosedHasNoSuccessor
  <2>1. CASE u = n
    BY <1>3, <1>6, <1>11, <2>1
  <2>2. CASE u # n
    BY <1>8, <1>10, <2>2 DEF SessionInv, ClosedHasNoSuccessor
  <2> QED BY <2>1, <2>2
<1>17. TotpBehindUnlessPromoted'
  <2> SUFFICES ASSUME ~promoted, NEW t \in made', claims'[t].priv, claims'[t].mfa
               PROVE  claims'[t].totp
    BY <1>5 DEF TotpBehindUnlessPromoted, TotpBehind
  <2>1. CASE t = n
    BY <1>4, <1>6, <1>12, <2>1
  <2>2. CASE t # n
    BY <1>8, <1>10, <2>2 DEF SessionInv, TotpBehindUnlessPromoted, TotpBehind
  <2> QED BY <2>1, <2>2
<1>18. (\A t \in Tokens : row[t] # "revoked" => closedBy[t] = {})'
  BY <1>5, <1>7 DEF SessionInv
<1>19. \A v \in Workers : ExchangeOK(v)'
  <2> SUFFICES ASSUME NEW v \in Workers, req'[v].op \in {"rotate", "mint"}, NEW t \in req'[v].from
               PROVE  /\ t \in made'
                      /\ v \notin closedBy'[t]
                      /\ \A u \in made' : claims'[u].by = v => claims'[u].from # req'[v].from
                      /\ req'[v].op = "mint" => row'[t] = "revoked"
    BY DEF ExchangeOK
  <2>1. v # w /\ req'[v] = req[v]
    BY <1>9
  <2>2. /\ t \in made /\ v \notin closedBy[t]
        /\ \A u \in made : claims[u].by = v => claims[u].from # req[v].from
        /\ req[v].op = "mint" => row[t] = "revoked"
    BY <2>1 DEF SessionInv, ExchangeOK
  <2> QED BY <1>3, <1>5, <1>6, <1>8, <1>10, <2>1, <2>2
<1>20. RankOK'
  <2> SUFFICES ASSUME ~promoted PROVE RankOK'
    BY <1>5 DEF RankOK
  <2>1. ASSUME NEW t \in made', ~claims'[t].priv PROVE role \notin PRIVILEGED_ROLES
    <3>1. CASE t = n
      BY <1>4, <1>6, <1>12, <2>1, <3>1
    <3>2. CASE t # n
      BY <1>8, <1>10, <2>1, <3>2 DEF SessionInv, RankOK
    <3> QED BY <3>1, <3>2
  <2>2. ASSUME NEW v \in Workers, req'[v].op \in {"rotate", "mint"}
        PROVE  /\ ~req'[v].priv => role \notin PRIVILEGED_ROLES
               /\ req'[v].priv /\ req'[v].mfa => req'[v].totp
    BY <1>9, <2>2 DEF SessionInv, RankOK
  <2> QED BY <1>5, <2>1, <2>2 DEF RankOK
<1> QED
  BY <1>13, <1>14, <1>15, <1>16, <1>17, <1>18, <1>19, <1>20 DEF SessionInv

\* Ending tokens revokes rows and is remembered of live ones only; w has no exchange
\* of its own in flight.
LEMMA EndStep ==
    ASSUME SessionInv, NEW w \in Workers, NEW ts \in SUBSET Tokens,
           req[w].op \notin {"rotate", "mint"}, End(w, ts)
    PROVE  SessionInv'
<1>1. /\ row' = [t \in Tokens |-> IF t \in ts \cap live THEN "revoked" ELSE row[t]]
      /\ closedBy' = [t \in Tokens |-> IF t \in ts \cap live THEN {w} ELSE closedBy[t]]
      /\ req' = [req EXCEPT ![w] = Idle]
      /\ UNCHANGED <<role, promoted, mfaEnabled, claims>>
  BY DEF End, account
<1>2. /\ req' \in [Workers -> Request]
      /\ req'[w].op = "idle"
      /\ \A v \in Workers \ {w} : req'[v] = req[v]
  BY <1>1 DEF SessionInv, TypeOK, Idle, Request
<1>3. made' = made
  BY <1>1 DEF made, live
<1>4. \A t \in Tokens : row[t] = "revoked" => row'[t] = "revoked" /\ closedBy'[t] = closedBy[t]
  BY <1>1 DEF live
<1>5. \A t \in Tokens : closedBy'[t] = closedBy[t] \/ (closedBy'[t] = {w} /\ row[t] = "live" /\ row'[t] = "revoked")
  BY <1>1 DEF live
<1>6. TypeOK'
  BY <1>1, <1>2, <1>3 DEF SessionInv, TypeOK
<1>7. \A u \in made : \A t \in claims[u].from : t \in Tokens /\ row[t] = "revoked"
  BY DEF SessionInv, ParentSpent, TypeOK, Claim
<1>8. ParentSpent' /\ ClosedHasNoSuccessor'
  BY <1>1, <1>3, <1>4, <1>7 DEF SessionInv, ParentSpent, ClosedHasNoSuccessor
<1>9. ExchangedOnce' /\ TotpBehindUnlessPromoted'
  BY <1>1, <1>3 DEF SessionInv, ExchangedOnce, TotpBehindUnlessPromoted, TotpBehind
<1>10. (\A t \in Tokens : row[t] # "revoked" => closedBy[t] = {})'
  <2> SUFFICES ASSUME NEW t \in Tokens, row'[t] # "revoked" PROVE closedBy'[t] = {}
    OBVIOUS
  <2> QED BY <1>4, <1>5 DEF SessionInv
<1>11. \A v \in Workers : ExchangeOK(v)'
  <2> SUFFICES ASSUME NEW v \in Workers, req'[v].op \in {"rotate", "mint"}, NEW t \in req'[v].from
               PROVE  /\ t \in made'
                      /\ v \notin closedBy'[t]
                      /\ \A u \in made' : claims'[u].by = v => claims'[u].from # req'[v].from
                      /\ req'[v].op = "mint" => row'[t] = "revoked"
    BY DEF ExchangeOK
  <2>1. v # w /\ req'[v] = req[v]
    BY <1>2
  <2>2. /\ t \in made /\ v \notin closedBy[t] /\ t \in Tokens
        /\ \A u \in made : claims[u].by = v => claims[u].from # req[v].from
        /\ req[v].op = "mint" => row[t] = "revoked"
    BY <2>1 DEF SessionInv, ExchangeOK, made
  <2> QED BY <1>1, <1>3, <1>4, <1>5, <2>1, <2>2
<1>12. RankOK'
  <2> SUFFICES ASSUME ~promoted PROVE RankOK'
    BY <1>1 DEF RankOK
  <2>1. \A t \in made' : ~claims'[t].priv => role' \notin PRIVILEGED_ROLES
    BY <1>1, <1>3 DEF SessionInv, RankOK
  <2>2. ASSUME NEW v \in Workers, req'[v].op \in {"rotate", "mint"}
        PROVE  /\ ~req'[v].priv => role' \notin PRIVILEGED_ROLES
               /\ req'[v].priv /\ req'[v].mfa => req'[v].totp
    BY <1>1, <1>2, <2>2 DEF SessionInv, RankOK
  <2> QED BY <2>1, <2>2 DEF RankOK
<1> QED
  BY <1>6, <1>8, <1>9, <1>10, <1>11, <1>12 DEF SessionInv

LEMMA EnableStep ==
    ASSUME SessionInv, NEW w \in Workers, Enable(w)
    PROVE  SessionInv'
<1>1. /\ mfaEnabled' = TRUE
      /\ req' = [req EXCEPT ![w] = [op |-> "sweep"]]
      /\ UNCHANGED <<role, promoted, row, claims, closedBy>>
  BY DEF Enable, account, family
<1>2. /\ req' \in [Workers -> Request]
      /\ req'[w].op = "sweep"
      /\ \A v \in Workers \ {w} : req'[v] = req[v]
  BY <1>1 DEF SessionInv, TypeOK, Request, AccountRequest
<1>3. made' = made
  BY <1>1 DEF made
<1>4. TypeOK'
  BY <1>1, <1>2, <1>3 DEF SessionInv, TypeOK
<1>5. ParentSpent' /\ ExchangedOnce' /\ ClosedHasNoSuccessor' /\ TotpBehindUnlessPromoted'
  BY <1>1, <1>3 DEF SessionInv, ParentSpent, ExchangedOnce, ClosedHasNoSuccessor,
                    TotpBehindUnlessPromoted, TotpBehind
<1>6. (\A t \in Tokens : row[t] # "revoked" => closedBy[t] = {})'
  BY <1>1 DEF SessionInv
<1>7. \A v \in Workers : ExchangeOK(v)'
  BY <1>1, <1>2, <1>3 DEF SessionInv, ExchangeOK
<1>8. RankOK'
  BY <1>1, <1>2, <1>3 DEF SessionInv, RankOK
<1> QED
  BY <1>4, <1>5, <1>6, <1>7, <1>8 DEF SessionInv

LEMMA ChangeRoleStep ==
    ASSUME SessionInv, NEW r \in Roles, ChangeRole(r)
    PROVE  SessionInv'
<1>1. /\ role' = r
      /\ promoted' \in BOOLEAN
      /\ ~promoted' => ~promoted /\ (role \notin PRIVILEGED_ROLES => role' \notin PRIVILEGED_ROLES)
      /\ UNCHANGED <<mfaEnabled, row, claims, closedBy, req>>
  BY DEF ChangeRole, family
<1>2. made' = made
  BY <1>1 DEF made
<1>3. TypeOK'
  BY <1>1, <1>2 DEF SessionInv, TypeOK
<1>4. ParentSpent' /\ ExchangedOnce' /\ ClosedHasNoSuccessor' /\ TotpBehindUnlessPromoted'
  BY <1>1, <1>2 DEF SessionInv, ParentSpent, ExchangedOnce, ClosedHasNoSuccessor,
                    TotpBehindUnlessPromoted, TotpBehind
<1>5. (\A t \in Tokens : row[t] # "revoked" => closedBy[t] = {})'
  BY <1>1 DEF SessionInv
<1>6. \A v \in Workers : ExchangeOK(v)'
  BY <1>1, <1>2 DEF SessionInv, ExchangeOK
<1>7. RankOK'
  BY <1>1, <1>2 DEF SessionInv, RankOK
<1> QED
  BY <1>3, <1>4, <1>5, <1>6, <1>7 DEF SessionInv

-----------------------------------------------------------------------------
LEMMA StepInv == SessionInv /\ [Next]_vars => SessionInv'
<1> SUFFICES ASSUME SessionInv, [Next]_vars PROVE SessionInv'
  OBVIOUS
<1>1. ASSUME NEW r \in Roles, ChangeRole(r) PROVE SessionInv'
  BY <1>1, ChangeRoleStep
<1>2. ASSUME NEW w \in Workers, Begin(w) PROVE SessionInv'
  BY <1>2, LoginSteps, RefreshStep DEF Begin
<1>3. ASSUME NEW w \in Workers, Continue(w) PROVE SessionInv'
  <2>1. CASE Sweep(w)
    BY <2>1, EndStep DEF Sweep
  <2> QED
    BY <1>3, <2>1, RotateStep, EnableStep, MintStep DEF Continue
<1>4. ASSUME NEW w \in Workers, Closing(w) PROVE SessionInv'
  <2>1. PICK ts \in SUBSET Tokens : End(w, ts) /\ req[w] = Idle
    BY <1>4 DEF Closing, CloseAll, Close, RevokeSession, Reuse
  <2>2. req[w].op \notin {"rotate", "mint"}
    BY <2>1 DEF Idle
  <2> QED
    BY <2>1, <2>2, EndStep
<1>5. ASSUME NEW w \in Workers, Fail(w) PROVE SessionInv'
  BY <1>5, IdleStep DEF Fail
<1>6. CASE UNCHANGED vars
  <2>1. made' = made
    BY <1>6 DEF vars, made
  <2> QED
    BY <1>6, <2>1 DEF vars, SessionInv, TypeOK, ParentSpent, ExchangedOnce, ClosedHasNoSuccessor,
                      TotpBehindUnlessPromoted, TotpBehind, ExchangeOK, RankOK
<1> QED
  BY <1>1, <1>2, <1>3, <1>4, <1>5, <1>6 DEF Next

LEMMA Invariant == Spec => []SessionInv
BY InitInv, StepInv, PTL DEF Spec

\* The columns, and what each request in flight carries, keep their types.
THEOREM TypeCorrect == Spec => []TypeOK
<1>1. SessionInv => TypeOK
  BY DEF SessionInv
<1> QED
  BY <1>1, Invariant, PTL

\* refreshToken: a session made by an exchange never coexists with the one it
\* replaced, however requests interleave and wherever they die.
THEOREM RotationSpends == Spec => []ParentSpent
<1>1. SessionInv => ParentSpent
  BY DEF SessionInv
<1> QED
  BY <1>1, Invariant, PTL

\* refreshToken: two successors of one token were made by requests that overlapped.
THEOREM RotationIsExact == Spec => []ExchangedOnce
<1>1. SessionInv => ExchangedOnce
  BY DEF SessionInv
<1> QED
  BY <1>1, Invariant, PTL

\* revokeAllUserSessions, revokeSession, logout: only an exchange that overlapped
\* the end of a session can outlive it.
THEOREM RevocationHolds == Spec => []ClosedHasNoSuccessor
<1>1. SessionInv => ClosedHasNoSuccessor
  BY DEF SessionInv
<1> QED
  BY <1>1, Invariant, PTL

\* generateTokens: without a promotion, what passes as a verified privileged
\* session goes back to a TOTP code, through any number of exchanges.
THEOREM PrivilegeNeedsTotp == Spec => []TotpBehindUnlessPromoted
<1>1. SessionInv => TotpBehindUnlessPromoted
  BY DEF SessionInv
<1> QED
  BY <1>1, Invariant, PTL

\* With requests handled one at a time rotation is exact: a token has at most one
\* successor, and one that was ended by anything but its exchange has none.
THEOREM SerialRotation ==
    ASSUME \A v, w \in Workers : v = w
    PROVE  Spec => [](/\ \A u, v \in made : claims[u].from = claims[v].from /\ claims[u].from # {} => u = v
                      /\ \A u \in made : \A t \in claims[u].from : closedBy[t] = {})
<1>1. SessionInv => /\ \A u, v \in made : claims[u].from = claims[v].from /\ claims[u].from # {} => u = v
                    /\ \A u \in made : \A t \in claims[u].from : closedBy[t] = {}
  <2> SUFFICES ASSUME SessionInv
               PROVE  /\ \A u, v \in made : claims[u].from = claims[v].from /\ claims[u].from # {} => u = v
                      /\ \A u \in made : \A t \in claims[u].from : closedBy[t] = {}
    OBVIOUS
  <2>1. \A u \in made : claims[u].by \in Workers /\ claims[u].from \subseteq Tokens
    BY DEF SessionInv, TypeOK, Claim
  <2>2. \A u, v \in made : claims[u].from = claims[v].from /\ claims[u].from # {} => u = v
    BY <2>1 DEF SessionInv, ExchangedOnce
  <2>3. \A u \in made : \A t \in claims[u].from : closedBy[t] = {}
    <3> SUFFICES ASSUME NEW u \in made, NEW t \in claims[u].from, closedBy[t] # {} PROVE FALSE
      OBVIOUS
    <3>1. PICK w \in closedBy[t] : w \in Workers
      BY <2>1 DEF SessionInv, TypeOK
    <3>2. w = claims[u].by
      BY <2>1, <3>1
    <3> QED BY <3>1, <3>2 DEF SessionInv, ClosedHasNoSuccessor
  <2> QED BY <2>2, <2>3
<1> QED
  BY <1>1, Invariant, PTL


\* Refresh rotation: only a request that overlapped the exchange or the end of a
\* session gives it a successor too many.
THEOREM SuccessorsAreExact == Spec => []SuccessorsNeedOverlap
<1>1. ExchangedOnce /\ ClosedHasNoSuccessor => SuccessorsNeedOverlap
  BY DEF SuccessorsNeedOverlap
<1>2. QED
  BY <1>1, RotationIsExact, RevocationHolds, PTL
=============================================================================
