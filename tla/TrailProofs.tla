----------------------------- MODULE TrailProofs ------------------------------
(***************************************************************************)
(* The lock and the closing of the sessions of Accounts, for every number  *)
(* of requests, changes of the password and wrong passwords.  AccountInv   *)
(* is inductive by itself: a request that is alone finds the counter and   *)
(* the password it read.  TrailInv counts the deeds and the alerts of the  *)
(* requests let through in the rows, in the slots and in what was lost.    *)
(***************************************************************************)
EXTENDS Trail, TLAPS, FiniteSetTheorems

\* What the fields of a request under way are.
LEMMA RequestShape ==
    ASSUME AccountInv, NEW w \in Workers
    PROVE  /\ req[w].op = "login" => /\ req[w].seen \in Nat /\ req[w].password \in Generation
                                     /\ req[w].right \in BOOLEAN
                                     /\ req[w].as \in Roles
           /\ req[w].op = "mint" => /\ req[w].password \in Generation /\ req[w].role \in Roles
                                    /\ req[w].factor \in Factor
           /\ req[w].op \in AccountOps <=> req[w] \in AccountRequest
           /\ req[w].op \in AccountOps <=> w \in Busy
<1>1. req[w].op \in AccountOps <=> req[w] \in AccountRequest
  BY DEF AccountInv
<1>2. req[w].op \in {"login", "mint"} => req[w] \in LoginRequest \cup MintRequest
  BY <1>1 DEF AccountOps, AccountRequest, PlainRequest
<1> QED BY <1>1, <1>2 DEF LoginRequest, MintRequest, Busy

\* What a request of the account is about to do.
LEMMA OpsOfRequests ==
    /\ \A r \in AccountRequest : r.op \in AccountOps
    /\ Idle.op \notin AccountOps /\ Idle \notin AccountRequest
BY DEF AccountRequest, LoginRequest, MintRequest, PlainRequest, AccountOps, Idle

\* What generateTokens is about to make.
LEMMA MintingIs ==
    ASSUME NEW r \in Roles, NEW p \in Generation, NEW f \in Factor
    PROVE  /\ Minting(r, p, f) \in AccountRequest
           /\ Minting(r, p, f).op = "mint" /\ Minting(r, p, f).password = p
           /\ Minting(r, p, f).role = r
           /\ Minting(r, p, f).factor = "totp" <=> f = "totp"
           /\ r \in PRIVILEGED_ROLES => Minting(r, p, f).factor = f
BY DEF Minting, AccountRequest, MintRequest, Factor

\* A request that has been alone so far: no other is on the account.
LEMMA Alone ==
    ASSUME AccountInv, ~overlap, NEW w \in Busy
    PROVE  \A v \in Workers \ {w} : req[v].op \notin AccountOps
BY RequestShape DEF AccountInv

\* A request under way goes on or ends: what is left to show.
LEMMA SlotStep ==
    ASSUME AccountInv, NEW w \in Busy, NEW r \in AccountRequest \cup {Idle},
           req' = [req EXCEPT ![w] = r],
           UNCHANGED overlap,
           AccountTypeOK',
           WrongOnesLock',
           ~overlap => ReadOK(r)',
           ~overlap /\ ~torn' /\ r.op # "sweep" =>
               \A s \in sessions' : s.password = password' \/ s.factor = "totp"
    PROVE  AccountInv'
<1>1. /\ w \in Workers /\ req = [v \in Workers |-> req[v]]
      /\ \A v \in Workers : req[v].op \in AccountOps <=> req[v] \in AccountRequest
  BY DEF Busy, AccountInv
<1>2. /\ req' = [v \in Workers |-> IF v = w THEN r ELSE req[v]]
      /\ req' = [v \in Workers |-> req'[v]]
      /\ \A v \in Workers : req'[v].op \in AccountOps <=> req'[v] \in AccountRequest
  BY <1>1, OpsOfRequests
<1>3. ASSUME ~overlap'
      PROVE  (\A u, v \in Busy : u = v)' /\ (\A v \in Workers : ReadOK(req[v]))'
  <2>1. \A v \in Workers \ {w} : req[v].op \notin AccountOps
    BY <1>3, Alone
  <2>2. \A v \in Workers \ {w} : req'[v].op \notin AccountOps
    BY <1>2, <2>1
  <2>4. (\A u, v \in Busy : u = v)'
    BY <1>2, <2>2 DEF Busy
  <2>5. ASSUME NEW v \in Workers PROVE ReadOK(req[v])'
    <3>1. CASE v = w
      BY <1>2, <1>3, <3>1
    <3>2. CASE v # w
      BY <2>2, <3>2 DEF ReadOK, AccountOps
    <3> QED BY <3>1, <3>2
  <2> QED BY <2>4, <2>5
<1>4. OldPasswordClosed'
  BY <1>1, <1>2 DEF OldPasswordClosed
<1> QED BY <1>2, <1>3, <1>4 DEF AccountInv

\* A request starts: with another under way, nothing is promised any more.
LEMMA StartStep ==
    ASSUME AccountInv, NEW w \in Workers, NEW r \in AccountRequest, Begin(w, r),
           sessions' \subseteq sessions,
           UNCHANGED <<person, failed, lock, password, pending, tokens, torn>>,
           r.op # "sweep",
           Busy = {} /\ ~overlap => ReadOK(r)
    PROVE  AccountInv'
<1>1. /\ req[w] = Idle /\ req' = [req EXCEPT ![w] = r]
      /\ overlap' = (overlap \/ Busy # {}) /\ wrong' = (IF overlap' THEN 0 ELSE wrong)
      /\ begun < MaxRequests /\ begun' = begun + 1 /\ sessions' \subseteq sessions
      /\ UNCHANGED <<role, promoted, mfaEnabled, failed, lock, password, pending, tokens, torn>>
  BY DEF Begin, person
<1>2. /\ AccountTypeOK /\ req = [v \in Workers |-> req[v]]
      /\ \A v \in Workers : req[v].op \in AccountOps <=> req[v] \in AccountRequest
      /\ WrongOnesLock /\ OldPasswordClosed
  BY DEF AccountInv
<1>3. /\ req' = [v \in Workers |-> IF v = w THEN r ELSE req[v]]
      /\ req' = [v \in Workers |-> req'[v]]
      /\ \A v \in Workers : req'[v].op \in AccountOps <=> req'[v] \in AccountRequest
  BY <1>1, <1>2, OpsOfRequests
<1>4. overlap' \in BOOLEAN /\ (~overlap' => ~overlap /\ Busy = {})
  BY <1>1
<1>5. AccountTypeOK'
  <2>1. wrong' \in 0..MaxWrong
    BY <1>1, <1>2, AccountAssumption DEF AccountTypeOK
  <2>2. begun' \in 0..MaxRequests
    BY <1>1, <1>2, AccountAssumption DEF AccountTypeOK
  <2>3. sessions' \subseteq [password : Generation, factor : Factor]
    BY <1>1, <1>2 DEF AccountTypeOK
  <2> QED BY <1>1, <1>2, <1>4, <2>1, <2>2, <2>3 DEF AccountTypeOK
<1>6. WrongOnesLock'
  BY <1>1, <1>2, <1>4 DEF WrongOnesLock
<1>7. ASSUME ~overlap' PROVE (\A u, v \in Busy : u = v)' /\ (\A v \in Workers : ReadOK(req[v]))'
  <2>1. \A v \in Workers \ {w} : req'[v].op \notin AccountOps
    BY <1>2, <1>3, <1>4, <1>7 DEF Busy
  <2>2. req'[w] = r /\ ReadOK(r)'
    BY <1>1, <1>3, <1>4, <1>7 DEF ReadOK
  <2> QED BY <1>3, <2>1, <2>2 DEF Busy, ReadOK, AccountOps
<1>8. OldPasswordClosed'
  <2> SUFFICES ASSUME ~overlap', ~torn' PROVE \A s \in sessions' : s.password = password' \/ s.factor = "totp"
    BY DEF OldPasswordClosed
  <2>1. \A v \in Workers : req[v].op # "sweep"
    BY <1>4, RequestShape DEF AccountOps
  <2> QED BY <1>1, <1>2, <1>4, <2>1 DEF OldPasswordClosed
<1> QED BY <1>3, <1>5, <1>6, <1>7, <1>8 DEF AccountInv

LEMMA BeginSteps ==
    ASSUME AccountInv, NEW w \in Workers,
           \/ BeginLogin(w) \/ BeginMechanicLogin(w) \/ BeginVerifyMfa(w) \/ BeginRefresh(w)
           \/ BeginChange(w)
    PROVE  AccountInv'
<1>0. AccountTypeOK
  BY DEF AccountInv
<1>s. ASSUME NEW r \in AccountRequest, Start(w, r), r.op # "sweep", ReadOK(r) PROVE AccountInv'
  <2>1. UNCHANGED <<person, failed, lock, password, pending, sessions, tokens, torn>>
    BY <1>s DEF Start, keys
  <2>2. Begin(w, r)
    BY <1>s DEF Start
  <2> QED BY <1>s, <2>1, <2>2, StartStep
<1>1. ASSUME BeginLogin(w) PROVE AccountInv'
  <2> PICK right \in BOOLEAN :
        Start(w, [op |-> "login", seen |-> failed, password |-> password, right |-> right,
                  as |-> role])
    BY <1>1 DEF BeginLogin
  <2>1. [op |-> "login", seen |-> failed, password |-> password, right |-> right, as |-> role]
          \in AccountRequest
    BY <1>0 DEF AccountTypeOK, AccountRequest, LoginRequest
  <2>2. \A r : r = [op |-> "login", seen |-> failed, password |-> password, right |-> right,
                    as |-> role] =>
          r \in AccountRequest /\ Start(w, r) /\ r.op # "sweep" /\ ReadOK(r)
    BY <2>1 DEF ReadOK
  <2> QED BY <1>s, <2>2
<1>2. ASSUME BeginVerifyMfa(w) PROVE AccountInv'
  <2> PICK p \in pending : Start(w, Minting(role, p, "totp"))
    BY <1>2 DEF BeginVerifyMfa
  <2>1. p \in Generation /\ role \in Roles /\ "totp" \in Factor
    BY <1>0 DEF AccountTypeOK, Factor
  <2>2. \A r : r = Minting(role, p, "totp") =>
          r \in AccountRequest /\ Start(w, r) /\ r.op # "sweep" /\ ReadOK(r)
    BY <2>1, MintingIs DEF ReadOK
  <2> QED BY <1>s, <2>2
<1>3. ASSUME BeginMechanicLogin(w) PROVE AccountInv'
  <2>1. password \in Generation /\ role \in Roles /\ "none" \in Factor
    BY <1>0 DEF AccountTypeOK, Factor
  <2>2. \A r : r = Minting(role, password, "none") =>
          r \in AccountRequest /\ Start(w, r) /\ r.op # "sweep" /\ ReadOK(r)
    BY <1>3, <2>1, MintingIs DEF BeginMechanicLogin, ReadOK
  <2> QED BY <1>s, <2>2
<1>4. ASSUME BeginRefresh(w) PROVE AccountInv'
  <2>1. PICK t \in sessions :
          /\ Begin(w, Minting(role, t.password, t.factor))
          /\ sessions' \in {sessions, sessions \ {t}}
          /\ UNCHANGED <<person, failed, lock, password, pending, tokens, torn>>
    BY <1>4 DEF BeginRefresh
  <2>2. role \in Roles /\ t.password \in Generation /\ t.factor \in Factor
    BY <1>0 DEF AccountTypeOK
  <2> DEFINE r == Minting(role, t.password, t.factor)
  <2>3. r \in AccountRequest /\ r.op = "mint" /\ r.password = t.password
        /\ (r.factor = "totp" <=> t.factor = "totp")
    BY <2>2, MintingIs
  <2> HIDE DEF r
  <2>4. Begin(w, r)
    BY <2>1 DEF r
  <2>5. Busy = {} /\ ~overlap => ReadOK(r)
    <3> SUFFICES ASSUME Busy = {}, ~overlap PROVE ReadOK(r)
      OBVIOUS
    <3>1. \A v \in Workers : req[v].op # "sweep"
      BY RequestShape DEF AccountOps
    <3>2. CASE torn
      BY <2>3, <3>2 DEF ReadOK
    <3>3. CASE ~torn
      BY <2>3, <3>1, <3>3 DEF ReadOK, AccountInv, OldPasswordClosed
    <3> QED BY <3>2, <3>3
  <2>6. sessions' \subseteq sessions
    BY <2>1
  <2> QED BY <2>1, <2>3, <2>4, <2>5, <2>6, StartStep
<1>5. ASSUME BeginChange(w) PROVE AccountInv'
  <2>1. \A r : r = [op |-> "change"] =>
          r \in AccountRequest /\ Start(w, r) /\ r.op # "sweep" /\ ReadOK(r)
    BY <1>5 DEF BeginChange, ReadOK, AccountRequest, PlainRequest
  <2> QED BY <1>s, <2>1
<1> QED BY <1>1, <1>2, <1>3, <1>4, <1>5

\* The count that was read is still the count, so one more wrong password is
\* one more counted, and the lock comes with the last.
LEMMA LoginWrongStep ==
    ASSUME AccountInv, NEW w \in Workers, LoginWrong(w) PROVE AccountInv'
<1>1. /\ req[w].op = "login" /\ req[w].seen < MaxWrong
      /\ failed' = req[w].seen + 1
      /\ lock' = IF req[w].seen + 1 >= MaxFailed THEN "ahead" ELSE lock
      /\ wrong' = IF overlap THEN 0 ELSE wrong + 1
      /\ req' = [req EXCEPT ![w] = Idle]
      /\ UNCHANGED <<role, promoted, mfaEnabled, password, pending, sessions, tokens, overlap, torn, begun>>
  BY DEF LoginWrong, person, keys, mishaps
<1>2. /\ AccountTypeOK /\ WrongOnesLock /\ OldPasswordClosed /\ w \in Busy /\ req[w].seen \in Nat
      /\ ~overlap => ReadOK(req[w]) /\ \A v \in Workers \ {w} : req[v].op \notin AccountOps
  BY <1>1, RequestShape, Alone DEF AccountInv, AccountOps
<1>3. ~overlap => req[w].seen = wrong
  BY <1>1, <1>2 DEF ReadOK, WrongOnesLock
<1>4. AccountTypeOK'
  <2>1. wrong' \in 0..MaxWrong
    BY <1>1, <1>2, <1>3, AccountAssumption DEF AccountTypeOK
  <2> QED BY <1>1, <1>2, <2>1 DEF AccountTypeOK
<1>5. WrongOnesLock'
  BY <1>1, <1>2, <1>3 DEF WrongOnesLock
<1>6. ~overlap /\ ~torn' => \A s \in sessions' : s.password = password' \/ s.factor = "totp"
  BY <1>1, <1>2 DEF OldPasswordClosed, AccountOps
<1>7. ReadOK(Idle)'
  BY DEF ReadOK, Idle
<1> QED BY <1>1, <1>2, <1>4, <1>5, <1>6, <1>7, SlotStep

LEMMA LoginRightStep ==
    ASSUME AccountInv, NEW w \in Workers, LoginRight(w) PROVE AccountInv'
<1>1. /\ req[w].op = "login" /\ failed' = 0 /\ lock' = "none" /\ wrong' = 0
      /\ UNCHANGED <<role, promoted, mfaEnabled, password, sessions, tokens, overlap, torn, begun>>
      /\ \/ /\ pending' = pending \cup {req[w].password}
            /\ req' = [req EXCEPT ![w] = Idle]
         \/ /\ req' = [req EXCEPT ![w] = Minting(req[w].as, req[w].password, "none")]
            /\ pending' = pending
  BY DEF LoginRight, person, mishaps
<1>2. /\ AccountTypeOK /\ OldPasswordClosed /\ w \in Busy
      /\ req[w].password \in Generation /\ req[w].as \in Roles
      /\ ~overlap => ReadOK(req[w]) /\ \A v \in Workers \ {w} : req[v].op \notin AccountOps
  BY <1>1, RequestShape, Alone DEF AccountInv, AccountOps
<1>3. AccountTypeOK'
  BY <1>1, <1>2, AccountAssumption DEF AccountTypeOK
<1>4. WrongOnesLock'
  BY <1>1, AccountAssumption DEF WrongOnesLock
<1>5. ~overlap /\ ~torn' => \A s \in sessions' : s.password = password' \/ s.factor = "totp"
  BY <1>1, <1>2 DEF OldPasswordClosed, AccountOps
<1>6. CASE req' = [req EXCEPT ![w] = Idle]
  <2>1. ReadOK(Idle)'
    BY DEF ReadOK, Idle
  <2> QED BY <1>1, <1>2, <1>3, <1>4, <1>5, <1>6, <2>1, SlotStep
<1>7. ASSUME NEW r, r = Minting(req[w].as, req[w].password, "none"),
             req' = [req EXCEPT ![w] = r]
      PROVE  AccountInv'
  <2>1. r \in AccountRequest /\ r.op = "mint" /\ r.password = req[w].password
    BY <1>2, <1>7, MintingIs DEF Factor
  <2>2. ~overlap => ReadOK(r)'
    BY <1>1, <1>2, <2>1 DEF ReadOK
  <2> QED BY <1>1, <1>2, <1>3, <1>4, <1>5, <1>7, <2>1, <2>2, SlotStep
<1> QED BY <1>1, <1>6, <1>7

LEMMA MintStep ==
    ASSUME AccountInv, NEW w \in Workers, Mint(w) PROVE AccountInv'
<1>1. /\ req[w].op = "mint"
      /\ sessions' = sessions \cup {[password |-> req[w].password, factor |-> req[w].factor]}
      /\ tokens' = tokens \cup {[role |-> req[w].role, factor |-> req[w].factor]}
      /\ req' = [req EXCEPT ![w] = Idle]
      /\ UNCHANGED <<role, promoted, mfaEnabled, failed, lock, wrong, password, pending, overlap, torn, begun>>
  BY DEF Mint, person, counter, mishaps
<1>2. /\ AccountTypeOK /\ WrongOnesLock /\ OldPasswordClosed /\ w \in Busy
      /\ req[w].password \in Generation /\ req[w].role \in Roles /\ req[w].factor \in Factor
      /\ ~overlap => ReadOK(req[w]) /\ \A v \in Workers \ {w} : req[v].op \notin AccountOps
  BY <1>1, RequestShape, Alone DEF AccountInv, AccountOps
<1>3. AccountTypeOK'
  <2>1. tokens' \subseteq [role : Roles, factor : Factor]
    BY <1>1, <1>2 DEF AccountTypeOK
  <2>2. sessions' \subseteq [password : Generation, factor : Factor]
    BY <1>1, <1>2 DEF AccountTypeOK
  <2> QED BY <1>1, <1>2, <2>1, <2>2 DEF AccountTypeOK
<1>4. WrongOnesLock'
  BY <1>1, <1>2 DEF WrongOnesLock
<1>5. ASSUME ~overlap, ~torn' PROVE \A s \in sessions' : s.password = password' \/ s.factor = "totp"
  <2>1. \A s \in sessions : s.password = password \/ s.factor = "totp"
    BY <1>1, <1>2, <1>5 DEF OldPasswordClosed, AccountOps
  <2>2. req[w].factor = "totp" \/ req[w].password = password
    BY <1>1, <1>2, <1>5 DEF ReadOK
  <2> QED BY <1>1, <2>1, <2>2
<1>6. ReadOK(Idle)'
  BY DEF ReadOK, Idle
<1> QED BY <1>1, <1>2, <1>3, <1>4, <1>5, <1>6, SlotStep

LEMMA WritePasswordStep ==
    ASSUME AccountInv, NEW w \in Workers, WritePassword(w) PROVE AccountInv'
<1>1. /\ req[w].op = "change" /\ password < MaxChanges /\ password' = password + 1
      /\ req' = [req EXCEPT ![w] = [op |-> "sweep"]]
      /\ UNCHANGED <<role, promoted, mfaEnabled, failed, lock, wrong, pending, sessions, tokens, overlap, torn, begun>>
  BY DEF WritePassword, person, counter, keys, mishaps
<1>2. AccountTypeOK /\ WrongOnesLock /\ w \in Busy
  BY <1>1, RequestShape DEF AccountInv, AccountOps
<1>3. AccountTypeOK'
  BY <1>1, <1>2, AccountAssumption DEF AccountTypeOK, Generation
<1>4. WrongOnesLock'
  BY <1>1, <1>2 DEF WrongOnesLock
<1>5. ASSUME NEW r, r = [op |-> "sweep"] PROVE AccountInv'
  <2>1. r \in AccountRequest /\ r.op = "sweep" /\ ReadOK(r)'
    BY <1>5 DEF AccountRequest, PlainRequest, ReadOK
  <2> QED BY <1>1, <1>2, <1>3, <1>4, <1>5, <2>1, SlotStep
<1> QED BY <1>5

\* The sweep closes the sessions, the ones of the new password among them.
LEMMA SweepStep ==
    ASSUME AccountInv, NEW w \in Workers, Sweep(w) PROVE AccountInv'
<1>1. /\ req[w].op = "sweep" /\ sessions' = {}
      /\ req' = [req EXCEPT ![w] = Idle]
      /\ UNCHANGED <<role, promoted, mfaEnabled, failed, lock, wrong, password, pending, tokens, overlap, torn, begun>>
  BY DEF Sweep, person, counter, mishaps
<1>2. AccountTypeOK /\ WrongOnesLock /\ w \in Busy
  BY <1>1, RequestShape DEF AccountInv, AccountOps
<1>3. AccountTypeOK' /\ WrongOnesLock' /\ ReadOK(Idle)'
  BY <1>1, <1>2 DEF AccountTypeOK, WrongOnesLock, ReadOK, Idle
<1> QED BY <1>1, <1>2, <1>3, SlotStep

LEMMA FailStep ==
    ASSUME AccountInv, NEW w \in Workers, Fail(w) PROVE AccountInv'
<1>1. /\ req[w] \in AccountRequest
      /\ torn' = (torn \/ req[w].op = "sweep")
      /\ req' = [req EXCEPT ![w] = Idle]
      /\ UNCHANGED <<role, promoted, mfaEnabled, failed, lock, wrong, password, pending, sessions, tokens, overlap, begun>>
  BY DEF Fail, person, counter, keys
<1>2. AccountTypeOK /\ WrongOnesLock /\ OldPasswordClosed /\ w \in Busy
  BY <1>1, RequestShape DEF AccountInv, AccountOps
<1>3. AccountTypeOK' /\ WrongOnesLock' /\ ReadOK(Idle)'
  BY <1>1, <1>2 DEF AccountTypeOK, WrongOnesLock, ReadOK, Idle
<1>4. ASSUME ~overlap, ~torn' PROVE \A s \in sessions' : s.password = password' \/ s.factor = "totp"
  <2>1. /\ ~torn /\ req[w].op # "sweep"
        /\ \A v \in Workers \ {w} : req[v].op \notin AccountOps
    BY <1>1, <1>2, <1>4, Alone DEF AccountTypeOK
  <2> QED BY <1>1, <1>2, <1>4, <2>1 DEF OldPasswordClosed, AccountOps
<1> QED BY <1>1, <1>2, <1>3, <1>4, SlotStep

\* A lock that has lapsed is still on record.
LEMMA LapseStep == ASSUME AccountInv, Lapse PROVE AccountInv'
<1>1. /\ UNCHANGED <<role, promoted, mfaEnabled, failed, wrong, password, pending, sessions, tokens,
                     overlap, torn, begun, req>>
      /\ lock' = lock \/ lock' = "past"
  BY DEF Lapse, person, keys, mishaps
<1>2. AccountTypeOK'
  BY <1>1 DEF AccountInv, AccountTypeOK
<1> QED BY <1>1, <1>2 DEF AccountInv, WrongOnesLock, OldPasswordClosed, Busy, ReadOK

LEMMA ChangeRoleStep == ASSUME AccountInv, NEW r \in Roles, ChangeRole(r) PROVE AccountInv'
<1>1. /\ role' = r /\ promoted' \in BOOLEAN
      /\ UNCHANGED <<mfaEnabled, failed, lock, wrong, password, pending, sessions, tokens,
                     overlap, torn, begun, req>>
  BY DEF ChangeRole, counter, keys, mishaps, AccountInv, AccountTypeOK
<1>2. AccountTypeOK'
  BY <1>1 DEF AccountInv, AccountTypeOK
<1> QED BY <1>1, <1>2 DEF AccountInv, WrongOnesLock, OldPasswordClosed, Busy, ReadOK

LEMMA AccountInitially == AccountInit => AccountInv
<1> SUFFICES ASSUME AccountInit PROVE AccountInv
  OBVIOUS
<1>1. AccountTypeOK
  <2>1. 0 \in Generation /\ 0 \in 0..MaxWrong /\ 0 \in 0..MaxRequests
    BY AccountAssumption DEF Generation
  <2>2. overlap = FALSE /\ torn = FALSE /\ promoted = FALSE
    BY DEF AccountInit
  <2>3. /\ sessions \subseteq [password : Generation, factor : Factor]
        /\ tokens \subseteq [role : Roles, factor : Factor]
    BY DEF AccountInit
  <2> QED BY <2>1, <2>2, <2>3 DEF AccountInit, AccountTypeOK
<1>2. /\ req = [w \in Workers |-> req[w]]
      /\ \A w \in Workers : req[w].op \in AccountOps <=> req[w] \in AccountRequest
      /\ \A w \in Workers : ReadOK(req[w])
      /\ Busy = {}
  BY OpsOfRequests DEF AccountInit, Busy, ReadOK, Idle
<1>3. WrongOnesLock /\ OldPasswordClosed
  BY AccountAssumption DEF AccountInit, WrongOnesLock, OldPasswordClosed
<1> QED BY <1>1, <1>2, <1>3 DEF AccountInv

\* A step of a request on the account.
LEMMA AccountStep ==
    ASSUME AccountInv, AccountNext PROVE AccountInv'
BY LapseStep, ChangeRoleStep, BeginSteps, LoginWrongStep, LoginRightStep, MintStep,
   WritePasswordStep, SweepStep, FailStep DEF AccountNext, AccountRequestNext

\* What a handler of the account reads is still so when it writes, until two
\* of them overlap.
THEOREM AccountInvariant == AccountSpec => []AccountInv
<1> DEFINE v == <<person, counter, password, keys, mishaps, req>>
<1>1. AccountInv /\ [AccountNext]_v => AccountInv'
  <2> SUFFICES ASSUME AccountInv, [AccountNext]_v PROVE AccountInv'
    OBVIOUS
  <2>1. CASE AccountNext
    BY <2>1, AccountStep
  <2>2. CASE UNCHANGED v
    BY <2>2 DEF person, counter, keys, mishaps, AccountInv, AccountTypeOK, WrongOnesLock,
                OldPasswordClosed, Busy, ReadOK
  <2> QED BY <2>1, <2>2
<1> QED BY <1>1, AccountInitially, PTL DEF AccountSpec

-----------------------------------------------------------------------------
(* Trail *)

\* Two alerts of different kinds are told apart, and so are two lists of them.
LEMMA JoinDiffers ==
    ASSUME NEW s \in Seq(Kind), NEW t \in Seq(Kind), IsInjective(s), IsInjective(t),
           ToSet(s) \cap ToSet(t) = {}
    PROVE  /\ s \o t \in Seq(Kind) /\ IsInjective(s \o t)
           /\ ToSet(s \o t) = ToSet(s) \cup ToSet(t)
<1>1. /\ s \o t \in Seq(Kind) /\ DOMAIN (s \o t) = 1..(Len(s) + Len(t))
      /\ \A i \in 1..(Len(s) + Len(t)) :
           (s \o t)[i] = IF i <= Len(s) THEN s[i] ELSE t[i - Len(s)]
  OBVIOUS
<1>2. Len(s) \in Nat /\ Len(t) \in Nat /\ DOMAIN s = 1..Len(s) /\ DOMAIN t = 1..Len(t)
  OBVIOUS
<1>3. \A i \in 1..Len(s), j \in 1..Len(t) : s[i] # t[j]
  BY <1>2 DEF ToSet
<1>4. ASSUME NEW i \in 1..(Len(s) + Len(t)), NEW j \in 1..(Len(s) + Len(t)),
             (s \o t)[i] = (s \o t)[j]
      PROVE  i = j
  <2>1. CASE i <= Len(s) /\ j <= Len(s)
    BY <1>1, <1>2, <1>4, <2>1 DEF IsInjective
  <2>2. CASE i > Len(s) /\ j > Len(s)
    <3>1. i - Len(s) \in DOMAIN t /\ j - Len(s) \in DOMAIN t /\ t[i - Len(s)] = t[j - Len(s)]
      BY <1>1, <1>2, <1>4, <2>2
    <3>2. i - Len(s) = j - Len(s)
      BY <3>1 DEF IsInjective
    <3> QED BY <1>2, <3>2
  <2>3. CASE i <= Len(s) /\ j > Len(s)
    <3>1. i \in 1..Len(s) /\ j - Len(s) \in 1..Len(t) /\ s[i] = t[j - Len(s)]
      BY <1>1, <1>2, <1>4, <2>3
    <3> QED BY <1>3, <3>1
  <2>4. CASE i > Len(s) /\ j <= Len(s)
    <3>1. j \in 1..Len(s) /\ i - Len(s) \in 1..Len(t) /\ s[j] = t[i - Len(s)]
      BY <1>1, <1>2, <1>4, <2>4
    <3> QED BY <1>3, <3>1
  <2> QED BY <1>2, <2>1, <2>2, <2>3, <2>4
<1>5. ToSet(s \o t) = ToSet(s) \cup ToSet(t)
  <2>1. ToSet(s \o t) \subseteq ToSet(s) \cup ToSet(t)
    BY <1>1, <1>2 DEF ToSet
  <2>2. \A i \in 1..Len(s) : i \in DOMAIN (s \o t) /\ (s \o t)[i] = s[i]
    BY <1>1, <1>2
  <2>3. \A i \in 1..Len(t) : Len(s) + i \in DOMAIN (s \o t) /\ (s \o t)[Len(s) + i] = t[i]
    BY <1>1, <1>2
  <2>4. ToSet(s) \subseteq ToSet(s \o t)
    BY <1>2, <2>2 DEF ToSet
  <2>5. ToSet(t) \subseteq ToSet(s \o t)
    BY <1>2, <2>3 DEF ToSet
  <2> QED BY <2>1, <2>4, <2>5
<1>6. IsInjective(s \o t)
  BY <1>1, <1>4 DEF IsInjective
<1> QED BY <1>1, <1>5, <1>6

\* The four checks raise alerts of four kinds.
LEMMA AlertsAreDifferent ==
    ASSUME NEW c PROVE Alerts(c) \in Seq(Kind) /\ IsInjective(Alerts(c))
<1>1. \A k \in Kind : /\ <<k>> \in Seq(Kind) /\ IsInjective(<<k>>) /\ ToSet(<<k>>) = {k}
                      /\ <<>> \in Seq(Kind) /\ IsInjective(<<>>) /\ ToSet(<<>>) = {}
  BY DEF IsInjective, ToSet
<1>2. /\ checkYapeDiversion(c) \in {<<>>, <<"YAPE_DIVERSION">>}
      /\ checkInventoryManipulation(c) \in {<<>>, <<"INVENTORY_MANIPULATION">>}
      /\ checkHighValueMutation(c) \in {<<>>, <<"HIGH_VALUE_MUTATION">>}
      /\ checkSuspiciousAccessPattern(c) \in {<<>>, <<"RESTRICTED_ACCESS">>}
  BY DEF checkYapeDiversion, checkInventoryManipulation, checkHighValueMutation,
         checkSuspiciousAccessPattern
<1> DEFINE Fine(s, K) == s \in Seq(Kind) /\ IsInjective(s) /\ ToSet(s) \subseteq K
<1>3. ASSUME NEW s, NEW k \in Kind, s \in {<<>>, <<k>>} PROVE Fine(s, {k})
  BY <1>1, <1>3
<1>4. /\ Fine(checkYapeDiversion(c), {"YAPE_DIVERSION"})
      /\ Fine(checkInventoryManipulation(c), {"INVENTORY_MANIPULATION"})
      /\ Fine(checkHighValueMutation(c), {"HIGH_VALUE_MUTATION"})
      /\ Fine(checkSuspiciousAccessPattern(c), {"RESTRICTED_ACCESS"})
  <2>1. {"YAPE_DIVERSION", "INVENTORY_MANIPULATION", "HIGH_VALUE_MUTATION",
         "RESTRICTED_ACCESS"} \subseteq Kind
    BY DEF Kind
  <2> HIDE DEF Fine
  <2> QED BY <1>2, <1>3, <2>1
<1>5. ASSUME NEW s, NEW t, NEW K, NEW L, Fine(s, K), Fine(t, L), K \cap L = {}
      PROVE  Fine(s \o t, K \cup L)
  BY <1>5, JoinDiffers
<1> HIDE DEF Fine
<1>6. Fine(checkYapeDiversion(c) \o checkInventoryManipulation(c),
           {"YAPE_DIVERSION"} \cup {"INVENTORY_MANIPULATION"})
  BY <1>4, <1>5
<1>7. Fine(checkYapeDiversion(c) \o checkInventoryManipulation(c)
               \o checkHighValueMutation(c),
           {"YAPE_DIVERSION"} \cup {"INVENTORY_MANIPULATION"} \cup {"HIGH_VALUE_MUTATION"})
  BY <1>4, <1>5, <1>6
<1>8. Fine(Alerts(c), {"YAPE_DIVERSION"} \cup {"INVENTORY_MANIPULATION"}
                          \cup {"HIGH_VALUE_MUTATION"} \cup {"RESTRICTED_ACCESS"})
  BY <1>4, <1>5, <1>7 DEF Alerts
<1> QED BY <1>8 DEF Fine

\* The first of different alerts is not among the others.
LEMMA FirstAndOthers ==
    ASSUME NEW s \in Seq(Kind), IsInjective(s), s # <<>>
    PROVE  /\ Tail(s) \in Seq(Kind) /\ IsInjective(Tail(s))
           /\ Head(s) \in Kind /\ Head(s) \in ToSet(s)
           /\ ToSet(Tail(s)) = ToSet(s) \ {Head(s)}
<1>1. /\ Len(s) \in Nat \ {0} /\ DOMAIN s = 1..Len(s) /\ Head(s) = s[1]
      /\ Tail(s) \in Seq(Kind) /\ DOMAIN Tail(s) = 1..(Len(s) - 1)
      /\ \A i \in 1..(Len(s) - 1) : Tail(s)[i] = s[i + 1]
  OBVIOUS
<1>2. IsInjective(Tail(s))
  <2> SUFFICES ASSUME NEW i \in 1..(Len(s) - 1), NEW j \in 1..(Len(s) - 1),
                      Tail(s)[i] = Tail(s)[j]
               PROVE  i = j
    BY <1>1 DEF IsInjective
  <2>1. i + 1 \in DOMAIN s /\ j + 1 \in DOMAIN s /\ s[i + 1] = s[j + 1]
    BY <1>1
  <2>2. i + 1 = j + 1
    BY <2>1 DEF IsInjective
  <2> QED BY <1>1, <2>2
<1>3. ToSet(Tail(s)) \subseteq ToSet(s) \ {Head(s)}
  <2> SUFFICES ASSUME NEW i \in 1..(Len(s) - 1)
               PROVE  s[i + 1] \in ToSet(s) /\ s[i + 1] # s[1]
    BY <1>1 DEF ToSet
  <2>1. i + 1 \in DOMAIN s /\ 1 \in DOMAIN s /\ i + 1 # 1
    BY <1>1
  <2> QED BY <2>1 DEF ToSet, IsInjective
<1>4. ToSet(s) \ {Head(s)} \subseteq ToSet(Tail(s))
  <2> SUFFICES ASSUME NEW i \in 1..Len(s), s[i] # s[1] PROVE s[i] \in ToSet(Tail(s))
    BY <1>1 DEF ToSet
  <2>1. i - 1 \in 1..(Len(s) - 1) /\ Tail(s)[i - 1] = s[i]
    BY <1>1
  <2> QED BY <1>1, <2>1 DEF ToSet
<1>5. Head(s) \in Kind /\ Head(s) \in ToSet(s)
  BY <1>1 DEF ToSet
<1> QED BY <1>1, <1>2, <1>3, <1>4, <1>5

\* Counting workers.
LEMMA WorkersCounted ==
    ASSUME NEW S \in SUBSET Workers, NEW w \in Workers
    PROVE  /\ Cardinality(S) \in Nat
           /\ w \notin S => Cardinality(S \cup {w}) = Cardinality(S) + 1 /\ S \ {w} = S
           /\ w \in S => Cardinality(S \ {w}) = Cardinality(S) - 1 /\ S \cup {w} = S
           /\ Cardinality({}) = 0
<1>1. IsFiniteSet(S)
  BY CallAssumption, FS_Subset
<1>2. Cardinality(S) \in Nat
  BY <1>1, FS_CardinalityType
<1>3. ASSUME w \notin S PROVE Cardinality(S \cup {w}) = Cardinality(S) + 1
  BY <1>1, <1>3, FS_AddElement
<1>4. ASSUME w \in S PROVE Cardinality(S \ {w}) = Cardinality(S) - 1
  BY <1>1, <1>4, FS_RemoveElement
<1>5. Cardinality({}) = 0
  BY FS_EmptySet
<1>6. (w \notin S => S \ {w} = S) /\ (w \in S => S \cup {w} = S)
  OBVIOUS
<1> QED BY <1>2, <1>3, <1>4, <1>5, <1>6

\* A request under way with its alerts, as a slot holds it, is one the counts see.
LEMMA SettleMoves ==
    ASSUME TypeOK, NEW w \in Workers, NEW r \in Passage, Settle(w, r)
    PROVE  /\ req' \in [Workers -> AccountRequest \cup Passage \cup {Idle}]
           /\ \A v \in Workers \ {w} : req'[v] = req[v]
           /\ req'[w] = Idle \/ req'[w] = r
           /\ \A c : Logging(c)' = IF r.call = c /\ r.stage = "logging"
                                  THEN Logging(c) \cup {w} ELSE Logging(c) \ {w}
           /\ \A c, k : Raising(c, k)' = IF r.call = c /\ k \in ToSet(r.alerts)
                                        THEN Raising(c, k) \cup {w} ELSE Raising(c, k) \ {w}
<1> DEFINE s == IF r.stage = "done" /\ r.alerts = <<>> THEN Idle ELSE r
<1>1. req' = [v \in Workers |-> IF v = w THEN s ELSE req[v]]
  BY DEF Settle, TypeOK
<1>2. s \in Passage \cup {Idle} /\ (s = Idle \/ s = r)
  OBVIOUS
<1>3. s.op = "call" <=> ~(r.stage = "done" /\ r.alerts = <<>>)
  BY DEF Passage, Idle
<1>4. ToSet(<<>>) = {}
  BY DEF ToSet
<1>5. ASSUME NEW c
      PROVE  /\ s.op = "call" /\ s.call = c /\ s.stage = "logging" <=>
                   r.call = c /\ r.stage = "logging"
             /\ \A k : s.op = "call" /\ s.call = c /\ k \in ToSet(s.alerts) <=>
                         r.call = c /\ k \in ToSet(r.alerts)
  BY <1>3, <1>4 DEF Passage
<1> HIDE DEF s
<1>6. req' \in [Workers -> AccountRequest \cup Passage \cup {Idle}]
  BY <1>1, <1>2 DEF TypeOK
<1>7. ASSUME NEW c
      PROVE  Logging(c)' = IF r.call = c /\ r.stage = "logging"
                           THEN Logging(c) \cup {w} ELSE Logging(c) \ {w}
  BY <1>1, <1>5 DEF Logging
<1>8. ASSUME NEW c, NEW k
      PROVE  Raising(c, k)' = IF r.call = c /\ k \in ToSet(r.alerts)
                              THEN Raising(c, k) \cup {w} ELSE Raising(c, k) \ {w}
  BY <1>1, <1>5 DEF Raising
<1> QED BY <1>1, <1>2, <1>6, <1>7, <1>8

\* What leaves the account and the slots of its requests alone keeps what is
\* promised of them.
LEMMA AccountStands ==
    ASSUME TrailInv, UNCHANGED accountVars,
           req' \in [Workers -> AccountRequest \cup Passage \cup {Idle}],
           \A v \in Workers : \/ req'[v] = req[v]
                              \/ req[v] \in Passage \cup {Idle} /\ req'[v] \in Passage \cup {Idle}
    PROVE  AccountInv'
<1>1. AccountInv /\ \A r \in Passage \cup {Idle} : r.op \notin AccountOps /\ r \notin AccountRequest
  BY OpsOfRequests DEF TrailInv, Passage, AccountOps
<1>2. req' = [v \in Workers |-> req'[v]]
  OBVIOUS
<1>3. /\ UNCHANGED <<role, promoted, mfaEnabled, failed, lock, password, pending, sessions, tokens>>
      /\ UNCHANGED <<overlap, torn, begun, wrong>>
  BY DEF accountVars
<1>4. /\ \A v \in Workers : req'[v].op \in AccountOps <=> req'[v] \in AccountRequest
      /\ Busy' = Busy
      /\ \A v \in Workers : req'[v].op \in AccountOps \/ req[v].op \in AccountOps
                              => req'[v] = req[v]
  BY <1>1 DEF AccountInv, Busy
<1>5. AccountTypeOK' /\ WrongOnesLock'
  BY <1>1, <1>3 DEF AccountInv, AccountTypeOK, WrongOnesLock
<1>6. OldPasswordClosed'
  <2>1. \A v \in Workers : req[v].op = "sweep" => req'[v].op = "sweep"
    BY <1>4 DEF AccountOps
  <2>2. OldPasswordClosed
    BY <1>1 DEF AccountInv
  <2> QED BY <1>3, <2>1, <2>2 DEF OldPasswordClosed
<1>7. ASSUME ~overlap' PROVE (\A u, v \in Busy : u = v)' /\ (\A v \in Workers : ReadOK(req[v]))'
  BY <1>1, <1>3, <1>4, <1>7 DEF AccountInv, ReadOK, AccountOps
<1> QED BY <1>2, <1>4, <1>5, <1>6, <1>7 DEF AccountInv

\* What a request let through carries.
LEMMA CallShape ==
    ASSUME TypeOK, AlertsDiffer, NEW w \in Workers, req[w].op = "call"
    PROVE  /\ req[w] \in Passage /\ req[w].call \in Calls
           /\ req[w].alerts \in Seq(Kind) /\ IsInjective(req[w].alerts)
<1>1. req[w] \in AccountRequest \cup Passage \cup {Idle}
  BY DEF TypeOK
<1>2. req[w] \in Passage
  BY <1>1, OpsOfRequests DEF AccountOps, Idle
<1> QED BY <1>2 DEF Passage, AlertsDiffer

\* The part of a step of a request let through that is the same in each.
LEMMA CallStep ==
    ASSUME TrailInv, NEW w \in Workers, NEW r \in Passage, Settle(w, r),
           req[w] = Idle \/ req[w].op = "call",
           UNCHANGED accountVars, IsInjective(r.alerts),
           role \in PRIVILEGED_ROLES /\ ~promoted /\ ~r.call.session =>
               \E t \in tokens : t.factor = "totp"
    PROVE  AccountInv' /\ AlertsDiffer' /\ NothingExempt'
<1>1. /\ req' \in [Workers -> AccountRequest \cup Passage \cup {Idle}]
      /\ \A v \in Workers \ {w} : req'[v] = req[v]
      /\ req'[w] = Idle \/ req'[w] = r
  BY SettleMoves DEF TrailInv
<1>2. req[w] \in Passage \cup {Idle} /\ req'[w] \in Passage \cup {Idle}
  BY <1>1, CallShape DEF TrailInv
<1>3. AccountInv'
  <2>1. \A v \in Workers : \/ req'[v] = req[v]
                           \/ req[v] \in Passage \cup {Idle} /\ req'[v] \in Passage \cup {Idle}
    BY <1>1, <1>2
  <2> QED BY <1>1, <2>1, AccountStands
<1>4. Idle.op = "idle" /\ r.op = "call"
  BY DEF Idle, Passage
<1>5. AlertsDiffer'
  BY <1>1, <1>4 DEF TrailInv, AlertsDiffer
<1>6. NothingExempt'
  BY <1>1, <1>4 DEF TrailInv, NothingExempt, accountVars
<1> QED BY <1>3, <1>5, <1>6

\* The trail stands when no row, deed or request to be logged changes.
LEMMA LogStands ==
    ASSUME DeedsAreLogged, UNCHANGED <<deeds, thrown, rows>>, lost \subseteq lost',
           \A c \in Calls : Logging(c)' = Logging(c)
    PROVE  DeedsAreLogged'
BY DEF DeedsAreLogged

\* So do the alerts.
LEMMA AlarmsStand ==
    ASSUME FlaggedIsTold, UNCHANGED <<tries, alarms>>, lost \subseteq lost',
           \A c \in Calls, k \in Kind : Raising(c, k)' = Raising(c, k)
    PROVE  FlaggedIsTold'
BY DEF FlaggedIsTold

\* A request is let through: each alert it raises is due once more.
LEMMA AdmitStep ==
    ASSUME TrailInv, NEW w \in Workers, NEW c \in Calls, Admit(w, c) PROVE TrailInv'
<1> DEFINE r == [op |-> "call", call |-> c, stage |-> "handling", alerts |-> Alerts(c)]
<1>1. /\ req[w] = Idle /\ tries[c] < MaxTries /\ Settle(w, r)
      /\ tries' = [tries EXCEPT ![c] = @ + 1]
      /\ UNCHANGED accountVars /\ UNCHANGED <<deeds, thrown, rows, alarms, lost>>
  BY DEF Admit
<1>2. r \in Passage /\ IsInjective(r.alerts) /\ r.call = c /\ r.stage = "handling"
  BY AlertsAreDifferent DEF Passage
<1>3. role \in PRIVILEGED_ROLES /\ ~promoted /\ ~r.call.session =>
          \E t \in tokens : t.factor = "totp"
  <2>1. PICK t \in tokens : MfaEnforced(c, t)
    BY DEF Admit
  <2>2. t.factor \in Factor
    BY DEF TrailInv, AccountInv, AccountTypeOK
  <2>3. ASSUME role \in PRIVILEGED_ROLES, ~promoted, ~c.session PROVE t.factor = "totp"
    <3>1. t.role \in PRIVILEGED_ROLES /\ t.factor # "exempt"
      BY <2>3 DEF TrailInv, NothingExempt
    <3> QED BY <2>1, <2>2, <2>3, <3>1 DEF MfaEnforced, mfaVerified, Factor
  <2> QED BY <1>2, <2>3
<1>4. TypeOK
  BY DEF TrailInv
<1>5. r.alerts = Alerts(c)
  OBVIOUS
<1> HIDE DEF r
<1>6. AccountInv' /\ AlertsDiffer' /\ NothingExempt'
  BY <1>1, <1>2, <1>3, CallStep
<1>7. /\ \A x : w \notin Logging(x) /\ \A k : w \notin Raising(x, k)
      /\ \A x : Logging(x)' = Logging(x) \ {w}
      /\ \A x, k : Raising(x, k)' = IF c = x /\ k \in ToSet(Alerts(c))
                                   THEN Raising(x, k) \cup {w} ELSE Raising(x, k) \ {w}
  BY <1>1, <1>2, <1>4, <1>5, SettleMoves DEF Logging, Raising, Idle
<1>8. TypeOK'
  <2>1. tries' \in [Calls -> 0..MaxTries]
    BY <1>1, <1>4, CallAssumption DEF TypeOK
  <2> QED BY <1>1, <1>2, <1>4, <1>6, <2>1, SettleMoves DEF TypeOK, AccountInv
<1>9. DeedsAreLogged'
  BY <1>1, <1>7, LogStands DEF TrailInv
<1>10. FlaggedIsTold'
  <2> SUFFICES ASSUME NEW x \in Calls, NEW k \in Kind
               PROVE  LET told == alarms[x][k] + Cardinality(Raising(x, k)')
                          due == IF k \in ToSet(Alerts(x)) THEN tries'[x] ELSE 0
                      IN  told <= due /\ (<<x, k>> \notin lost => told = due)
    BY <1>1 DEF FlaggedIsTold
  <2>1. /\ alarms[x][k] \in Nat /\ tries[x] \in Nat
        /\ tries'[x] = IF x = c THEN tries[x] + 1 ELSE tries[x]
    BY <1>1, <1>4 DEF TypeOK
  <2>2. LET told == alarms[x][k] + Cardinality(Raising(x, k))
            due == IF k \in ToSet(Alerts(x)) THEN tries[x] ELSE 0
        IN  told <= due /\ (<<x, k>> \notin lost => told = due)
    BY DEF TrailInv, FlaggedIsTold
  <2>3. /\ Cardinality(Raising(x, k)) \in Nat
        /\ Cardinality(Raising(x, k)') = Cardinality(Raising(x, k)) +
                (IF c = x /\ k \in ToSet(Alerts(c)) THEN 1 ELSE 0)
    <3>1. Raising(x, k) \in SUBSET Workers
      BY DEF Raising
    <3>2. w \notin Raising(x, k) /\ Raising(x, k) \ {w} = Raising(x, k)
      BY <1>7
    <3>3. /\ Cardinality(Raising(x, k)) \in Nat
          /\ Cardinality(Raising(x, k) \cup {w}) = Cardinality(Raising(x, k)) + 1
      BY <3>1, <3>2, WorkersCounted
    <3>4. Raising(x, k)' = IF c = x /\ k \in ToSet(Alerts(c))
                           THEN Raising(x, k) \cup {w} ELSE Raising(x, k)
      BY <1>7, <3>2
    <3> QED BY <3>3, <3>4
  <2> QED BY <2>1, <2>2, <2>3
<1>11. NoDeedWithoutTotp'
  BY <1>1 DEF TrailInv, NoDeedWithoutTotp, accountVars
<1> QED BY <1>6, <1>8, <1>9, <1>10, <1>11 DEF TrailInv

\* An alert leaves the list: it is told, or its insert is lost.
LEMMA PersistStep ==
    ASSUME TrailInv, NEW w \in Workers, PersistAlert(w) PROVE TrailInv'
<1> DEFINE c == req[w].call
           a == Head(req[w].alerts)
           r == [req[w] EXCEPT !.alerts = Tail(@)]
<1>1. /\ req[w].op = "call" /\ req[w].alerts # <<>> /\ Settle(w, r)
      /\ \/ alarms' = [alarms EXCEPT ![c][a] = @ + 1] /\ lost' = lost
         \/ lost' = lost \cup {<<c, a>>} /\ alarms' = alarms
      /\ UNCHANGED accountVars /\ UNCHANGED <<tries, deeds, thrown, rows>>
  BY DEF PersistAlert
<1>2. TypeOK /\ AlertsDiffer
  BY DEF TrailInv
<1>3. /\ req[w] \in Passage /\ c \in Calls
      /\ req[w].alerts \in Seq(Kind) /\ IsInjective(req[w].alerts)
  BY <1>1, <1>2, CallShape
<1>4. /\ Tail(req[w].alerts) \in Seq(Kind) /\ IsInjective(Tail(req[w].alerts))
      /\ a \in Kind /\ a \in ToSet(req[w].alerts)
      /\ ToSet(Tail(req[w].alerts)) = ToSet(req[w].alerts) \ {a}
  BY <1>1, <1>3, FirstAndOthers
<1>5. /\ r \in Passage /\ r.call = c /\ r.stage = req[w].stage
      /\ r.alerts = Tail(req[w].alerts)
  BY <1>3, <1>4 DEF Passage
<1>6. role \in PRIVILEGED_ROLES /\ ~promoted /\ ~r.call.session =>
          \E t \in tokens : t.factor = "totp"
  BY <1>1, <1>5 DEF TrailInv, NothingExempt
<1>7. /\ \A x : w \in Logging(x) <=> c = x /\ req[w].stage = "logging"
      /\ \A x, k : w \in Raising(x, k) <=> c = x /\ k \in ToSet(req[w].alerts)
  BY <1>1 DEF Logging, Raising
<1> HIDE DEF c, a, r
<1>8. AccountInv' /\ AlertsDiffer' /\ NothingExempt'
  BY <1>1, <1>4, <1>5, <1>6, CallStep
<1>9. /\ \A x : Logging(x)' = Logging(x)
      /\ \A x, k : Raising(x, k)' = IF c = x /\ k = a THEN Raising(x, k) \ {w} ELSE Raising(x, k)
  <2>1. /\ \A x : Logging(x)' = IF r.call = x /\ r.stage = "logging"
                                THEN Logging(x) \cup {w} ELSE Logging(x) \ {w}
        /\ \A x, k : Raising(x, k)' = IF r.call = x /\ k \in ToSet(r.alerts)
                                     THEN Raising(x, k) \cup {w} ELSE Raising(x, k) \ {w}
    BY <1>1, <1>2, <1>5, SettleMoves
  <2>2. ASSUME NEW x PROVE Logging(x)' = Logging(x)
    BY <2>1, <1>5, <1>7
  <2>3. ASSUME NEW x, NEW k
        PROVE  Raising(x, k)' = IF c = x /\ k = a THEN Raising(x, k) \ {w} ELSE Raising(x, k)
    <3>1. /\ Raising(x, k)' = IF c = x /\ k \in ToSet(req[w].alerts) /\ k # a
                              THEN Raising(x, k) \cup {w} ELSE Raising(x, k) \ {w}
          /\ w \in Raising(x, k) <=> c = x /\ k \in ToSet(req[w].alerts)
      BY <2>1, <1>4, <1>5, <1>7
    <3> QED BY <3>1
  <2> QED BY <2>2, <2>3
<1>10. /\ alarms' \in [Calls -> [Kind -> Nat]] /\ lost \subseteq lost'
       /\ lost' \subseteq Calls \X (Kind \cup {"row"})
       /\ \A x \in Calls, k \in Kind :
            \/ alarms'[x][k] = alarms[x][k] + (IF c = x /\ k = a THEN 1 ELSE 0)
            \/ alarms'[x][k] = alarms[x][k] /\ (c = x /\ k = a => <<x, k>> \in lost')
  <2>1. /\ alarms \in [Calls -> [Kind -> Nat]] /\ lost \subseteq Calls \X (Kind \cup {"row"})
        /\ c \in Calls /\ a \in Kind
    BY <1>2, <1>3, <1>4 DEF TypeOK
  <2>2. CASE alarms' = [alarms EXCEPT ![c][a] = @ + 1] /\ lost' = lost
    BY <2>1, <2>2
  <2>3. CASE lost' = lost \cup {<<c, a>>} /\ alarms' = alarms
    BY <2>1, <2>3
  <2> QED BY <1>1, <2>2, <2>3
<1>11. TypeOK'
  BY <1>1, <1>2, <1>5, <1>8, <1>10, SettleMoves DEF TypeOK, AccountInv
<1>12. DeedsAreLogged'
  BY <1>1, <1>9, <1>10, LogStands DEF TrailInv
<1>13. FlaggedIsTold'
  <2> SUFFICES ASSUME NEW x \in Calls, NEW k \in Kind
               PROVE  LET told == alarms'[x][k] + Cardinality(Raising(x, k)')
                          due == IF k \in ToSet(Alerts(x)) THEN tries[x] ELSE 0
                      IN  told <= due /\ (<<x, k>> \notin lost' => told = due)
    BY <1>1 DEF FlaggedIsTold
  <2>1. alarms[x][k] \in Nat /\ tries[x] \in Nat
    BY <1>2 DEF TypeOK
  <2>2. LET told == alarms[x][k] + Cardinality(Raising(x, k))
            due == IF k \in ToSet(Alerts(x)) THEN tries[x] ELSE 0
        IN  told <= due /\ (<<x, k>> \notin lost => told = due)
    BY DEF TrailInv, FlaggedIsTold
  <2>3. /\ Cardinality(Raising(x, k)) \in Nat
        /\ Cardinality(Raising(x, k)') = Cardinality(Raising(x, k)) -
                (IF c = x /\ k = a THEN 1 ELSE 0)
        /\ Cardinality(Raising(x, k)') \in Nat
    <3>1. Raising(x, k) \in SUBSET Workers /\ Raising(x, k)' \in SUBSET Workers
      BY DEF Raising
    <3>2. CASE c = x /\ k = a
      <4>1. w \in Raising(x, k) /\ Raising(x, k)' = Raising(x, k) \ {w}
        BY <1>4, <1>7, <1>9, <3>2
      <4>2. /\ Cardinality(Raising(x, k)) \in Nat
            /\ Cardinality(Raising(x, k) \ {w}) = Cardinality(Raising(x, k)) - 1
            /\ Cardinality(Raising(x, k) \ {w}) \in Nat
        <5>1. Raising(x, k) \ {w} \in SUBSET Workers
          BY <3>1
        <5> QED BY <3>1, <4>1, <5>1, WorkersCounted
      <4> QED BY <3>2, <4>1, <4>2
    <3>3. CASE ~(c = x /\ k = a)
      <4>1. Raising(x, k)' = Raising(x, k)
        BY <1>9, <3>3
      <4>2. Cardinality(Raising(x, k)) \in Nat
        BY <3>1, WorkersCounted
      <4> QED BY <3>3, <4>1, <4>2
    <3> QED BY <3>2, <3>3
  <2> QED BY <1>10, <2>1, <2>2, <2>3
<1>14. NoDeedWithoutTotp'
  BY <1>1 DEF TrailInv, NoDeedWithoutTotp, accountVars
<1> QED BY <1>8, <1>11, <1>12, <1>13, <1>14 DEF TrailInv

\* The handler answers or throws: the alerts do not wait for it.
LEMMA RaisingStands ==
    ASSUME TypeOK, AlertsDiffer, NEW w \in Workers, req[w].op = "call",
           NEW t \in {"logging", "done"},
           Settle(w, [req[w] EXCEPT !.stage = t])
    PROVE  /\ \A x : Logging(x)' = IF req[w].call = x /\ t = "logging"
                                  THEN Logging(x) \cup {w} ELSE Logging(x) \ {w}
           /\ \A x, k : Raising(x, k)' = Raising(x, k)
           /\ [req[w] EXCEPT !.stage = t] \in Passage
           /\ [req[w] EXCEPT !.stage = t].call = req[w].call
           /\ [req[w] EXCEPT !.stage = t].alerts = req[w].alerts
           /\ req' \in [Workers -> AccountRequest \cup Passage \cup {Idle}]
<1> DEFINE r == [req[w] EXCEPT !.stage = t]
<1>1. req[w] \in Passage
  BY CallShape
<1>2. /\ r \in Passage /\ r.call = req[w].call /\ r.stage = t
      /\ r.alerts = req[w].alerts /\ Settle(w, r)
  BY <1>1 DEF Passage
<1>3. \A x, k : w \in Raising(x, k) <=> req[w].call = x /\ k \in ToSet(req[w].alerts)
  BY DEF Raising
<1> HIDE DEF r
<1>4. /\ \A x : Logging(x)' = IF req[w].call = x /\ t = "logging"
                              THEN Logging(x) \cup {w} ELSE Logging(x) \ {w}
      /\ req' \in [Workers -> AccountRequest \cup Passage \cup {Idle}]
      /\ \A x, k : Raising(x, k)' = IF req[w].call = x /\ k \in ToSet(req[w].alerts)
                                   THEN Raising(x, k) \cup {w} ELSE Raising(x, k) \ {w}
  BY <1>2, SettleMoves
<1>5. ASSUME NEW x, NEW k PROVE Raising(x, k)' = Raising(x, k)
  <2>1. /\ Raising(x, k)' = IF req[w].call = x /\ k \in ToSet(req[w].alerts)
                            THEN Raising(x, k) \cup {w} ELSE Raising(x, k) \ {w}
        /\ w \in Raising(x, k) <=> req[w].call = x /\ k \in ToSet(req[w].alerts)
    BY <1>3, <1>4
  <2> QED BY <2>1
<1> QED BY <1>2, <1>4, <1>5 DEF r

\* The handler answers: the deed is done, and its row is due.
LEMMA HandleStep ==
    ASSUME TrailInv, NEW w \in Workers, Handle(w) PROVE TrailInv'
<1> DEFINE c == req[w].call
           r == [req[w] EXCEPT !.stage = "logging"]
<1>1. /\ req[w].op = "call" /\ req[w].stage = "handling" /\ Settle(w, r)
      /\ deeds' = [deeds EXCEPT ![c] = @ + 1]
      /\ UNCHANGED accountVars /\ UNCHANGED <<tries, thrown, rows, alarms, lost>>
  BY DEF Handle
<1>2. TypeOK /\ AlertsDiffer /\ NothingExempt
  BY DEF TrailInv
<1>3. c \in Calls /\ IsInjective(req[w].alerts)
  BY <1>1, <1>2, CallShape
<1>4. /\ \A x : Logging(x)' = IF c = x THEN Logging(x) \cup {w} ELSE Logging(x) \ {w}
      /\ \A x, k : Raising(x, k)' = Raising(x, k)
      /\ r \in Passage /\ r.call = c /\ r.alerts = req[w].alerts
      /\ req' \in [Workers -> AccountRequest \cup Passage \cup {Idle}]
  BY <1>1, <1>2, RaisingStands
<1>5. \A x : w \notin Logging(x)
  BY <1>1 DEF Logging
<1>6. role \in PRIVILEGED_ROLES /\ ~promoted /\ ~c.session =>
          \E t \in tokens : t.factor = "totp"
  BY <1>1, <1>2 DEF NothingExempt
<1> HIDE DEF c, r
<1>7. AccountInv' /\ AlertsDiffer' /\ NothingExempt'
  BY <1>1, <1>3, <1>4, <1>6, CallStep
<1>8. \A x \in Calls : deeds[x] \in Nat /\ deeds'[x] = IF x = c THEN deeds[x] + 1 ELSE deeds[x]
  BY <1>1, <1>2 DEF TypeOK
<1>9. TypeOK'
  <2>1. deeds' \in [Calls -> Nat]
    BY <1>1, <1>2, <1>3 DEF TypeOK
  <2> QED BY <1>1, <1>2, <1>4, <1>7, <2>1 DEF TypeOK, AccountInv
<1>10. DeedsAreLogged'
  <2> SUFFICES ASSUME NEW x \in Calls
               PROVE  LET written == rows[x] + Cardinality(Logging(x)') IN
                      /\ written + thrown[x] <= deeds'[x]
                      /\ <<x, "row">> \notin lost => written + thrown[x] = deeds'[x]
    BY <1>1 DEF DeedsAreLogged
  <2>1. LET written == rows[x] + Cardinality(Logging(x)) IN
        /\ written + thrown[x] <= deeds[x]
        /\ <<x, "row">> \notin lost => written + thrown[x] = deeds[x]
    BY DEF TrailInv, DeedsAreLogged
  <2>2. /\ Cardinality(Logging(x)) \in Nat
        /\ Cardinality(Logging(x)') = Cardinality(Logging(x)) + (IF x = c THEN 1 ELSE 0)
    <3>1. Logging(x) \in SUBSET Workers /\ w \notin Logging(x)
      BY <1>5 DEF Logging
    <3>2. /\ Cardinality(Logging(x)) \in Nat /\ Logging(x) \ {w} = Logging(x)
          /\ Cardinality(Logging(x) \cup {w}) = Cardinality(Logging(x)) + 1
      BY <3>1, WorkersCounted
    <3>3. Logging(x)' = IF x = c THEN Logging(x) \cup {w} ELSE Logging(x)
      BY <1>4, <3>2
    <3> QED BY <3>2, <3>3
  <2>3. rows[x] \in Nat /\ thrown[x] \in Nat
    BY <1>2 DEF TypeOK
  <2> QED BY <1>8, <2>1, <2>2, <2>3
<1>11. FlaggedIsTold'
  BY <1>1, <1>4, AlarmsStand DEF TrailInv
<1>12. NoDeedWithoutTotp'
  <2>1. NoDeedWithoutTotp /\ UNCHANGED <<role, promoted, tokens>>
    BY <1>1 DEF TrailInv, accountVars
  <2> QED BY <1>6, <1>8, <2>1 DEF NoDeedWithoutTotp
<1> QED BY <1>7, <1>9, <1>10, <1>11, <1>12 DEF TrailInv

\* The handler has done its deed and throws: no row is due, and none is counted.
LEMMA ThrowStep ==
    ASSUME TrailInv, NEW w \in Workers, Throw(w) PROVE TrailInv'
<1> DEFINE c == req[w].call
           r == [req[w] EXCEPT !.stage = "done"]
<1>1. /\ req[w].op = "call" /\ req[w].stage = "handling" /\ Settle(w, r)
      /\ deeds' = [deeds EXCEPT ![c] = @ + 1] /\ thrown' = [thrown EXCEPT ![c] = @ + 1]
      /\ UNCHANGED accountVars /\ UNCHANGED <<tries, rows, alarms, lost>>
  BY DEF Throw
<1>2. TypeOK /\ AlertsDiffer /\ NothingExempt
  BY DEF TrailInv
<1>3. c \in Calls /\ IsInjective(req[w].alerts)
  BY <1>1, <1>2, CallShape
<1>4. /\ \A x : Logging(x)' = Logging(x) \ {w}
      /\ \A x, k : Raising(x, k)' = Raising(x, k)
      /\ r \in Passage /\ r.call = c /\ r.alerts = req[w].alerts
      /\ req' \in [Workers -> AccountRequest \cup Passage \cup {Idle}]
  BY <1>1, <1>2, RaisingStands
<1>5. \A x : Logging(x)' = Logging(x)
  <2>1. \A x : w \notin Logging(x)
    BY <1>1 DEF Logging
  <2> QED BY <1>4, <2>1
<1>6. role \in PRIVILEGED_ROLES /\ ~promoted /\ ~c.session =>
          \E t \in tokens : t.factor = "totp"
  BY <1>1, <1>2 DEF NothingExempt
<1> HIDE DEF c, r
<1>7. AccountInv' /\ AlertsDiffer' /\ NothingExempt'
  BY <1>1, <1>3, <1>4, <1>6, CallStep
<1>8. /\ \A x \in Calls : deeds[x] \in Nat /\ deeds'[x] = IF x = c THEN deeds[x] + 1 ELSE deeds[x]
      /\ \A x \in Calls : thrown[x] \in Nat /\ thrown'[x] = IF x = c THEN thrown[x] + 1 ELSE thrown[x]
  BY <1>1, <1>2 DEF TypeOK
<1>9. TypeOK'
  <2>1. deeds' \in [Calls -> Nat] /\ thrown' \in [Calls -> Nat]
    BY <1>1, <1>2, <1>3 DEF TypeOK
  <2> QED BY <1>1, <1>2, <1>4, <1>7, <2>1 DEF TypeOK, AccountInv
<1>10. DeedsAreLogged'
  <2> SUFFICES ASSUME NEW x \in Calls
               PROVE  LET written == rows[x] + Cardinality(Logging(x)) IN
                      /\ written + thrown'[x] <= deeds'[x]
                      /\ <<x, "row">> \notin lost => written + thrown'[x] = deeds'[x]
    BY <1>1, <1>5 DEF DeedsAreLogged
  <2>1. LET written == rows[x] + Cardinality(Logging(x)) IN
        /\ written + thrown[x] <= deeds[x]
        /\ <<x, "row">> \notin lost => written + thrown[x] = deeds[x]
    BY DEF TrailInv, DeedsAreLogged
  <2>2. Logging(x) \in SUBSET Workers
    BY DEF Logging
  <2>3. rows[x] \in Nat /\ Cardinality(Logging(x)) \in Nat
    BY <1>2, <2>2, WorkersCounted DEF TypeOK
  <2> QED BY <1>8, <2>1, <2>3
<1>11. FlaggedIsTold'
  BY <1>1, <1>4, AlarmsStand DEF TrailInv
<1>12. NoDeedWithoutTotp'
  <2>1. NoDeedWithoutTotp /\ UNCHANGED <<role, promoted, tokens>>
    BY <1>1 DEF TrailInv, accountVars
  <2> QED BY <1>6, <1>8, <2>1 DEF NoDeedWithoutTotp
<1> QED BY <1>7, <1>9, <1>10, <1>11, <1>12 DEF TrailInv

\* The handler throws before its deed: no row is due.
LEMMA RefuseStep ==
    ASSUME TrailInv, NEW w \in Workers, Refuse(w) PROVE TrailInv'
<1> DEFINE c == req[w].call
           r == [req[w] EXCEPT !.stage = "done"]
<1>1. /\ req[w].op = "call" /\ req[w].stage = "handling" /\ Settle(w, r)
      /\ UNCHANGED accountVars /\ UNCHANGED <<tries, deeds, thrown, rows, alarms, lost>>
  BY DEF Refuse, book
<1>2. TypeOK /\ AlertsDiffer /\ NothingExempt
  BY DEF TrailInv
<1>3. c \in Calls /\ IsInjective(req[w].alerts)
  BY <1>1, <1>2, CallShape
<1>4. /\ \A x : Logging(x)' = Logging(x) \ {w}
      /\ \A x, k : Raising(x, k)' = Raising(x, k)
      /\ r \in Passage /\ r.call = c /\ r.alerts = req[w].alerts
      /\ req' \in [Workers -> AccountRequest \cup Passage \cup {Idle}]
  BY <1>1, <1>2, RaisingStands
<1>5. \A x : w \notin Logging(x)
  BY <1>1 DEF Logging
<1>6. role \in PRIVILEGED_ROLES /\ ~promoted /\ ~c.session =>
          \E t \in tokens : t.factor = "totp"
  BY <1>1, <1>2 DEF NothingExempt
<1> HIDE DEF c, r
<1>7. AccountInv' /\ AlertsDiffer' /\ NothingExempt'
  BY <1>1, <1>3, <1>4, <1>6, CallStep
<1>8. TypeOK'
  BY <1>1, <1>2, <1>4, <1>7 DEF TypeOK, AccountInv
<1>9. DeedsAreLogged'
  <2>1. \A x : Logging(x)' = Logging(x)
    BY <1>4, <1>5
  <2> QED BY <1>1, <2>1, LogStands DEF TrailInv
<1>10. FlaggedIsTold' /\ NoDeedWithoutTotp'
  BY <1>1, <1>4, AlarmsStand DEF TrailInv, NoDeedWithoutTotp, accountVars
<1> QED BY <1>7, <1>8, <1>9, <1>10 DEF TrailInv

\* The row is inserted, or its insert is lost.
LEMMA LogStep ==
    ASSUME TrailInv, NEW w \in Workers, LogRow(w) PROVE TrailInv'
<1> DEFINE c == req[w].call
           r == [req[w] EXCEPT !.stage = "done"]
<1>1. /\ req[w].op = "call" /\ req[w].stage = "logging" /\ Settle(w, r)
      /\ \/ rows' = [rows EXCEPT ![c] = @ + 1] /\ lost' = lost
         \/ lost' = lost \cup {<<c, "row">>} /\ rows' = rows
      /\ UNCHANGED accountVars /\ UNCHANGED <<tries, deeds, thrown, alarms>>
  BY DEF LogRow
<1>2. TypeOK /\ AlertsDiffer /\ NothingExempt
  BY DEF TrailInv
<1>3. c \in Calls /\ IsInjective(req[w].alerts)
  BY <1>1, <1>2, CallShape
<1>4. /\ \A x : Logging(x)' = Logging(x) \ {w}
      /\ \A x, k : Raising(x, k)' = Raising(x, k)
      /\ r \in Passage /\ r.call = c /\ r.alerts = req[w].alerts
      /\ req' \in [Workers -> AccountRequest \cup Passage \cup {Idle}]
  BY <1>1, <1>2, RaisingStands
<1>5. \A x : w \in Logging(x) <=> c = x
  BY <1>1 DEF Logging
<1>6. role \in PRIVILEGED_ROLES /\ ~promoted /\ ~c.session =>
          \E t \in tokens : t.factor = "totp"
  BY <1>1, <1>2 DEF NothingExempt
<1> HIDE DEF c, r
<1>7. AccountInv' /\ AlertsDiffer' /\ NothingExempt'
  BY <1>1, <1>3, <1>4, <1>6, CallStep
<1>8. /\ rows' \in [Calls -> Nat] /\ lost \subseteq lost'
      /\ lost' \subseteq Calls \X (Kind \cup {"row"})
      /\ \A x \in Calls : \/ rows'[x] = rows[x] + (IF x = c THEN 1 ELSE 0)
                          \/ rows'[x] = rows[x] /\ (x = c => <<x, "row">> \in lost')
  <2>1. rows \in [Calls -> Nat] /\ lost \subseteq Calls \X (Kind \cup {"row"}) /\ c \in Calls
    BY <1>2, <1>3 DEF TypeOK
  <2>2. CASE rows' = [rows EXCEPT ![c] = @ + 1] /\ lost' = lost
    BY <2>1, <2>2
  <2>3. CASE lost' = lost \cup {<<c, "row">>} /\ rows' = rows
    BY <2>1, <2>3
  <2> QED BY <1>1, <2>2, <2>3
<1>9. TypeOK'
  BY <1>1, <1>2, <1>4, <1>7, <1>8 DEF TypeOK, AccountInv
<1>10. DeedsAreLogged'
  <2> SUFFICES ASSUME NEW x \in Calls
               PROVE  LET written == rows'[x] + Cardinality(Logging(x)') IN
                      /\ written + thrown[x] <= deeds[x]
                      /\ <<x, "row">> \notin lost' => written + thrown[x] = deeds[x]
    BY <1>1 DEF DeedsAreLogged
  <2>1. LET written == rows[x] + Cardinality(Logging(x)) IN
        /\ written + thrown[x] <= deeds[x]
        /\ <<x, "row">> \notin lost => written + thrown[x] = deeds[x]
    BY DEF TrailInv, DeedsAreLogged
  <2>2. /\ Cardinality(Logging(x)) \in Nat /\ Cardinality(Logging(x)') \in Nat
        /\ Cardinality(Logging(x)') = Cardinality(Logging(x)) - (IF x = c THEN 1 ELSE 0)
    <3>1. Logging(x) \in SUBSET Workers /\ Logging(x) \ {w} \in SUBSET Workers
      BY DEF Logging
    <3>2. CASE x = c
      <4>1. w \in Logging(x) /\ Logging(x)' = Logging(x) \ {w}
        BY <1>4, <1>5, <3>2
      <4>2. /\ Cardinality(Logging(x)) \in Nat /\ Cardinality(Logging(x) \ {w}) \in Nat
            /\ Cardinality(Logging(x) \ {w}) = Cardinality(Logging(x)) - 1
        BY <3>1, <4>1, WorkersCounted
      <4> QED BY <3>2, <4>1, <4>2
    <3>3. CASE x # c
      <4>1. Logging(x)' = Logging(x)
        BY <1>4, <1>5, <3>3
      <4>2. Cardinality(Logging(x)) \in Nat
        BY <3>1, WorkersCounted
      <4> QED BY <3>3, <4>1, <4>2
    <3> QED BY <3>2, <3>3
  <2>3. rows[x] \in Nat /\ deeds[x] \in Nat /\ thrown[x] \in Nat
    BY <1>2 DEF TypeOK
  <2> QED BY <1>8, <2>1, <2>2, <2>3
<1>11. FlaggedIsTold' /\ NoDeedWithoutTotp'
  BY <1>1, <1>4, <1>8, AlarmsStand DEF TrailInv, NoDeedWithoutTotp, accountVars
<1> QED BY <1>7, <1>9, <1>10, <1>11 DEF TrailInv

\* What was about to be inserted when the process died is lost, and told to be.
LEMMA CrashStep == ASSUME TrailInv, Crash PROVE TrailInv'
<1> DEFINE passing == {w \in Workers : req[w].op = "call"}
           unlogged == {<<req[w].call, "row">> : w \in {v \in passing : req[v].stage = "logging"}}
           unraised == UNION {{req[w].call} \X ToSet(req[w].alerts) : w \in passing}
<1>1. /\ lost' = lost \cup unlogged \cup unraised
      /\ torn' = (torn \/ \E w \in Workers : req[w].op = "sweep")
      /\ req' = [w \in Workers |-> Idle]
      /\ UNCHANGED <<role, promoted, mfaEnabled, failed, lock, wrong, password, pending, sessions, tokens,
                     overlap, begun, tries, deeds, thrown, rows, alarms>>
  BY DEF Crash, person, counter, keys
<1>2. TypeOK /\ AlertsDiffer /\ NothingExempt /\ AccountInv
  BY DEF TrailInv
<1>3. Idle.op = "idle" /\ Idle \notin AccountRequest
  BY OpsOfRequests DEF Idle
<1>4. AccountInv'
  <2>1. AccountTypeOK'
    BY <1>1, <1>2 DEF AccountInv, AccountTypeOK
  <2>2. WrongOnesLock'
    BY <1>1, <1>2 DEF AccountInv, WrongOnesLock
  <2>3. OldPasswordClosed'
    BY <1>1, <1>2 DEF AccountInv, OldPasswordClosed
  <2>4. /\ req' = [w \in Workers |-> req'[w]]
        /\ \A w \in Workers : req'[w].op \in AccountOps <=> req'[w] \in AccountRequest
        /\ Busy' = {} /\ \A w \in Workers : ReadOK(req[w])'
    BY <1>1, <1>3, OpsOfRequests DEF Busy, ReadOK
  <2> QED BY <2>1, <2>2, <2>3, <2>4 DEF AccountInv
<1>5. \A w \in passing : req[w].call \in Calls /\ ToSet(req[w].alerts) \subseteq Kind
  <2> TAKE w \in passing
  <2>1. req[w].call \in Calls /\ req[w].alerts \in Seq(Kind)
    BY <1>2, CallShape
  <2>2. \A s \in Seq(Kind) : ToSet(s) \subseteq Kind
    BY DEF ToSet
  <2> QED BY <2>1, <2>2
<1>6. TypeOK'
  <2>1. lost' \subseteq Calls \X (Kind \cup {"row"})
    <3>1. unlogged \subseteq Calls \X (Kind \cup {"row"})
      BY <1>5
    <3>2. unraised \subseteq Calls \X (Kind \cup {"row"})
      BY <1>5
    <3>3. lost \subseteq Calls \X (Kind \cup {"row"})
      BY <1>2 DEF TypeOK
    <3> HIDE DEF unlogged, unraised
    <3> QED BY <1>1, <3>1, <3>2, <3>3
  <2> HIDE DEF passing, unlogged, unraised
  <2>2. req' \in [Workers -> AccountRequest \cup Passage \cup {Idle}]
    BY <1>1
  <2> QED BY <1>1, <1>2, <1>4, <2>1, <2>2 DEF TypeOK, AccountInv
<1>7. /\ \A c : Logging(c)' = {}
      /\ \A c, k : Raising(c, k)' = {}
  BY <1>1, <1>3 DEF Logging, Raising
<1>8. /\ \A c \in Calls : Logging(c) # {} => <<c, "row">> \in lost'
      /\ \A c \in Calls, k \in Kind : Raising(c, k) # {} => <<c, k>> \in lost'
  <2>1. ASSUME NEW c \in Calls, NEW w \in Logging(c) PROVE <<c, "row">> \in unlogged
    BY <2>1 DEF Logging
  <2>2. ASSUME NEW c \in Calls, NEW k \in Kind, NEW w \in Raising(c, k)
        PROVE  <<c, k>> \in unraised
    BY <2>2 DEF Raising
  <2> HIDE DEF unlogged, unraised
  <2> QED BY <1>1, <2>1, <2>2
<1> HIDE DEF unlogged, unraised, passing
<1> lost \subseteq lost'
  BY <1>1
<1>9. DeedsAreLogged'
  <2> SUFFICES ASSUME NEW c \in Calls
               PROVE  LET written == rows[c] + Cardinality({}) IN
                      /\ written + thrown[c] <= deeds[c]
                      /\ <<c, "row">> \notin lost' => written + thrown[c] = deeds[c]
    BY <1>1, <1>7 DEF DeedsAreLogged
  <2>1. LET written == rows[c] + Cardinality(Logging(c)) IN
        /\ written + thrown[c] <= deeds[c]
        /\ <<c, "row">> \notin lost => written + thrown[c] = deeds[c]
    BY DEF TrailInv, DeedsAreLogged
  <2>2. /\ Cardinality(Logging(c)) \in Nat /\ Cardinality({}) = 0
        /\ rows[c] \in Nat /\ deeds[c] \in Nat /\ thrown[c] \in Nat
    BY <1>2, CallAssumption, FS_Subset, FS_CardinalityType, FS_EmptySet DEF Logging, TypeOK
  <2>3. CASE Logging(c) = {}
    BY <2>1, <2>2, <2>3
  <2>4. CASE Logging(c) # {}
    BY <1>8, <2>1, <2>2, <2>4
  <2> QED BY <2>3, <2>4
<1>10. FlaggedIsTold'
  <2> SUFFICES ASSUME NEW c \in Calls, NEW k \in Kind
               PROVE  LET told == alarms[c][k] + Cardinality({})
                          due == IF k \in ToSet(Alerts(c)) THEN tries[c] ELSE 0
                      IN  told <= due /\ (<<c, k>> \notin lost' => told = due)
    BY <1>1, <1>7 DEF FlaggedIsTold
  <2>1. LET told == alarms[c][k] + Cardinality(Raising(c, k))
            due == IF k \in ToSet(Alerts(c)) THEN tries[c] ELSE 0
        IN  told <= due /\ (<<c, k>> \notin lost => told = due)
    BY DEF TrailInv, FlaggedIsTold
  <2>2. /\ Cardinality(Raising(c, k)) \in Nat /\ Cardinality({}) = 0
        /\ alarms[c][k] \in Nat /\ tries[c] \in Nat
    BY <1>2, CallAssumption, FS_Subset, FS_CardinalityType, FS_EmptySet DEF Raising, TypeOK
  <2>3. CASE Raising(c, k) = {}
    BY <2>1, <2>2, <2>3
  <2>4. CASE Raising(c, k) # {}
    BY <1>8, <2>1, <2>2, <2>4
  <2> QED BY <2>3, <2>4
<1>11. AlertsDiffer' /\ NothingExempt' /\ NoDeedWithoutTotp'
  BY <1>1, <1>2, <1>3 DEF AlertsDiffer, NothingExempt, NoDeedWithoutTotp, TrailInv
<1> QED BY <1>4, <1>6, <1>9, <1>10, <1>11 DEF TrailInv

\* It moves no slot but its own, and that from one such request to the next.
LEMMA AccountSlot ==
    ASSUME AccountInv, AccountNext
    PROVE  /\ \A v \in Workers : \/ req'[v] = req[v]
                                 \/ /\ req[v] \in AccountRequest \cup {Idle}
                                    /\ req'[v] \in AccountRequest \cup {Idle}
           /\ req' = [v \in Workers |-> req'[v]]
<1>1. req = [v \in Workers |-> req[v]]
  BY DEF AccountInv
<1>2. AccountInv'
  BY AccountStep
<1>3. ASSUME NEW w \in Workers, AccountRequestNext(w)
      PROVE  \A v \in Workers \ {w} : req'[v] = req[v]
  BY <1>1, <1>3 DEF AccountRequestNext, BeginLogin, BeginMechanicLogin, LoginWrong, LoginRight,
     BeginVerifyMfa, BeginRefresh, Mint, BeginChange, WritePassword, Sweep, Fail, Start, Begin
<1>4. ASSUME NEW w \in Workers, AccountRequestNext(w)
      PROVE  req[w] \in AccountRequest \cup {Idle}
  BY <1>4, RequestShape DEF AccountRequestNext, BeginLogin, BeginMechanicLogin, LoginWrong, LoginRight,
     BeginVerifyMfa, BeginRefresh, Mint, BeginChange, WritePassword, Sweep, Fail, Start, Begin,
     AccountOps
<1>5. ASSUME NEW w \in Workers, AccountRequestNext(w)
      PROVE  req'[w].op \in AccountOps \/ req'[w] = Idle
  BY <1>1, <1>5 DEF AccountRequestNext, BeginLogin, BeginMechanicLogin, LoginWrong, LoginRight,
     BeginVerifyMfa, BeginRefresh, Mint, BeginChange, WritePassword, Sweep, Fail, Start, Begin,
     Minting, AccountOps
<1>6. CASE Lapse
  BY <1>1, <1>6 DEF Lapse
<1>7. ASSUME NEW r \in Roles, ChangeRole(r) PROVE UNCHANGED req
  BY <1>7 DEF ChangeRole
<1> QED BY <1>1, <1>2, <1>3, <1>4, <1>5, <1>6, <1>7 DEF AccountNext, AccountInv

\* What the account has been is not forgotten: a role with MFA that nobody promoted it
\* to is the role it had, and the tokens stay.
LEMMA AccountHistory ==
    ASSUME AccountInv, AccountNext
    PROVE  /\ role' \in PRIVILEGED_ROLES /\ ~promoted' => role \in PRIVILEGED_ROLES /\ ~promoted
           /\ tokens \subseteq tokens'
<1>1. ASSUME NEW r \in Roles, ChangeRole(r)
      PROVE  /\ role' \in PRIVILEGED_ROLES /\ ~promoted' => role \in PRIVILEGED_ROLES /\ ~promoted
             /\ tokens' = tokens
  BY <1>1 DEF ChangeRole, keys
<1>2. CASE Lapse
  BY <1>2 DEF Lapse, person, keys
<1>3. ASSUME NEW w \in Workers, AccountRequestNext(w)
      PROVE  UNCHANGED <<role, promoted>> /\ tokens \subseteq tokens'
  BY <1>3 DEF AccountRequestNext, BeginLogin, BeginMechanicLogin, LoginWrong, LoginRight,
     BeginVerifyMfa, BeginRefresh, Mint, BeginChange, WritePassword, Sweep, Fail, Start, person, keys
<1> QED BY <1>1, <1>2, <1>3 DEF AccountNext

\* A privileged account that nobody promoted gets nothing that is exempt from MFA.
LEMMA ExemptStep ==
    ASSUME AccountInv, NothingExempt, AccountNext PROVE NothingExempt'
<1>1. /\ AccountTypeOK /\ req = [v \in Workers |-> req[v]]
      /\ tokens \subseteq tokens'
      /\ \A v \in Workers : \/ req'[v] = req[v]
                            \/ /\ req[v] \in AccountRequest \cup {Idle}
                               /\ req'[v] \in AccountRequest \cup {Idle}
  BY AccountSlot, AccountHistory DEF AccountInv
<1> SUFFICES ASSUME role' \in PRIVILEGED_ROLES, ~promoted' PROVE NothingExempt'
  BY DEF NothingExempt
<1>2. role \in PRIVILEGED_ROLES /\ ~promoted
  BY AccountHistory
<1>3. /\ \A s \in sessions : s.factor # "exempt"
      /\ \A t \in tokens : t.role \in PRIVILEGED_ROLES /\ t.factor # "exempt"
      /\ \A v \in Workers : /\ req[v].op = "login" => req[v].as \in PRIVILEGED_ROLES
                            /\ req[v].op = "mint" => /\ req[v].role \in PRIVILEGED_ROLES
                                                     /\ req[v].factor # "exempt"
      /\ \A v \in Workers : req[v].op = "call" /\ ~req[v].call.session =>
                                \E t \in tokens : t.factor = "totp"
  BY <1>2 DEF NothingExempt
<1>4. ASSUME NEW v \in Workers, req'[v].op = "call", ~req'[v].call.session
      PROVE  \E t \in tokens' : t.factor = "totp"
  <2>1. Idle.op # "call" /\ \A r \in AccountRequest : r.op # "call"
    BY OpsOfRequests DEF AccountOps, Idle
  <2>2. req'[v] = req[v]
    BY <1>1, <1>4, <2>1
  <2> QED BY <1>1, <1>3, <1>4, <2>2
<1> DEFINE Told == /\ \A s \in sessions' : s.factor # "exempt"
                   /\ \A t \in tokens' : t.role \in PRIVILEGED_ROLES /\ t.factor # "exempt"
                   /\ \A v \in Workers :
                        /\ req'[v].op = "login" => req'[v].as \in PRIVILEGED_ROLES
                        /\ req'[v].op = "mint" => /\ req'[v].role \in PRIVILEGED_ROLES
                                                  /\ req'[v].factor # "exempt"
           Fine(r) == /\ r.op = "login" => r.as \in PRIVILEGED_ROLES
                      /\ r.op = "mint" => r.role \in PRIVILEGED_ROLES /\ r.factor # "exempt"
<1>5. ASSUME Lapse \/ \E r \in Roles : ChangeRole(r) PROVE Told
  BY <1>3, <1>5 DEF Lapse, ChangeRole, keys
<1>6. ASSUME NEW w \in Workers, AccountRequestNext(w) PROVE Told
  <2>1. ASSUME NEW r, req' = [req EXCEPT ![w] = r], Fine(r)
        PROVE  \A v \in Workers :
                 /\ req'[v].op = "login" => req'[v].as \in PRIVILEGED_ROLES
                 /\ req'[v].op = "mint" => /\ req'[v].role \in PRIVILEGED_ROLES
                                           /\ req'[v].factor # "exempt"
    BY <1>1, <1>3, <2>1
  <2>2. ASSUME NEW r \in Roles, NEW p \in Generation, NEW f \in Factor,
               r \in PRIVILEGED_ROLES, f # "exempt"
        PROVE  Fine(Minting(r, p, f))
    BY <2>2, MintingIs
  <2>3. /\ "none" \in Factor /\ "totp" \in Factor /\ role \in Roles /\ password \in Generation
        /\ pending \subseteq Generation
        /\ \A s \in sessions : s.password \in Generation /\ s.factor \in Factor
    BY <1>1 DEF AccountTypeOK, Factor
  <2>4. CASE BeginLogin(w)
    <3>1. PICK b \in BOOLEAN :
            Start(w, [op |-> "login", seen |-> failed, password |-> password, right |-> b,
                      as |-> role])
      BY <2>4 DEF BeginLogin
    <3> DEFINE r == [op |-> "login", seen |-> failed, password |-> password, right |-> b,
                     as |-> role]
    <3>2. Fine(r)
      BY <1>2
    <3>3. req' = [req EXCEPT ![w] = r] /\ UNCHANGED <<sessions, tokens>>
      BY <3>1 DEF Start, Begin, keys
    <3> HIDE DEF Fine, r
    <3> QED BY <1>3, <2>1, <3>2, <3>3
  <2>5. CASE BeginChange(w)
    <3>1. /\ req' = [req EXCEPT ![w] = [op |-> "change"]]
          /\ UNCHANGED <<sessions, tokens>>
      BY <2>5 DEF BeginChange, Start, Begin, keys
    <3>2. Fine([op |-> "change"])
      OBVIOUS
    <3> HIDE DEF Fine
    <3> QED BY <1>3, <2>1, <3>1, <3>2
  <2>6. CASE BeginVerifyMfa(w)
    <3>1. PICK p \in pending : Start(w, Minting(role, p, "totp"))
      BY <2>6 DEF BeginVerifyMfa
    <3>2. Fine(Minting(role, p, "totp"))
      BY <1>2, <2>2, <2>3
    <3>3. req' = [req EXCEPT ![w] = Minting(role, p, "totp")] /\ UNCHANGED <<sessions, tokens>>
      BY <3>1 DEF Start, Begin, keys
    <3> HIDE DEF Fine
    <3> QED BY <1>3, <2>1, <3>2, <3>3
  <2>7. CASE BeginMechanicLogin(w)
    BY <1>2, <2>7 DEF BeginMechanicLogin, allowedRoles, PRIVILEGED_ROLES
  <2>8. CASE BeginRefresh(w)
    <3>1. PICK s \in sessions : /\ Begin(w, Minting(role, s.password, s.factor))
                                /\ sessions' \in {sessions, sessions \ {s}}
                                /\ tokens' = tokens
      BY <2>8 DEF BeginRefresh
    <3>2. Fine(Minting(role, s.password, s.factor))
      BY <1>2, <1>3, <2>2, <2>3
    <3>3. req' = [req EXCEPT ![w] = Minting(role, s.password, s.factor)]
      BY <3>1 DEF Begin
    <3> HIDE DEF Fine
    <3>4. \A t \in sessions' : t.factor # "exempt"
      BY <1>3, <3>1
    <3> QED BY <1>3, <2>1, <3>1, <3>2, <3>3, <3>4
  <2>9. CASE LoginRight(w)
    <3>1. req[w].op = "login" /\ req[w].as \in Roles /\ req[w].password \in Generation
      BY <2>9, RequestShape DEF LoginRight
    <3>2. Fine(Minting(req[w].as, req[w].password, "none")) /\ Fine(Idle)
      <4>1. req[w].as \in PRIVILEGED_ROLES
        BY <1>3, <3>1
      <4>2. Fine(Idle)
        BY DEF Idle
      <4> QED BY <2>2, <2>3, <3>1, <4>1, <4>2
    <3>3. \/ req' = [req EXCEPT ![w] = Minting(req[w].as, req[w].password, "none")]
          \/ req' = [req EXCEPT ![w] = Idle]
      BY <2>9 DEF LoginRight
    <3>4. UNCHANGED <<sessions, tokens>>
      BY <2>9 DEF LoginRight
    <3> HIDE DEF Fine
    <3> QED BY <1>3, <2>1, <3>2, <3>3, <3>4
  <2>10. CASE Mint(w)
    <3>1. req' = [req EXCEPT ![w] = Idle] /\ Fine(Idle)
      BY <2>10 DEF Mint, Idle
    <3>2. /\ sessions' = sessions \cup {[password |-> req[w].password, factor |-> req[w].factor]}
          /\ tokens' = tokens \cup {[role |-> req[w].role, factor |-> req[w].factor]}
          /\ req[w].role \in PRIVILEGED_ROLES /\ req[w].factor # "exempt"
      BY <1>3, <2>10 DEF Mint
    <3>3. /\ \A s \in sessions' : s.factor # "exempt"
          /\ \A t \in tokens' : t.role \in PRIVILEGED_ROLES /\ t.factor # "exempt"
      BY <1>3, <3>2
    <3> HIDE DEF Fine
    <3> QED BY <2>1, <3>1, <3>3
  <2>11. CASE LoginWrong(w) \/ WritePassword(w) \/ Sweep(w) \/ Fail(w)
    <3>1. \/ req' = [req EXCEPT ![w] = Idle]
          \/ req' = [req EXCEPT ![w] = [op |-> "sweep"]]
      BY <2>11 DEF LoginWrong, WritePassword, Sweep, Fail
    <3>2. Fine(Idle) /\ Fine([op |-> "sweep"])
      BY DEF Idle
    <3>3. sessions' \subseteq sessions /\ tokens' = tokens
      BY <2>11 DEF LoginWrong, WritePassword, Sweep, Fail, keys
    <3> HIDE DEF Fine
    <3> QED BY <1>3, <2>1, <3>1, <3>2, <3>3
  <2> QED BY <1>6, <2>4, <2>5, <2>6, <2>7, <2>8, <2>9, <2>10, <2>11 DEF AccountRequestNext
<1>7. Told
  <2> HIDE DEF Told
  <2> QED BY <1>5, <1>6 DEF AccountNext
<1> QED BY <1>4, <1>7 DEF NothingExempt

\* The account's own requests leave those let through, and the books, alone.
LEMMA AccountKeepsBooks ==
    ASSUME TrailInv, AccountNext, UNCHANGED book PROVE TrailInv'
<1>1. /\ AccountInv /\ TypeOK /\ AlertsDiffer /\ NothingExempt
      /\ DeedsAreLogged /\ FlaggedIsTold /\ NoDeedWithoutTotp
      /\ UNCHANGED <<tries, deeds, thrown, rows, alarms, lost>>
  BY DEF TrailInv, book
<1>2. AccountInv' /\ NothingExempt'
  BY <1>1, AccountStep, ExemptStep
<1>3. \A v \in Workers : req'[v] = req[v] \/ (req[v].op # "call" /\ req'[v].op # "call")
  <2>1. Idle.op # "call" /\ \A r \in AccountRequest : r.op # "call"
    BY OpsOfRequests DEF AccountOps, Idle
  <2> QED BY <1>1, <2>1, AccountSlot
<1>4. /\ \A c : Logging(c)' = Logging(c)
      /\ \A c, k : Raising(c, k)' = Raising(c, k)
      /\ AlertsDiffer'
  BY <1>1, <1>3 DEF Logging, Raising, AlertsDiffer
<1>5. TypeOK'
  <2>1. req' \in [Workers -> AccountRequest \cup Passage \cup {Idle}]
    BY <1>1, AccountSlot DEF TypeOK
  <2> QED BY <1>1, <1>2, <2>1 DEF TypeOK, AccountInv
<1>7. NoDeedWithoutTotp'
  BY <1>1, AccountHistory DEF NoDeedWithoutTotp
<1> QED BY <1>1, <1>2, <1>4, <1>5, <1>7, LogStands, AlarmsStand DEF TrailInv

LEMMA TrailInitially == Init => TrailInv
<1> SUFFICES ASSUME Init PROVE TrailInv
  OBVIOUS
<1>1. /\ AccountInit /\ lost = {} /\ req = [w \in Workers |-> Idle]
      /\ tries = [c \in Calls |-> 0] /\ deeds = [c \in Calls |-> 0]
      /\ thrown = [c \in Calls |-> 0] /\ rows = [c \in Calls |-> 0] /\ alarms = [c \in Calls |-> [k \in Kind |-> 0]]
  BY DEF Init, AccountInit
<1>2. AccountInv
  BY <1>1, AccountInitially
<1>3. TypeOK
  <2>1. /\ req \in [Workers -> AccountRequest \cup Passage \cup {Idle}]
        /\ deeds \in [Calls -> Nat] /\ thrown \in [Calls -> Nat] /\ rows \in [Calls -> Nat]
        /\ alarms \in [Calls -> [Kind -> Nat]]
    BY <1>1
  <2>2. tries \in [Calls -> 0..MaxTries]
    BY <1>1, CallAssumption
  <2> QED BY <1>1, <1>2, <2>1, <2>2 DEF TypeOK, AccountInv
<1>4. Idle.op = "idle"
  BY DEF Idle
<1>5. AlertsDiffer
  BY <1>1, <1>4 DEF AlertsDiffer
<1>6. NothingExempt /\ NoDeedWithoutTotp
  BY <1>1, <1>4 DEF AccountInit, NothingExempt, NoDeedWithoutTotp
<1>7. /\ \A c : Logging(c) = {}
      /\ \A c, k : Raising(c, k) = {}
  BY <1>1, <1>4 DEF Logging, Raising
<1>8. Cardinality({}) = 0
  BY FS_EmptySet
<1>9. DeedsAreLogged
  BY <1>1, <1>7, <1>8 DEF DeedsAreLogged
<1>10. FlaggedIsTold
  BY <1>1, <1>7, <1>8 DEF FlaggedIsTold
<1> QED BY <1>2, <1>3, <1>5, <1>6, <1>9, <1>10 DEF TrailInv

\* What the trail and the alerts are to hold is counted in the requests still under
\* way, in the rows and in the inserts that were lost; TOTP is asked for before.
THEOREM TrailInvariant == Spec => []TrailInv
<1>1. TrailInv /\ [Next]_vars => TrailInv'
  <2> SUFFICES ASSUME TrailInv, [Next]_vars PROVE TrailInv'
    OBVIOUS
  <2>1. CASE AccountNext /\ UNCHANGED book
    BY <2>1, AccountKeepsBooks
  <2>2. ASSUME NEW w \in Workers, NEW c \in Calls, Admit(w, c) PROVE TrailInv'
    BY <2>2, AdmitStep
  <2>3. ASSUME NEW w \in Workers, PersistAlert(w) \/ Handle(w) \/ Throw(w) \/ Refuse(w) \/ LogRow(w)
        PROVE  TrailInv'
    BY <2>3, PersistStep, HandleStep, ThrowStep, RefuseStep, LogStep
  <2>4. CASE Crash
    BY <2>4, CrashStep
  <2>5. CASE UNCHANGED vars
    <3>1. AccountInv' /\ UNCHANGED <<accountVars, req, tries, deeds, thrown, rows, alarms, lost>>
      BY <2>5 DEF vars, book, accountVars, TrailInv, AccountInv, AccountTypeOK, WrongOnesLock,
                  OldPasswordClosed, Busy, ReadOK
    <3>2. \A c, k : Logging(c)' = Logging(c) /\ Raising(c, k)' = Raising(c, k)
      BY <3>1 DEF Logging, Raising
    <3>3. DeedsAreLogged' /\ FlaggedIsTold'
      BY <3>1, <3>2, LogStands, AlarmsStand DEF TrailInv
    <3> QED BY <3>1, <3>3 DEF accountVars, TrailInv, TypeOK, AlertsDiffer, NothingExempt,
                              NoDeedWithoutTotp, AccountTypeOK
  <2> QED BY <2>1, <2>2, <2>3, <2>4, <2>5 DEF Next
<1> QED BY <1>1, TrailInitially, PTL DEF Spec

\* Five wrong passwords in a row leave a lock behind, until two logins overlap,
\* whatever else the tokens are used for.
THEOREM WrongPasswordsLock == AccountSpec \/ Spec => []WrongOnesLock
<1>1. AccountInv => WrongOnesLock
  BY DEF AccountInv
<1>2. TrailInv => AccountInv
  BY DEF TrailInv
<1> QED BY <1>1, <1>2, AccountInvariant, TrailInvariant, PTL

\* changePassword leaves no session of an older password, except behind a TOTP
\* step that was still to come.
THEOREM OldPasswordsClosed == AccountSpec \/ Spec => []OldPasswordClosed
<1>1. AccountInv => OldPasswordClosed
  BY DEF AccountInv
<1>2. TrailInv => AccountInv
  BY DEF TrailInv
<1> QED BY <1>1, <1>2, AccountInvariant, TrailInvariant, PTL

\* AuditInterceptor: the deeds are the rows, those about to be written, those whose
\* insert failed and those whose handler threw after them; nothing is logged twice or
\* without a deed.
THEOREM DeedsAlwaysLogged == Spec => []DeedsAreLogged
<1>1. TrailInv => DeedsAreLogged
  BY DEF TrailInv
<1> QED BY <1>1, TrailInvariant, PTL

\* AntiFraudInterceptor: each flagged request raises each of its alerts once,
\* whether the handler answers or throws.
THEOREM FlagsAlwaysTold == Spec => []FlaggedIsTold
<1>1. TrailInv => FlaggedIsTold
  BY DEF TrailInv
<1> QED BY <1>1, TrailInvariant, PTL

\* MfaEnforcementInterceptor: no deed of a privileged account without TOTP, as long as
\* nobody promoted it to such a role.
THEOREM TotpBeforeDeeds == Spec => []NoDeedWithoutTotp
<1>1. TrailInv => NoDeedWithoutTotp
  BY DEF TrailInv
<1> QED BY <1>1, TrailInvariant, PTL
=============================================================================
