-------------------------------- MODULE Trail --------------------------------
(***************************************************************************)
(* What becomes of a request that changes something: the guards and the    *)
(* interceptors around the handler, the alerts of the anti-fraud checks    *)
(* and the row of the audit trail.  The handler itself is a black box that *)
(* does its deed or refuses, or does it and throws.                        *)
(*                                                                         *)
(* The alerts are written in the background while the handler runs, the    *)
(* row after it answered; the failure of either insert is swallowed.       *)
(***************************************************************************)
EXTENDS Accounts, SequencesExt, FiniteSets

CONSTANTS
    Calls,      \* requests that may be made
    MaxTries    \* bound: requests let through to the handler

VARIABLES
    tries,      \* how often each request reached the handler
    deeds,      \* how often the handler did it
    thrown,     \* observer: how often it threw after that
    rows,       \* rows of its own in audit_logs
    alarms,     \* FRAUD_ rows in audit_logs, of each kind
    lost        \* observer: which inserts for which request failed

book == <<tries, deeds, thrown, rows, alarms, lost>>
accountVars == <<role, promoted, mfaEnabled, failed, lock, password, pending, sessions, tokens,
                 overlap, torn, begun, wrong>>
vars == <<accountVars, req, book>>

HIGH_VALUE_THRESHOLD == 500

\* roles: those of @Roles.  session: one of AUTH_EXEMPT_SUFFIXES.  area: what the
\* url names.  personal: isPersonalYape or yapeAccount.  adjustment: the type, or a
\* justification that says so.
Call == [roles : SUBSET UserRole, session : BOOLEAN, amount : Nat,
         area : {"expense", "payment", "inventory", "restricted", "other"},
         personal : BOOLEAN, adjustment : BOOLEAN]

ASSUME CallAssumption == Calls \subseteq Call /\ MaxTries \in Nat /\ IsFiniteSet(Workers)

Kind == {"YAPE_DIVERSION", "INVENTORY_MANIPULATION", "HIGH_VALUE_MUTATION", "RESTRICTED_ACCESS"}

-----------------------------------------------------------------------------
(* The checks of AntiFraudService *)

checkYapeDiversion(c) == IF c.personal THEN <<"YAPE_DIVERSION">> ELSE <<>>

checkInventoryManipulation(c) ==
    IF c.area = "inventory" /\ c.adjustment THEN <<"INVENTORY_MANIPULATION">> ELSE <<>>

checkHighValueMutation(c) ==
    IF c.amount > HIGH_VALUE_THRESHOLD /\ c.area \in {"expense", "payment"}
    THEN <<"HIGH_VALUE_MUTATION">> ELSE <<>>

checkSuspiciousAccessPattern(c) ==
    IF c.area = "restricted" THEN <<"RESTRICTED_ACCESS">> ELSE <<>>

Alerts(c) ==
    checkYapeDiversion(c) \o checkInventoryManipulation(c)
        \o checkHighValueMutation(c) \o checkSuspiciousAccessPattern(c)

\* A request on its way: what remains of the handler and of the alerts.
Passage == [op : {"call"}, call : Calls, stage : {"handling", "logging", "done"},
            alerts : Seq(Kind)]

TypeOK ==
    /\ AccountTypeOK
    /\ req    \in [Workers -> AccountRequest \cup Passage \cup {Idle}]
    /\ tries  \in [Calls -> 0..MaxTries]
    /\ deeds  \in [Calls -> Nat] /\ thrown \in [Calls -> Nat]
    /\ rows   \in [Calls -> Nat]
    /\ alarms \in [Calls -> [Kind -> Nat]]
    /\ lost   \subseteq Calls \X (Kind \cup {"row"})

Init ==
    /\ AccountInit
    /\ tries = [c \in Calls |-> 0] /\ deeds = tries /\ thrown = tries /\ rows = tries
    /\ alarms = [c \in Calls |-> [k \in Kind |-> 0]]
    /\ lost = {}

\* The slot of a request is free once nothing of it remains.
Settle(w, r) ==
    req' = [req EXCEPT ![w] = IF r.stage = "done" /\ r.alerts = <<>> THEN Idle ELSE r]

-----------------------------------------------------------------------------
\* RolesGuard, by the role in the access token.
HasRole(c, t) == t.role \in c.roles

\* Mutant: only some routes ask for the second factor.
MfaOnSomeRoutes(c, t) ==
    t.role \in PRIVILEGED_ROLES /\ ~mfaVerified(t) /\ c.area = "restricted" => c.session

\* MfaEnforcementInterceptor
MfaEnforced(c, t) ==
    t.role \in PRIVILEGED_ROLES /\ ~mfaVerified(t) => c.session

\* A request is let through; the checks run at once, before the handler.
Admit(w, c) ==
    /\ req[w] = Idle
    /\ tries[c] < MaxTries
    /\ \E t \in tokens : HasRole(c, t) /\ MfaEnforced(c, t)
    /\ tries' = [tries EXCEPT ![c] = @ + 1]
    /\ Settle(w, [op |-> "call", call |-> c, stage |-> "handling", alerts |-> Alerts(c)])
    /\ UNCHANGED <<accountVars, deeds, thrown, rows, alarms, lost>>

\* Mutant: only the first alert is persisted.
PersistOneAlert(w) ==
    /\ req[w].op = "call" /\ req[w].alerts # <<>>
    /\ alarms' = [alarms EXCEPT ![req[w].call][Head(req[w].alerts)] = @ + 1]
    /\ Settle(w, [req[w] EXCEPT !.alerts = <<>>])
    /\ UNCHANGED <<accountVars, tries, deeds, thrown, rows, lost>>

\* persistAlert, one alert after the other; the insert may fail.
PersistAlert(w) ==
    /\ req[w].op = "call" /\ req[w].alerts # <<>>
    /\ \/ /\ alarms' = [alarms EXCEPT ![req[w].call][Head(req[w].alerts)] = @ + 1]
          /\ UNCHANGED lost
       \/ /\ lost' = lost \cup {<<req[w].call, Head(req[w].alerts)>>}
          /\ UNCHANGED alarms
    /\ Settle(w, [req[w] EXCEPT !.alerts = Tail(@)])
    /\ UNCHANGED <<accountVars, tries, deeds, thrown, rows>>

Handle(w) ==
    /\ req[w].op = "call" /\ req[w].stage = "handling"
    /\ deeds' = [deeds EXCEPT ![req[w].call] = @ + 1]
    /\ Settle(w, [req[w] EXCEPT !.stage = "logging"])
    /\ UNCHANGED <<accountVars, tries, thrown, rows, alarms, lost>>

\* The handler has written and then throws: the sessions cannot be closed after the
\* hash is written, the queue does not take the job of an expense.  tap sees no answer.
Throw(w) ==
    /\ req[w].op = "call" /\ req[w].stage = "handling"
    /\ deeds' = [deeds EXCEPT ![req[w].call] = @ + 1]
    /\ thrown' = [thrown EXCEPT ![req[w].call] = @ + 1]
    /\ Settle(w, [req[w] EXCEPT !.stage = "done"])
    /\ UNCHANGED <<accountVars, tries, rows, alarms, lost>>

\* Mutant: a refused request is logged as well.
RefuseLogged(w) ==
    /\ req[w].op = "call" /\ req[w].stage = "handling"
    /\ Settle(w, [req[w] EXCEPT !.stage = "logging"])
    /\ UNCHANGED <<accountVars, book>>

\* The handler throws before it has written anything.
Refuse(w) ==
    /\ req[w].op = "call" /\ req[w].stage = "handling"
    /\ Settle(w, [req[w] EXCEPT !.stage = "done"])
    /\ UNCHANGED <<accountVars, book>>

\* AuditInterceptor, after the answer; the insert may fail.
LogRow(w) ==
    /\ req[w].op = "call" /\ req[w].stage = "logging"
    /\ \/ /\ rows' = [rows EXCEPT ![req[w].call] = @ + 1]
          /\ UNCHANGED lost
       \/ /\ lost' = lost \cup {<<req[w].call, "row">>}
          /\ UNCHANGED rows
    /\ Settle(w, [req[w] EXCEPT !.stage = "done"])
    /\ UNCHANGED <<accountVars, tries, deeds, thrown, alarms>>

\* The process dies with what it has under way.
Crash ==
    LET passing == {w \in Workers : req[w].op = "call"} IN
    /\ \E w \in Workers : req[w] # Idle
    /\ lost' = lost \cup {<<req[w].call, "row">> : w \in {v \in passing : req[v].stage = "logging"}}
                    \cup UNION {{req[w].call} \X ToSet(req[w].alerts) : w \in passing}
    /\ torn' = (torn \/ \E w \in Workers : req[w].op = "sweep")
    /\ req' = [w \in Workers |-> Idle]
    /\ UNCHANGED <<person, counter, password, keys, overlap, begun,
                   tries, deeds, thrown, rows, alarms>>

Next ==
    \/ AccountNext /\ UNCHANGED book
    \/ \E w \in Workers :
         \/ \E c \in Calls : Admit(w, c)
         \/ PersistAlert(w) \/ Handle(w) \/ Throw(w) \/ Refuse(w) \/ LogRow(w)
    \/ Crash

Spec == Init /\ [][Next]_vars

-----------------------------------------------------------------------------
\* The requests for c whose row is still to be inserted.
Logging(c) ==
    {w \in Workers : req[w].op = "call" /\ req[w].call = c /\ req[w].stage = "logging"}

\* The requests for c whose alert of kind k is still to be inserted.
Raising(c, k) ==
    {w \in Workers : req[w].op = "call" /\ req[w].call = c /\ k \in ToSet(req[w].alerts)}

\* The audit trail (AuditInterceptor): a deed that was answered is in the trail once,
\* or about to be, unless the insert failed or the process died; what was refused, or
\* is not done yet, is not in it.  Nor is what a handler did before it threw.
DeedsAreLogged ==
    \A c \in Calls :
        LET written == rows[c] + Cardinality(Logging(c)) IN
        /\ written + thrown[c] <= deeds[c]
        /\ <<c, "row">> \notin lost => written + thrown[c] = deeds[c]

\* The checks (AntiFraudInterceptor): whatever the handler makes of it, each request
\* they flag has raised every alert it should once, or is about to, unless that very
\* insert failed or the process died; an alert that no check found is never raised.
FlaggedIsTold ==
    \A c \in Calls, k \in Kind :
        LET told == alarms[c][k] + Cardinality(Raising(c, k))
            due == IF k \in ToSet(Alerts(c)) THEN tries[c] ELSE 0
        IN  told <= due /\ (<<c, k>> \notin lost => told = due)

\* Rule 9, TOTP for OWNER, ADMIN and FINANCE: as long as nobody without MFA has been
\* promoted to such a role, and no token was made with a TOTP code, such an account
\* does nothing but manage its own session.
NoDeedWithoutTotp ==
    role \in PRIVILEGED_ROLES /\ ~promoted /\ (\A t \in tokens : t.factor # "totp") =>
        \A c \in Calls : ~c.session => deeds[c] = 0
-----------------------------------------------------------------------------
(* The inductive invariant of these properties *)

\* No check raises an alert twice, so what is left after the first is the others.
AlertsDiffer == \A w \in Workers : req[w].op = "call" => IsInjective(req[w].alerts)

\* A privileged account that nobody promoted has never been without MFA: what it holds
\* and what is under way was made for such a role, and counts as verified by a code.
NothingExempt ==
    role \in PRIVILEGED_ROLES /\ ~promoted =>
        /\ \A s \in sessions : s.factor # "exempt"
        /\ \A t \in tokens : t.role \in PRIVILEGED_ROLES /\ t.factor # "exempt"
        /\ \A w \in Workers :
             /\ req[w].op = "login" => req[w].as \in PRIVILEGED_ROLES
             /\ req[w].op = "mint" => /\ req[w].role \in PRIVILEGED_ROLES
                                      /\ req[w].factor # "exempt"
             /\ req[w].op = "call" /\ ~req[w].call.session =>
                    \E t \in tokens : t.factor = "totp"

TrailInv ==
    /\ AccountInv /\ TypeOK
    /\ AlertsDiffer /\ NothingExempt
    /\ DeedsAreLogged /\ FlaggedIsTold /\ NoDeedWithoutTotp
=============================================================================
