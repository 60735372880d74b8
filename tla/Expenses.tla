------------------------------ MODULE Expenses ------------------------------
(***************************************************************************)
(* Expense authorisations: FinanceService.createExpense and                *)
(* approveExpense, the account role they consult and the token that lets   *)
(* a request in.                                                           *)
(*                                                                         *)
(* approveExpense reads the expense, then the approver's account, then     *)
(* writes by id (twice, audit row first, on a second signature), nothing   *)
(* of it in a transaction: a request is a slot in req that interleaves     *)
(* with the others between these awaits.                                   *)
(***************************************************************************)
EXTENDS Naturals, Requests

CONSTANTS
    Expenses,   \* rows of expense_authorizations
    Owners,     \* accounts with role OWNER
    Staff,      \* the other accounts
    Amounts,    \* amounts a request may carry, in thousandths of a sol
    NoUser

Users == Owners \cup Staff

ASSUME ExpenseUsersAssumption == Owners \cap Staff = {} /\ NoUser \notin Users

ASSUME AmountsAssumption == Amounts \subseteq Nat

VARIABLES
    role,       \* Account.role
    token,      \* role inside the access token each user holds
    st,         \* ExpenseAuthorization.status, "NONE" before the row exists
    amount,     \* .amount, in céntimos
    level,      \* .approvalLevel
    requester,  \* .requesterId
    approver,   \* .approverId
    disbursed,  \* .disbursedAt is set
    audit,      \* EXPENSE_DUAL_APPROVED rows about each expense
    signed      \* observer: approvals written, with the role that was checked

expense == <<st, amount, level, requester, approver, disbursed, audit, signed>>
vars == <<role, token, st, amount, level, requester, approver, disbursed,
          audit, signed, req>>

-----------------------------------------------------------------------------
\* UserRole, with the roles finance has no business with as one.
Roles == {"OWNER", "ADMIN", "FINANCE", "OTHER"}

Levels == {"FINANCE", "ADMIN", "OWNER", "DUAL_OWNER"}

ExpenseStatus == {"PENDING_APPROVAL", "DISBURSED", "REJECTED"}

\* Mutant: a factor of ten in the last limit.
determineApprovalLevelLoose(raw) ==
    CASE raw <= 100000 -> "FINANCE"
      [] raw > 100000 /\ raw <= 500000 -> "ADMIN"
      [] raw > 500000 -> "OWNER"

\* determineApprovalLevel looks at the amount as it was sent.
determineApprovalLevel(raw) ==
    CASE raw <= 100000 -> "FINANCE"
      [] raw > 100000 /\ raw <= 500000 -> "ADMIN"
      [] raw > 500000 /\ raw <= 2000000 -> "OWNER"
      [] raw > 2000000 -> "DUAL_OWNER"

\* The column is DECIMAL(12,2): what is stored is rounded to céntimos.
Stored(raw) == (raw + 5) \div 10

\* Mutant: the OWNER row of the hierarchy lists ADMIN.
MayApproveByAdmin(r, l) ==
    IF l = "FINANCE" THEN r \in {"FINANCE", "ADMIN", "OWNER"}
                     ELSE r \in {"ADMIN", "OWNER"}

\* canApproveLevel
MayApprove(r, l) ==
    CASE l = "FINANCE" -> r \in {"FINANCE", "ADMIN", "OWNER"}
      [] l = "ADMIN"   -> r \in {"ADMIN", "OWNER"}
      [] OTHER         -> r = "OWNER"

Signature == [who : Users, role : Roles]

\* first is approverId as the request read it, as the role its check read.
Request == [op : {"check", "reject", "sign", "audit", "pay"}, e : Expenses,
            by : Users, decision : {"APPROVED", "REJECTED"},
            first : Users \cup {NoUser}, as : Roles]


TypeOK ==
    /\ role      \in [Users -> Roles]
    /\ token     \in [Users -> Roles]
    /\ st        \in [Expenses -> ExpenseStatus \cup {"NONE"}]
    /\ amount    \in [Expenses -> Nat]
    /\ level     \in [Expenses -> Levels]
    /\ requester \in [Expenses -> Users \cup {NoUser}]
    /\ approver  \in [Expenses -> Users \cup {NoUser}]
    /\ disbursed \in [Expenses -> BOOLEAN]
    /\ audit     \in [Expenses -> SUBSET [first : Users, second : Users]]
    /\ signed    \in [Expenses -> SUBSET Signature]
    /\ req       \in [Workers -> Request \cup {Idle}]

Init ==
    /\ role \in [Users -> Roles]
    /\ \A u \in Users : role[u] = "OWNER" <=> u \in Owners
    /\ token = role
    /\ st        = [e \in Expenses |-> "NONE"]
    /\ amount    = [e \in Expenses |-> 0]
    /\ level     = [e \in Expenses |-> "FINANCE"]
    /\ requester = [e \in Expenses |-> NoUser]
    /\ approver  = [e \in Expenses |-> NoUser]
    /\ disbursed = [e \in Expenses |-> FALSE]
    /\ audit     = [e \in Expenses |-> {}]
    /\ signed    = [e \in Expenses |-> {}]
    /\ req       = [w \in Workers |-> Idle]

-----------------------------------------------------------------------------
(* Accounts *)

\* PATCH /personnel/:id/role: an OWNER is never made or unmade.
ChangeRole(u, r) ==
    /\ role[u] # "OWNER"
    /\ r # "OWNER"
    /\ role' = [role EXCEPT ![u] = r]
    /\ UNCHANGED <<token, expense, req>>

\* Login and refresh sign the role of the moment; until then the guards see
\* the old one.
RefreshToken(u) ==
    /\ token' = [token EXCEPT ![u] = role[u]]
    /\ UNCHANGED <<role, expense, req>>

-----------------------------------------------------------------------------
(* POST /finance/expenses *)

\* Below S/ 100, as sent, the expense is born paid.
CreateExpense(e, u, raw) ==
    /\ st[e] = "NONE"
    /\ token[u] \in {"FINANCE", "ADMIN", "OWNER"}
    /\ \/ /\ raw < 100000
          /\ st' = [st EXCEPT ![e] = "DISBURSED"]
          /\ approver' = [approver EXCEPT ![e] = u]
          /\ disbursed' = [disbursed EXCEPT ![e] = TRUE]
       \/ /\ raw >= 100000
          /\ st' = [st EXCEPT ![e] = "PENDING_APPROVAL"]
          /\ UNCHANGED <<approver, disbursed>>
    /\ amount' = [amount EXCEPT ![e] = Stored(raw)]
    /\ level' = [level EXCEPT ![e] = determineApprovalLevel(raw)]
    /\ requester' = [requester EXCEPT ![e] = u]
    /\ UNCHANGED <<role, token, audit, signed, req>>

-----------------------------------------------------------------------------
(* POST /finance/expenses/:id/approve *)

\* The expense is read: pending, and not the approver's own.
BeginDecide(w, e, u, d) ==
    /\ req[w] = Idle
    /\ token[u] \in {"ADMIN", "OWNER"}
    /\ st[e] = "PENDING_APPROVAL"
    /\ requester[e] # u
    /\ req' = [req EXCEPT ![w] = [op |-> "check", e |-> e, by |-> u,
                 decision |-> d, first |-> approver[e], as |-> "OTHER"]]
    /\ UNCHANGED <<role, token, expense>>

\* What a request whose role was accepted goes on to write.
NextOp(r) ==
    CASE r.decision = "REJECTED" -> "reject"
      [] r.decision = "APPROVED" /\ level[r.e] # "DUAL_OWNER" -> "pay"
      [] r.decision = "APPROVED" /\ level[r.e] = "DUAL_OWNER" ->
           IF r.first = NoUser THEN "sign" ELSE "audit"

\* Mutant: the same owner may sign twice.
CheckLevelSameOwner(w) ==
    /\ req[w].op = "check"
    /\ MayApprove(role[req[w].by], level[req[w].e])
    /\ req' = [req EXCEPT ![w].op = NextOp(req[w]), ![w].as = role[req[w].by]]
    /\ UNCHANGED <<role, token, expense>>

\* The account is read; the same owner may not sign twice.
CheckLevel(w) ==
    /\ req[w].op = "check"
    /\ MayApprove(role[req[w].by], level[req[w].e])
    /\ NextOp(req[w]) = "audit" => req[w].first # req[w].by
    /\ req' = [req EXCEPT ![w].op = NextOp(req[w]), ![w].as = role[req[w].by]]
    /\ UNCHANGED <<role, token, expense>>

\* The approval of the request r is on record.
Signs(r) ==
    signed' = [signed EXCEPT ![r.e] = @ \cup {[who |-> r.by, role |-> r.as]}]

CommitReject(w) ==
    /\ Takes(w, "reject")
    /\ st' = [st EXCEPT ![req[w].e] = "REJECTED"]
    /\ approver' = [approver EXCEPT ![req[w].e] = req[w].by]
    /\ UNCHANGED <<role, token, amount, level, requester, disbursed, audit, signed>>

\* First signature of a DUAL_OWNER expense: it stays pending.
CommitSign(w) ==
    /\ Takes(w, "sign")
    /\ approver' = [approver EXCEPT ![req[w].e] = req[w].by]
    /\ Signs(req[w])
    /\ UNCHANGED <<role, token, st, amount, level, requester, disbursed, audit>>

\* Second signature: the audit row is a write of its own, before the payment.
CommitAudit(w) ==
    /\ req[w].op = "audit"
    /\ audit' = [audit EXCEPT ![req[w].e] =
                   @ \cup {[first |-> req[w].first, second |-> req[w].by]}]
    /\ req' = [req EXCEPT ![w].op = "pay"]
    /\ UNCHANGED <<role, token, st, amount, level, requester, approver, disbursed, signed>>

CommitPay(w) ==
    /\ Takes(w, "pay")
    /\ st' = [st EXCEPT ![req[w].e] = "DISBURSED"]
    /\ approver' = [approver EXCEPT ![req[w].e] = req[w].by]
    /\ disbursed' = [disbursed EXCEPT ![req[w].e] = TRUE]
    /\ Signs(req[w])
    /\ UNCHANGED <<role, token, amount, level, requester, audit>>

\* The request is refused, or the process dies; what it wrote stays written.
Fail(w) ==
    /\ req[w] # Idle
    /\ req' = [req EXCEPT ![w] = Idle]
    /\ UNCHANGED <<role, token, expense>>

-----------------------------------------------------------------------------
Decide(w) ==
    \/ \E e \in Expenses, u \in Users, d \in {"APPROVED", "REJECTED"} :
         BeginDecide(w, e, u, d)
    \/ CheckLevel(w)
    \/ CommitReject(w)
    \/ CommitSign(w)
    \/ CommitAudit(w)
    \/ CommitPay(w)
    \/ Fail(w)

Next ==
    \/ \E u \in Users, r \in Roles : ChangeRole(u, r)
    \/ \E u \in Users : RefreshToken(u)
    \/ \E e \in Expenses, u \in Users, raw \in Amounts : CreateExpense(e, u, raw)
    \/ \E w \in Workers : Decide(w)

Spec == Init /\ [][Next]_vars

-----------------------------------------------------------------------------
(* Properties *)

Signers(e) == {s.who : s \in signed[e]}

\* Four eyes: an expense stored above S/ 100 has been paid only after someone
\* other than its requester, of the rank its amount asks for, approved it
\* (canApproveLevel), whatever roles changed and tokens went stale meanwhile.
PaidOnAuthority ==
    \A e \in Expenses : disbursed[e] /\ amount[e] > 10000 =>
        \E s \in signed[e] :
            /\ s.who # requester[e]
            /\ s.role \in {"ADMIN", "OWNER"}
            /\ amount[e] > 50000 => s.role = "OWNER"

\* FUN-01: an expense stored above S/ 2000 has been paid only after two
\* different owners, neither of them its requester, approved it, although the
\* first signature is a plain overwrite of approverId on a stale read.
DualNeedsTwoOwners ==
    \A e \in Expenses : disbursed[e] /\ amount[e] > 200000 =>
        \E s, t \in signed[e] :
            /\ s.role = "OWNER" /\ s.who # requester[e]
            /\ t.role = "OWNER" /\ t.who # requester[e]
            /\ s.who # t.who

\* The audit log names two different people who did sign every expense paid
\* above S/ 2000: the row is written apart from the signatures it quotes.
AuditNamesTheSigners ==
    \A e \in Expenses : disbursed[e] /\ amount[e] > 200000 =>
        \E a \in audit[e] : /\ a.first # a.second
                            /\ {a.first, a.second} \subseteq Signers(e)

\* The two signatures and the row of the audit log that quotes them.
DualOnRecord == DualNeedsTwoOwners /\ AuditNamesTheSigners

\* While an expense waits, approverId is empty or names someone who signed it.
PendingApproverSigned ==
    \A e \in Expenses : st[e] = "PENDING_APPROVAL" =>
        approver[e] \in Signers(e) \cup {NoUser}

-----------------------------------------------------------------------------
(* The inductive invariant behind them *)

\* A stored amount never asks for more than the level determined from the
\* amount as it was sent.
LevelCovers(e) ==
    /\ amount[e] > 10000 => level[e] # "FINANCE"
    /\ amount[e] > 50000 => level[e] \in {"OWNER", "DUAL_OWNER"}
    /\ amount[e] > 200000 => level[e] = "DUAL_OWNER"

ExpenseOK(e) ==
    /\ st[e] = "NONE" <=> requester[e] = NoUser
    /\ st[e] = "NONE" => ~disbursed[e] /\ approver[e] = NoUser /\ signed[e] = {}
    /\ LevelCovers(e)
    /\ \A s \in signed[e] : s.who # requester[e] /\ MayApprove(s.role, level[e])
    /\ st[e] = "PENDING_APPROVAL" => approver[e] \in Signers(e) \cup {NoUser}
    /\ disbursed[e] /\ level[e] # "FINANCE" => signed[e] # {}
    /\ disbursed[e] /\ level[e] = "DUAL_OWNER" =>
         \E a \in audit[e] : a.first # a.second /\ {a.first, a.second} \subseteq Signers(e)

\* What a request r in flight knows about its expense.
ReqOK(r) ==
    /\ st[r.e] # "NONE"
    /\ r.by # requester[r.e]
    /\ r.first \in Signers(r.e) \cup {NoUser}
    /\ r.op # "check" => MayApprove(r.as, level[r.e])
    /\ r.op = "sign" => level[r.e] = "DUAL_OWNER"
    /\ r.op = "audit" \/ (r.op = "pay" /\ level[r.e] = "DUAL_OWNER") =>
         r.first \notin {NoUser, r.by}
    /\ r.op = "pay" /\ level[r.e] = "DUAL_OWNER" =>
         [first |-> r.first, second |-> r.by] \in audit[r.e]

ExpenseInv ==
    /\ TypeOK
    /\ \A e \in Expenses : ExpenseOK(e)
    /\ \A w \in Workers : req[w] # Idle => ReqOK(req[w])

-----------------------------------------------------------------------------
\* The database, its races and its restarts do what the expense desk promises.
EC == INSTANCE ExpenseControl
        WITH votes <- signed, paid <- disbursed,
             Prices <- {Stored(raw) : raw \in Amounts}

Control == EC!Spec

=============================================================================
