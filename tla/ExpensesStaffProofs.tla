------------------------- MODULE ExpensesStaffProofs --------------------------
(***************************************************************************)
(* For any number of expenses, approvals in flight, owners and other       *)
(* accounts, and any amounts: ExpenseInv is an invariant of Expenses, the  *)
(* four-eyes rules follow from it, and every behaviour of the handlers is  *)
(* one that ExpenseControl allows.                                         *)
(*                                                                         *)
(* The argument: a row's level and requester never change once it exists,  *)
(* and signatures and audit rows only accumulate, so what a request read   *)
(* about them is still true when it writes (OneExpenseKeepsInv).           *)
(*                                                                         *)
(* And for any workers, commissions and length of a day, StaffInv is an    *)
(* invariant of Staff: what an attendance request read of its row stays    *)
(* true while rows keep their entries (RequestStays), which they do but    *)
(* for two requests on a recorded absence.                                 *)
(***************************************************************************)
EXTENDS Expenses, Staff, TLAPS

\* Rounding to céntimos never lifts an amount over a limit that the amount
\* as it was sent did not pass.
LEMMA LevelLemma ==
    ASSUME NEW raw \in Nat
    PROVE  /\ Stored(raw) \in Nat
           /\ determineApprovalLevel(raw) \in Levels
           /\ Stored(raw) > 10000 => determineApprovalLevel(raw) # "FINANCE"
           /\ Stored(raw) > 50000 =>
                determineApprovalLevel(raw) \in {"OWNER", "DUAL_OWNER"}
           /\ Stored(raw) > 200000 => determineApprovalLevel(raw) = "DUAL_OWNER"
           /\ raw < 100000 => determineApprovalLevel(raw) = "FINANCE"
           /\ raw < 100000 => Stored(raw) <= 10000
BY DEF Stored, determineApprovalLevel, Levels

LEMMA IdleIsNoRequest == Idle \notin Request /\ Idle.op = "idle"
BY DEF Idle, Request

\* A slot that is not idle holds a request about an existing expense.
LEMMA SlotFacts ==
    ASSUME ExpenseInv, NEW w \in Workers, req[w].op # "idle"
    PROVE  /\ req[w] \in Request /\ req[w].e \in Expenses /\ req[w].by \in Users
           /\ ReqOK(req[w]) /\ ExpenseOK(req[w].e)
<1>1. req[w] # Idle
  BY IdleIsNoRequest
<1>2. req[w] \in Request
  BY <1>1 DEF ExpenseInv, TypeOK
<1>3. req[w].e \in Expenses /\ req[w].by \in Users
  BY <1>2 DEF Request
<1>4. QED
  BY <1>1, <1>2, <1>3 DEF ExpenseInv

\* Signatures only accumulate.
LEMMA SignersGrow ==
    ASSUME NEW e \in Expenses, signed[e] \subseteq signed'[e]
    PROVE  Signers(e) \subseteq Signers(e)'
BY DEF Signers

\* A step that changes one expense, keeps what requests rely on, and leaves
\* every slot as it was, idle or ReqOK, preserves the invariant.
LEMMA OneExpenseKeepsInv ==
    ASSUME ExpenseInv, TypeOK', NEW e \in Expenses, ExpenseOK(e)',
           \A x \in Expenses \ {e} :
              /\ st'[x] = st[x] /\ amount'[x] = amount[x] /\ level'[x] = level[x]
              /\ requester'[x] = requester[x] /\ approver'[x] = approver[x]
              /\ disbursed'[x] = disbursed[x] /\ audit'[x] = audit[x]
              /\ signed'[x] = signed[x],
           st[e] # "NONE" => /\ st'[e] # "NONE" /\ level'[e] = level[e]
                             /\ requester'[e] = requester[e],
           audit[e] \subseteq audit'[e],
           signed[e] \subseteq signed'[e],
           \A v \in Workers : \/ req'[v] = req[v] \/ req'[v] = Idle
                              \/ ReqOK(req[v])'
    PROVE  ExpenseInv'
<1>1. \A x \in Expenses : ExpenseOK(x)'
  <2>1. SUFFICES ASSUME NEW x \in Expenses, x # e PROVE ExpenseOK(x)'
    OBVIOUS
  <2>2. ExpenseOK(x)
    BY DEF ExpenseInv
  <2>3. QED
    BY <2>1, <2>2 DEF ExpenseOK, LevelCovers, Signers
<1>2. ASSUME NEW v \in Workers, req'[v] # Idle PROVE ReqOK(req[v])'
  <2>1. CASE req'[v] = req[v]
    <3>1. req[v] \in Request /\ ReqOK(req[v])
      BY <1>2, <2>1 DEF ExpenseInv, TypeOK
    <3> PICK x \in Expenses : req[v].e = x
      BY <3>1 DEF Request
    <3>2. /\ st[x] # "NONE" /\ st'[x] # "NONE" /\ level'[x] = level[x]
          /\ requester'[x] = requester[x] /\ audit[x] \subseteq audit'[x]
          /\ signed[x] \subseteq signed'[x]
      BY <3>1 DEF ReqOK
    <3>3. Signers(x) \subseteq Signers(x)'
      BY <3>2, SignersGrow
    <3>4. QED
      BY <2>1, <3>1, <3>2, <3>3 DEF ReqOK
  <2>2. QED
    BY <1>2, <2>1
<1>3. QED
  BY <1>1, <1>2 DEF ExpenseInv
\* RefreshToken has no role parameter; AccountsKeepInv takes any one.
LEMMA RolesNotEmpty == "OTHER" \in Roles
BY DEF Roles

-----------------------------------------------------------------------------
LEMMA ExpenseInvInit == Init => ExpenseInv
<1>1. ASSUME Init PROVE TypeOK
  BY <1>1 DEF Init, TypeOK, Levels
<1>2. ASSUME Init PROVE \A e \in Expenses : ExpenseOK(e)
  <2> SUFFICES ASSUME NEW e \in Expenses PROVE ExpenseOK(e)
    OBVIOUS
  <2>1. ~disbursed[e]
    BY <1>2 DEF Init
  <2>2. /\ st[e] = "NONE" /\ requester[e] = NoUser /\ signed[e] = {}
        /\ approver[e] = NoUser /\ amount[e] = 0
    BY <1>2 DEF Init
  <2>3. QED
    BY <2>1, <2>2 DEF ExpenseOK, LevelCovers
<1>3. QED
  BY <1>1, <1>2 DEF ExpenseInv, Init

LEMMA AccountsKeepInv ==
    ASSUME ExpenseInv, NEW u \in Users, NEW r \in Roles,
           ChangeRole(u, r) \/ RefreshToken(u)
    PROVE  ExpenseInv'
<1>1. UNCHANGED <<expense, req>>
  BY DEF ChangeRole, RefreshToken
<1>2. role' \in [Users -> Roles] /\ token' \in [Users -> Roles]
  BY DEF ChangeRole, RefreshToken, ExpenseInv, TypeOK
<1>3. TypeOK'
  BY <1>1, <1>2 DEF ExpenseInv, TypeOK, expense
<1>4. \A e \in Expenses : ExpenseOK(e)'
  BY <1>1 DEF ExpenseInv, expense, ExpenseOK, LevelCovers, Signers
<1>5. \A w \in Workers : req'[w] # Idle => ReqOK(req[w])'
  BY <1>1 DEF ExpenseInv, expense, ReqOK, Signers
<1>6. QED
  BY <1>3, <1>4, <1>5 DEF ExpenseInv

LEMMA CreateExpenseKeepsInv ==
    ASSUME ExpenseInv, NEW e \in Expenses, NEW u \in Users, NEW raw \in Amounts,
           CreateExpense(e, u, raw)
    PROVE  ExpenseInv'
<1>1. TypeOK /\ ExpenseOK(e) /\ raw \in Nat /\ u # NoUser
  BY AmountsAssumption, ExpenseUsersAssumption DEF ExpenseInv
<1> PICK a \in Nat, l \in Levels :
      /\ a = Stored(raw) /\ l = determineApprovalLevel(raw)
      /\ a > 10000 => l # "FINANCE"
      /\ a > 50000 => l \in {"OWNER", "DUAL_OWNER"}
      /\ a > 200000 => l = "DUAL_OWNER"
      /\ raw < 100000 => l = "FINANCE"
  BY <1>1, LevelLemma
<1>2. /\ st[e] = "NONE"
      /\ amount' = [amount EXCEPT ![e] = a]
      /\ level' = [level EXCEPT ![e] = l]
      /\ requester' = [requester EXCEPT ![e] = u]
      /\ UNCHANGED <<role, token, audit, signed, req>>
  BY DEF CreateExpense
<1>3. ~disbursed[e] /\ approver[e] = NoUser /\ signed[e] = {}
  BY <1>1, <1>2 DEF ExpenseOK
<1>4. LevelCovers(e)' /\ requester'[e] = u /\ level'[e] = l
  BY <1>1, <1>2 DEF LevelCovers, TypeOK
<1>5. CASE raw < 100000
  <2>1. /\ st' = [st EXCEPT ![e] = "DISBURSED"]
        /\ approver' = [approver EXCEPT ![e] = u]
        /\ disbursed' = [disbursed EXCEPT ![e] = TRUE]
    BY <1>1, <1>5 DEF CreateExpense
  <2>2. TypeOK'
    BY <1>1, <1>2, <2>1 DEF TypeOK, ExpenseStatus
  <2>3. st'[e] = "DISBURSED" /\ level'[e] = "FINANCE" /\ signed'[e] = {}
    BY <1>1, <1>2, <1>3, <1>4, <1>5, <2>1 DEF TypeOK
  <2>4. ExpenseOK(e)'
    BY <1>1, <1>4, <2>3 DEF ExpenseOK
  <2>5. \A x \in Expenses \ {e} :
           /\ st'[x] = st[x] /\ amount'[x] = amount[x] /\ level'[x] = level[x]
           /\ requester'[x] = requester[x] /\ approver'[x] = approver[x]
           /\ disbursed'[x] = disbursed[x] /\ audit'[x] = audit[x]
           /\ signed'[x] = signed[x]
    BY <1>1, <1>2, <2>1 DEF TypeOK
  <2>6. QED
    BY <1>2, <2>2, <2>4, <2>5, OneExpenseKeepsInv
<1>6. CASE raw >= 100000
  <2>1. /\ st' = [st EXCEPT ![e] = "PENDING_APPROVAL"]
        /\ UNCHANGED <<approver, disbursed>>
    BY <1>1, <1>6 DEF CreateExpense
  <2>2. TypeOK'
    BY <1>1, <1>2, <2>1 DEF TypeOK, ExpenseStatus
  <2>3. /\ st'[e] = "PENDING_APPROVAL" /\ signed'[e] = {}
        /\ ~disbursed'[e] /\ approver'[e] = NoUser
    BY <1>1, <1>2, <1>3, <2>1 DEF TypeOK
  <2>4. ExpenseOK(e)'
    BY <1>1, <1>4, <2>3 DEF ExpenseOK
  <2>5. QED
    BY <1>1, <1>2, <2>1, <2>2, <2>4, OneExpenseKeepsInv DEF TypeOK
<1>7. QED
  BY <1>1, <1>5, <1>6

\* The first read: the request parked is about a pending expense of another.
LEMMA BeginDecideKeepsInv ==
    ASSUME ExpenseInv, NEW w \in Workers, NEW e \in Expenses, NEW u \in Users,
           NEW d \in {"APPROVED", "REJECTED"}, BeginDecide(w, e, u, d)
    PROVE  ExpenseInv'
<1> PICK r : r = [op |-> "check", e |-> e, by |-> u, decision |-> d,
                  first |-> approver[e], as |-> "OTHER"]
  OBVIOUS
<1>1. TypeOK /\ ExpenseOK(e)
  BY DEF ExpenseInv
<1>2. /\ st[e] = "PENDING_APPROVAL" /\ requester[e] # u
      /\ req' = [req EXCEPT ![w] = r]
      /\ UNCHANGED <<role, token, expense>>
  BY DEF BeginDecide
<1>3. r \in Request
  BY <1>1 DEF Request, TypeOK, Roles
<1>4. TypeOK'
  BY <1>1, <1>2, <1>3 DEF TypeOK, expense
<1>5. ReqOK(r)'
  BY <1>1, <1>2 DEF ReqOK, ExpenseOK, expense, Signers
<1>6. ExpenseOK(e)'
  BY <1>1, <1>2 DEF ExpenseOK, LevelCovers, Signers, expense
<1>7. ASSUME NEW v \in Workers
      PROVE  req'[v] = req[v] \/ req'[v] = Idle \/ ReqOK(req[v])'
  <2>1. CASE v = w
    <3>1. req'[v] = r
      BY <1>1, <1>2, <2>1 DEF TypeOK
    <3>2. QED
      BY <1>5, <3>1 DEF ReqOK
  <2>2. CASE v # w
    BY <1>1, <1>2, <2>2 DEF TypeOK
  <2>3. QED
    BY <2>1, <2>2
<1>8. QED
  BY <1>2, <1>4, <1>6, <1>7, OneExpenseKeepsInv DEF expense

\* The second read fixes what will be written and in which role.
LEMMA CheckLevelKeepsInv ==
    ASSUME ExpenseInv, NEW w \in Workers, CheckLevel(w)
    PROVE  ExpenseInv'
<1>1. TypeOK /\ req[w].op = "check"
  BY DEF ExpenseInv, CheckLevel
<1>2. /\ req[w] \in Request /\ req[w].e \in Expenses /\ req[w].by \in Users
      /\ ReqOK(req[w]) /\ ExpenseOK(req[w].e)
  BY <1>1, SlotFacts
<1> PICK e \in Expenses : req[w].e = e
  BY <1>2
<1> PICK r : r = [req[w] EXCEPT !.op = NextOp(req[w]), !.as = role[req[w].by]]
  OBVIOUS
<1>3. /\ MayApprove(role[req[w].by], level[e])
      /\ NextOp(req[w]) = "audit" => req[w].first # req[w].by
      /\ req' = [req EXCEPT ![w] = r]
      /\ UNCHANGED <<role, token, expense>>
  BY <1>1, <1>2 DEF CheckLevel, TypeOK
<1>4. /\ NextOp(req[w]) \in {"reject", "sign", "audit", "pay"}
      /\ NextOp(req[w]) = "sign" => level[e] = "DUAL_OWNER"
      /\ NextOp(req[w]) = "audit" => req[w].first # NoUser
      /\ NextOp(req[w]) = "pay" => level[e] # "DUAL_OWNER"
  BY <1>2 DEF NextOp, Request
<1>5. /\ r \in Request /\ r.e = e /\ r.by = req[w].by /\ r.first = req[w].first
      /\ r.op = NextOp(req[w]) /\ r.as = role[req[w].by]
  BY <1>1, <1>2, <1>4 DEF Request, TypeOK
<1>6. TypeOK'
  BY <1>1, <1>3, <1>5 DEF TypeOK, expense
<1>7. ReqOK(r)'
  BY <1>2, <1>3, <1>4, <1>5 DEF ReqOK, expense, Signers
<1>8. ExpenseOK(e)'
  BY <1>2, <1>3 DEF ExpenseOK, LevelCovers, Signers, expense
<1>9. ASSUME NEW v \in Workers
      PROVE  req'[v] = req[v] \/ req'[v] = Idle \/ ReqOK(req[v])'
  <2>1. CASE v = w
    <3>1. req'[v] = r
      BY <1>1, <1>3, <2>1 DEF TypeOK
    <3>2. QED
      BY <1>7, <3>1 DEF ReqOK
  <2>2. CASE v # w
    BY <1>1, <1>3, <2>2 DEF TypeOK
  <2>3. QED
    BY <2>1, <2>2
<1>10. QED
  BY <1>3, <1>6, <1>8, <1>9, OneExpenseKeepsInv DEF expense

LEMMA CommitRejectKeepsInv ==
    ASSUME ExpenseInv, NEW w \in Workers, CommitReject(w)
    PROVE  ExpenseInv'
<1>1. TypeOK /\ req[w].op = "reject"
  BY DEF ExpenseInv, CommitReject, Takes
<1>2. /\ req[w] \in Request /\ req[w].e \in Expenses /\ req[w].by \in Users
      /\ ReqOK(req[w]) /\ ExpenseOK(req[w].e)
  BY <1>1, SlotFacts
<1> PICK e \in Expenses : req[w].e = e
  BY <1>2
<1>3. /\ req' = [req EXCEPT ![w] = Idle]
      /\ st' = [st EXCEPT ![e] = "REJECTED"]
      /\ approver' = [approver EXCEPT ![e] = req[w].by]
      /\ UNCHANGED <<role, token, amount, level, requester, disbursed, audit, signed>>
  BY DEF CommitReject, Takes
<1>4. TypeOK'
  BY <1>1, <1>2, <1>3 DEF TypeOK, ExpenseStatus
<1>5. st[e] # "NONE" /\ st'[e] = "REJECTED"
  BY <1>1, <1>2, <1>3 DEF ReqOK, TypeOK
<1>6. ExpenseOK(e)'
  BY <1>2, <1>3, <1>5 DEF ExpenseOK, LevelCovers, Signers
<1>7. QED
  BY <1>1, <1>3, <1>4, <1>5, <1>6, OneExpenseKeepsInv DEF TypeOK

LEMMA CommitSignKeepsInv ==
    ASSUME ExpenseInv, NEW w \in Workers, CommitSign(w)
    PROVE  ExpenseInv'
<1>1. TypeOK /\ req[w].op = "sign"
  BY DEF ExpenseInv, CommitSign, Takes
<1>2. /\ req[w] \in Request /\ req[w].e \in Expenses /\ req[w].by \in Users
      /\ ReqOK(req[w]) /\ ExpenseOK(req[w].e)
  BY <1>1, SlotFacts
<1> PICK e \in Expenses : req[w].e = e
  BY <1>2
<1> PICK s : s = [who |-> req[w].by, role |-> req[w].as]
  OBVIOUS
<1>3. /\ req' = [req EXCEPT ![w] = Idle]
      /\ approver' = [approver EXCEPT ![e] = req[w].by]
      /\ signed' = [signed EXCEPT ![e] = @ \cup {s}]
      /\ UNCHANGED <<role, token, st, amount, level, requester, disbursed, audit>>
  BY DEF CommitSign, Takes, Signs
<1>4. s \in Signature
  BY <1>2 DEF Signature, Request
<1>5. TypeOK'
  BY <1>1, <1>2, <1>3, <1>4 DEF TypeOK
<1>6. /\ st[e] # "NONE" /\ signed'[e] = signed[e] \cup {s}
      /\ s.who # requester[e] /\ MayApprove(s.role, level[e])
      /\ approver'[e] = s.who
  BY <1>1, <1>2, <1>3 DEF ReqOK, TypeOK
<1>7. Signers(e)' = Signers(e) \cup {s.who}
  BY <1>6 DEF Signers
<1>8. ExpenseOK(e)'
  BY <1>2, <1>3, <1>6, <1>7 DEF ExpenseOK, LevelCovers
<1>9. QED
  BY <1>1, <1>3, <1>5, <1>6, <1>8, OneExpenseKeepsInv DEF TypeOK

LEMMA CommitAuditKeepsInv ==
    ASSUME ExpenseInv, NEW w \in Workers, CommitAudit(w)
    PROVE  ExpenseInv'
<1>1. TypeOK /\ req[w].op = "audit"
  BY DEF ExpenseInv, CommitAudit
<1>2. /\ req[w] \in Request /\ req[w].e \in Expenses /\ req[w].by \in Users
      /\ ReqOK(req[w]) /\ ExpenseOK(req[w].e)
  BY <1>1, SlotFacts
<1> PICK e \in Expenses : req[w].e = e
  BY <1>2
<1> PICK a : a = [first |-> req[w].first, second |-> req[w].by]
  OBVIOUS
<1> PICK r : r = [req[w] EXCEPT !.op = "pay"]
  OBVIOUS
<1>3. /\ audit' = [audit EXCEPT ![e] = @ \cup {a}]
      /\ req' = [req EXCEPT ![w] = r]
      /\ UNCHANGED <<role, token, st, amount, level, requester, approver, disbursed, signed>>
  BY <1>1 DEF CommitAudit, TypeOK
<1>4. /\ r \in Request /\ r.op = "pay" /\ r.e = e /\ r.by = req[w].by
      /\ r.first = req[w].first /\ r.as = req[w].as
  BY <1>2 DEF Request
<1>5. a \in [first : Users, second : Users]
  BY <1>1, <1>2 DEF Request, ReqOK
<1>6. TypeOK'
  BY <1>1, <1>3, <1>4, <1>5 DEF TypeOK
<1>7. st[e] # "NONE" /\ audit'[e] = audit[e] \cup {a}
  BY <1>1, <1>2, <1>3 DEF ReqOK, TypeOK
<1>8. ExpenseOK(e)'
  BY <1>2, <1>3, <1>7 DEF ExpenseOK, LevelCovers, Signers
<1>9. ReqOK(r)'
  BY <1>1, <1>2, <1>3, <1>4, <1>7 DEF ReqOK, Signers
<1>10. ASSUME NEW v \in Workers
       PROVE  req'[v] = req[v] \/ req'[v] = Idle \/ ReqOK(req[v])'
  <2>1. CASE v = w
    <3>1. req'[v] = r
      BY <1>1, <1>3, <2>1 DEF TypeOK
    <3>2. QED
      BY <1>9, <3>1 DEF ReqOK
  <2>2. CASE v # w
    BY <1>1, <1>3, <2>2 DEF TypeOK
  <2>3. QED
    BY <2>1, <2>2
<1>11. QED
  BY <1>1, <1>3, <1>6, <1>7, <1>8, <1>10, OneExpenseKeepsInv DEF TypeOK

LEMMA CommitPayKeepsInv ==
    ASSUME ExpenseInv, NEW w \in Workers, CommitPay(w)
    PROVE  ExpenseInv'
<1>1. TypeOK /\ req[w].op = "pay"
  BY DEF ExpenseInv, CommitPay, Takes
<1>2. /\ req[w] \in Request /\ req[w].e \in Expenses /\ req[w].by \in Users
      /\ ReqOK(req[w]) /\ ExpenseOK(req[w].e)
  BY <1>1, SlotFacts
<1> PICK e \in Expenses : req[w].e = e
  BY <1>2
<1> PICK s : s = [who |-> req[w].by, role |-> req[w].as]
  OBVIOUS
<1>3. /\ req' = [req EXCEPT ![w] = Idle]
      /\ st' = [st EXCEPT ![e] = "DISBURSED"]
      /\ approver' = [approver EXCEPT ![e] = req[w].by]
      /\ disbursed' = [disbursed EXCEPT ![e] = TRUE]
      /\ signed' = [signed EXCEPT ![e] = @ \cup {s}]
      /\ UNCHANGED <<role, token, amount, level, requester, audit>>
  BY DEF CommitPay, Takes, Signs
<1>4. s \in Signature
  BY <1>2 DEF Signature, Request
<1>5. TypeOK'
  BY <1>1, <1>2, <1>3, <1>4 DEF TypeOK, ExpenseStatus
<1>6. /\ st[e] # "NONE" /\ st'[e] = "DISBURSED" /\ signed'[e] = signed[e] \cup {s}
      /\ s.who # requester[e] /\ MayApprove(s.role, level[e])
      /\ s.who = req[w].by
  BY <1>1, <1>2, <1>3 DEF ReqOK, TypeOK
<1>7. Signers(e)' = Signers(e) \cup {s.who}
  BY <1>6 DEF Signers
<1>8. level[e] = "DUAL_OWNER" =>
        \E a \in audit[e] : a.first # a.second /\ {a.first, a.second} \subseteq Signers(e)'
  BY <1>1, <1>2, <1>6, <1>7 DEF ReqOK
<1>9. ExpenseOK(e)'
  BY <1>2, <1>3, <1>6, <1>7, <1>8 DEF ExpenseOK, LevelCovers
<1>10. QED
  BY <1>1, <1>3, <1>5, <1>6, <1>9, OneExpenseKeepsInv DEF TypeOK

LEMMA FailKeepsInv ==
    ASSUME ExpenseInv, NEW w \in Workers, Fail(w)
    PROVE  ExpenseInv'
<1>1. req' = [req EXCEPT ![w] = Idle] /\ UNCHANGED <<role, token, expense>>
  BY DEF Fail
<1>2. TypeOK'
  BY <1>1 DEF ExpenseInv, TypeOK, expense
<1>3. \A e \in Expenses : ExpenseOK(e)'
  BY <1>1 DEF ExpenseInv, ExpenseOK, LevelCovers, Signers, expense
<1>4. ASSUME NEW v \in Workers, req'[v] # Idle PROVE ReqOK(req[v])'
  <2>1. req'[v] = req[v] /\ ReqOK(req[v])
    BY <1>1, <1>4 DEF ExpenseInv, TypeOK
  <2>2. QED
    BY <1>1, <2>1 DEF ReqOK, Signers, expense
<1>5. QED
  BY <1>2, <1>3, <1>4 DEF ExpenseInv

LEMMA DecideKeepsInv ==
    ASSUME ExpenseInv, NEW w \in Workers, Decide(w)
    PROVE  ExpenseInv'
BY BeginDecideKeepsInv, CheckLevelKeepsInv, CommitRejectKeepsInv,
   CommitSignKeepsInv, CommitAuditKeepsInv, CommitPayKeepsInv, FailKeepsInv
DEF Decide

LEMMA ExpenseInvStep ==
    ASSUME ExpenseInv, [Next]_vars
    PROVE  ExpenseInv'
<1>1. CASE Next
  BY <1>1, AccountsKeepInv, CreateExpenseKeepsInv, DecideKeepsInv,
     RolesNotEmpty DEF Next
<1>2. CASE UNCHANGED vars
  <2>1. TypeOK'
    BY <1>2 DEF vars, ExpenseInv, TypeOK
  <2>2. \A e \in Expenses : ExpenseOK(e)'
    BY <1>2 DEF vars, ExpenseInv, ExpenseOK, LevelCovers, Signers
  <2>3. \A w \in Workers : req'[w] # Idle => ReqOK(req[w])'
    BY <1>2 DEF vars, ExpenseInv, ReqOK, Signers
  <2>4. QED
    BY <2>1, <2>2, <2>3 DEF ExpenseInv
<1>3. QED
  BY <1>1, <1>2

-----------------------------------------------------------------------------
(* What the invariant gives *)

LEMMA InvGivesPaidOnAuthority == ExpenseInv => PaidOnAuthority
<1> SUFFICES ASSUME ExpenseInv, NEW e \in Expenses,
                    disbursed[e], amount[e] > 10000
             PROVE  \E s \in signed[e] :
                      /\ s.who # requester[e]
                      /\ s.role \in {"ADMIN", "OWNER"}
                      /\ amount[e] > 50000 => s.role = "OWNER"
  BY DEF PaidOnAuthority
<1>1. ExpenseOK(e)
  BY DEF ExpenseInv
<1>2. level[e] # "FINANCE" /\ level[e] \in Levels
  BY <1>1 DEF ExpenseOK, LevelCovers, ExpenseInv, TypeOK
<1>3. PICK s \in signed[e] : s.who # requester[e] /\ MayApprove(s.role, level[e])
  BY <1>1, <1>2 DEF ExpenseOK
<1>4. s.role \in {"ADMIN", "OWNER"} /\ (amount[e] > 50000 => s.role = "OWNER")
  BY <1>1, <1>2, <1>3 DEF ExpenseOK, LevelCovers, MayApprove, Levels
<1>5. QED
  BY <1>3, <1>4

LEMMA InvGivesDualNeedsTwoOwners == ExpenseInv => DualNeedsTwoOwners
<1> SUFFICES ASSUME ExpenseInv, NEW e \in Expenses,
                    disbursed[e], amount[e] > 200000
             PROVE  \E s, t \in signed[e] :
                      /\ s.role = "OWNER" /\ s.who # requester[e]
                      /\ t.role = "OWNER" /\ t.who # requester[e]
                      /\ s.who # t.who
  BY DEF DualNeedsTwoOwners
<1>1. ExpenseOK(e) /\ level[e] = "DUAL_OWNER"
  BY DEF ExpenseInv, ExpenseOK, LevelCovers
<1>2. PICK a \in audit[e] : a.first # a.second /\ {a.first, a.second} \subseteq Signers(e)
  BY <1>1 DEF ExpenseOK
<1>3. PICK s \in signed[e], t \in signed[e] : s.who = a.first /\ t.who = a.second
  BY <1>2 DEF Signers
<1>4. \A x \in signed[e] : x.role = "OWNER" /\ x.who # requester[e]
  BY <1>1 DEF ExpenseOK, MayApprove
<1>5. QED
  BY <1>2, <1>3, <1>4

LEMMA InvGivesAuditNamesTheSigners == ExpenseInv => AuditNamesTheSigners
BY DEF ExpenseInv, ExpenseOK, LevelCovers, AuditNamesTheSigners

-----------------------------------------------------------------------------
(* Invariance, for every number of expenses, requests and accounts *)

\* Levels cover stored amounts, recorded signatures carry the rank their level
\* asks for, and a request in flight remembers a first signature that stands,
\* however approveExpense's reads and writes interleave, fail or are repeated.
THEOREM ExpenseInvariant == Spec => []ExpenseInv
BY ExpenseInvInit, ExpenseInvStep, PTL DEF Spec

\* Every column of the expense row and every slot keeps its type.
THEOREM TypeCorrect == Spec => []TypeOK
<1>1. ExpenseInv => TypeOK
  BY DEF ExpenseInv
<1>2. QED
  BY <1>1, ExpenseInvariant, PTL

\* canApproveLevel and the self-approval guard: whoever may act and whatever
\* token they hold, money above S/ 100 leaves on another's rank.
THEOREM FourEyes == Spec => []PaidOnAuthority
BY InvGivesPaidOnAuthority, ExpenseInvariant, PTL

\* FUN-01: two different owners stand behind every payment above S/ 2000.
THEOREM TwoOwners == Spec => []DualNeedsTwoOwners
BY InvGivesDualNeedsTwoOwners, ExpenseInvariant, PTL

\* The EXPENSE_DUAL_APPROVED row of a paid expense quotes real signatures.
THEOREM AuditIsTrue == Spec => []AuditNamesTheSigners
BY InvGivesAuditNamesTheSigners, ExpenseInvariant, PTL

\* A pending expense's approverId, which the second signature relies on, is
\* never a name nobody signed with.
THEOREM ApproverIsTrue == Spec => []PendingApproverSigned
<1>1. ExpenseInv => PendingApproverSigned
  BY DEF ExpenseInv, ExpenseOK, PendingApproverSigned
<1>2. QED
  BY <1>1, ExpenseInvariant, PTL

-----------------------------------------------------------------------------
(* The handlers implement ExpenseControl *)

LEMMA InitRefines == Init => EC!Init
BY DEF Init, EC!Init

LEMMA CreateRefines ==
    ASSUME ExpenseInv, NEW e \in Expenses, NEW u \in Users, NEW raw \in Amounts,
           CreateExpense(e, u, raw)
    PROVE  EC!Submit(e, u, Stored(raw))
<1>1. requester[e] = NoUser
  BY DEF CreateExpense, ExpenseInv, ExpenseOK
<1>2. raw < 100000 => Stored(raw) <= 10000
  BY LevelLemma, AmountsAssumption
<1>3. QED
  BY <1>1, <1>2 DEF CreateExpense, EC!Submit

\* A role that may approve some level is one an abstract vote may carry.
LEMMA ApproverRole ==
    ASSUME NEW r \in Roles, NEW l \in Levels, MayApprove(r, l)
    PROVE  r \in {"FINANCE", "ADMIN", "OWNER"}
BY DEF Roles, Levels, MayApprove

LEMMA SignRefines ==
    ASSUME ExpenseInv, NEW w \in Workers, CommitSign(w)
    PROVE  \E e \in Expenses, v \in EC!Vote : EC!Sign(e, v)
<1>1. TypeOK /\ req[w].op = "sign"
  BY DEF ExpenseInv, CommitSign, Takes
<1>2. /\ req[w] \in Request /\ req[w].e \in Expenses /\ req[w].by \in Users
      /\ ReqOK(req[w]) /\ ExpenseOK(req[w].e)
  BY <1>1, SlotFacts
<1> PICK e \in Expenses : req[w].e = e
  BY <1>2
<1> PICK s : s = [who |-> req[w].by, role |-> req[w].as]
  OBVIOUS
<1>3. MayApprove(req[w].as, level[e]) /\ req[w].as \in Roles /\ level[e] \in Levels
  BY <1>1, <1>2 DEF ReqOK, Request, TypeOK
<1>4. s \in EC!Vote
  BY <1>2, <1>3, ApproverRole DEF EC!Vote
<1>5. requester[e] \notin {NoUser, s.who}
  BY <1>2 DEF ReqOK, ExpenseOK
<1>6. EC!Sign(e, s)
  BY <1>5 DEF EC!Sign, CommitSign, Signs
<1>7. QED
  BY <1>4, <1>6

LEMMA PayRefines ==
    ASSUME ExpenseInv, NEW w \in Workers, CommitPay(w)
    PROVE  \E e \in Expenses, v \in EC!Vote : EC!Pay(e, v)
<1>1. TypeOK /\ req[w].op = "pay"
  BY DEF ExpenseInv, CommitPay, Takes
<1>2. /\ req[w] \in Request /\ req[w].e \in Expenses /\ req[w].by \in Users
      /\ ReqOK(req[w]) /\ ExpenseOK(req[w].e)
  BY <1>1, SlotFacts
<1> PICK e \in Expenses : req[w].e = e
  BY <1>2
<1> PICK s : s = [who |-> req[w].by, role |-> req[w].as]
  OBVIOUS
<1>3. MayApprove(s.role, level[e]) /\ s.role \in Roles /\ level[e] \in Levels
  BY <1>1, <1>2 DEF ReqOK, Request, TypeOK
<1>4. s \in EC!Vote
  BY <1>2, <1>3, ApproverRole DEF EC!Vote
<1>5. requester[e] \notin {NoUser, s.who}
  BY <1>2 DEF ReqOK, ExpenseOK
<1>6. EC!Authorised(amount[e], signed[e] \cup {s})
  <2>1. amount[e] > 10000 => s.role \in {"ADMIN", "OWNER"}
    BY <1>2, <1>3 DEF ExpenseOK, LevelCovers, MayApprove, Levels
  <2>2. amount[e] > 50000 => s.role = "OWNER"
    BY <1>2, <1>3 DEF ExpenseOK, LevelCovers, MayApprove, Levels
  <2>3. ASSUME amount[e] > 200000
        PROVE  \E v \in signed[e] : v.role = "OWNER" /\ v.who # s.who
    <3>1. level[e] = "DUAL_OWNER"
      BY <1>2, <2>3 DEF ExpenseOK, LevelCovers
    <3>2. req[w].first \in Signers(e) /\ req[w].first # s.who
      BY <1>1, <1>2, <3>1 DEF ReqOK
    <3>3. PICK v \in signed[e] : v.who = req[w].first
      BY <3>2 DEF Signers
    <3>4. v.role = "OWNER"
      BY <1>2, <3>1 DEF ExpenseOK, MayApprove
    <3>5. QED
      BY <3>2, <3>3, <3>4
  <2>4. amount[e] > 200000 => amount[e] > 50000
    BY <1>1 DEF TypeOK
  <2>5. QED
    BY <2>1, <2>2, <2>3, <2>4 DEF EC!Authorised
<1>7. EC!Pay(e, s)
  BY <1>5, <1>6 DEF EC!Pay, CommitPay, Signs
<1>8. QED
  BY <1>4, <1>7

LEMMA StepRefines ==
    ASSUME ExpenseInv, [Next]_vars
    PROVE  [EC!Next]_EC!cvars
<1>1. ASSUME NEW u \in Users, NEW r \in Roles, ChangeRole(u, r) \/ RefreshToken(u)
      PROVE  UNCHANGED EC!cvars
  BY <1>1 DEF ChangeRole, RefreshToken, expense, EC!cvars
<1>2. ASSUME NEW e \in Expenses, NEW u \in Users, NEW raw \in Amounts,
             CreateExpense(e, u, raw)
      PROVE  EC!Next
  BY <1>2, CreateRefines DEF EC!Next
<1>3. ASSUME NEW w \in Workers, CommitSign(w) \/ CommitPay(w)
      PROVE  EC!Next
  BY <1>3, SignRefines, PayRefines DEF EC!Next
<1>4. ASSUME NEW w \in Workers, Decide(w), ~CommitSign(w), ~CommitPay(w)
      PROVE  UNCHANGED EC!cvars
  BY <1>4 DEF Decide, BeginDecide, CheckLevel, CommitReject, CommitAudit, Fail,
              expense, EC!cvars
<1>5. CASE UNCHANGED vars
  BY <1>5 DEF vars, EC!cvars
<1>6. CASE Next
  BY <1>1, <1>2, <1>3, <1>4, <1>6, RolesNotEmpty DEF Next
<1>7. QED
  BY <1>5, <1>6

\* createExpense and approveExpense, with their races, restarts and stale
\* tokens, allow only what ExpenseControl promises.
THEOREM ImplementsControl == Spec => Control
BY InitRefines, StepRefines, ExpenseInvariant, PTL DEF Spec, Control, EC!Spec

\* FUN-01 as the run checks it: two owners, and the row of the audit log that names them.
THEOREM DualIsOnRecord == Spec => []DualOnRecord
<1>1. DualNeedsTwoOwners /\ AuditNamesTheSigners => DualOnRecord
  BY DEF DualOnRecord
<1>2. QED
  BY <1>1, TwoOwners, AuditIsTrue, PTL

-----------------------------------------------------------------------------
(* Staff *)

\* The days are numbered from 0 and go with the clock.
LEMMA DaysAre ==
    /\ \A t \in Time : Day(t) \in Days /\ Day(t) \in Nat
    /\ \A t, u \in Time : t <= u => Day(t) <= Day(u)
<1>1. ASSUME NEW t \in Nat PROVE Day(t) \in Nat
  BY <1>1, ClockAssumption DEF Day
<1>2. ASSUME NEW t \in Nat, NEW u \in Nat, t <= u PROVE Day(t) <= Day(u)
  BY <1>2, ClockAssumption DEF Day
<1> QED BY <1>1, <1>2, ClockAssumption DEF Time, Days

\* What TypeOf says is what the rule said.
LEMMA TypeOfFits ==
    ASSUME NEW t, NEW late \in {LateByHour(t), LateBySchedule(t)}
    PROVE  TypeOf(late) \in {"PRESENT", "LATE"} /\ Fits(t, TypeOf(late))
BY DEF TypeOf, Fits, LateByHour, LateBySchedule

\* A slot is of the kind its op says.
LEMMA StaffSlots ==
    ASSUME StaffTypeOK, NEW w \in Workers
    PROVE  /\ req[w].op \in {"in", "out"} => req[w] \in ReadRequest
           /\ req[w].op = "enter" => req[w] \in InRequest
           /\ req[w].op = "leave" => req[w] \in OutRequest
           /\ req[w].op \in {"approve", "pay"} => req[w] \in PayRequest
BY DEF StaffTypeOK, ReadRequest, InRequest, OutRequest, PayRequest, Idle

\* Every request about a row names a worker and a day.
LEMMA SlotNamesRow ==
    ASSUME StaffTypeOK, NEW w \in Workers, req[w].op \in {"in", "out", "enter", "leave"}
    PROVE  req[w].p \in Personnel /\ req[w].d \in Days
BY StaffSlots DEF ReadRequest, InRequest, OutRequest

\* A row is empty or a row.
LEMMA RowsAre ==
    ASSUME StaffTypeOK, NEW p \in Personnel, NEW d \in Days
    PROVE  /\ row[p][d] \in Row \/ row[p][d] = None
           /\ row[p][d] = None => row[p][d].in = {} /\ row[p][d].out = {}
           /\ row[p][d].in \in SUBSET Time /\ row[p][d].out \in SUBSET Time
<1>1. row[p][d] \in Row \cup {None}
  BY DEF StaffTypeOK
<1>2. \A r \in Row : r.in \in SUBSET Time /\ r.out \in SUBSET Time
  BY DEF Row
<1>3. None.in = {} /\ None.out = {}
  BY DEF None
<1> QED BY <1>1, <1>2, <1>3

RowsFit == \A p \in Personnel, d \in Days : RowIsTrue(p, d) /\ Stamped(p, d)

\* The panels agree on true rows.
LEMMA PanelsFollow == RowsFit => StampsAgree
<1> SUFFICES ASSUME RowsFit PROVE StampsAgree
  OBVIOUS
<1>1. ASSUME NEW d \in Days
      PROVE  /\ Came(d) = Here(d) \cup Gone(d)
             /\ Missed(d) = NotSeen(d)
             /\ Late(d) \subseteq Came(d)
  <2>1. \A p \in Listed(d) : /\ row[p][d].in = {} => row[p][d].type = "ABSENT"
                             /\ row[p][d].out # {} => row[p][d].in # {}
    BY DEF Listed, RowIsTrue, RowsFit
  <2> QED BY <2>1 DEF Came, Here, Gone, Missed, NotSeen, Late, Listed
<1> QED BY <1>1 DEF PanelsAgree, StampsAgree, RowsFit

\* The clock goes on.
LEMMA ClockGoesOn ==
    ASSUME StaffTypeOK, StaffTypeOK', now <= now'
    PROVE  /\ \A t \in Time : t <= now => t <= now'
           /\ \A d \in Days : Day(now) >= d => Day(now') >= d
<1>1. now \in Nat /\ now' \in Nat /\ Time \subseteq Nat
  BY ClockAssumption DEF StaffTypeOK, Time
<1>2. Day(now) \in Nat /\ Day(now') \in Nat /\ Day(now) <= Day(now')
  BY DaysAre DEF StaffTypeOK
<1>3. Days \subseteq Int
  BY DEF Days
<1>4. \A t \in Time : t <= now => t <= now'
  BY <1>1
<1>5. \A d \in Days : Day(now) >= d => Day(now') >= d
  BY <1>2, <1>3
<1> QED BY <1>4, <1>5

\* What a request has read stays true while the rows keep their entries, but for two
\* requests on an absence.
LEMMA RequestStays ==
    ASSUME StaffInv, StaffTypeOK', now <= now', UNCHANGED absent, ahead \subseteq ahead',
           overlap => overlap', NEW v \in Workers, req'[v] = req[v],
           UNCHANGED <<row, paid>> \/ overlap,
           \A p \in Personnel, d \in Days :
               row'[p][d] = row[p][d] \/
                   /\ row'[p][d].in # {}
                   /\ row[p][d].in \in {{}, row'[p][d].in} \/ <<p, d>> \in absent,
           \A c \in Commissions : commission[c] = "APPROVED" => commission'[c] = "APPROVED"
    PROVE  RequestIsTrue(v)'
<1>1. StaffTypeOK /\ RequestIsTrue(v)
  BY DEF StaffInv
<1> DEFINE r == req[v]
<1>2. CASE r.op \in {"in", "out", "enter", "leave"}
  <2>1. r.p \in Personnel /\ r.d \in Days
    BY <1>1, <1>2, SlotNamesRow
  <2>2. row[r.p][r.d] # None => row'[r.p][r.d] # None
    <3>1. None.in = {}
      BY DEF None
    <3>2. row'[r.p][r.d] = row[r.p][r.d] \/ row'[r.p][r.d].in # {}
      BY <2>1
    <3> QED BY <3>1, <3>2
  <2>3. row[r.p][r.d].in # {} => row'[r.p][r.d].in # {}
    BY <2>1
  <2>4. overlap' \/ row'[r.p][r.d] = row[r.p][r.d]
    BY <2>1
  <2>5. row[r.p][r.d].in # {} =>
            row'[r.p][r.d].in = row[r.p][r.d].in \/ (overlap' /\ <<r.p, r.d>> \in absent)
    BY <2>1, <2>4
  <2>6. Day(now) >= r.d => Day(now') >= r.d
    BY <1>1, <2>1, ClockGoesOn
  <2>7. CASE r.op = "in"
    BY <1>1, <2>2, <2>4, <2>6, <2>7 DEF RequestIsTrue, EntersOpen
  <2>8. CASE r.op = "out"
    BY <1>1, <2>3, <2>6, <2>8 DEF RequestIsTrue, LeavesOpen
  <2>9. CASE r.op = "enter"
    BY <1>1, <2>2, <2>4, <2>9 DEF RequestIsTrue, EnterIsTrue
  <2>10. CASE r.op = "leave"
    BY <1>1, <2>3, <2>5, <2>10 DEF RequestIsTrue, LeaveIsTrue, Contested
  <2> QED BY <1>2, <2>7, <2>8, <2>9, <2>10
<1>3. CASE r.op = "pay"
  <2>1. r.c \in Commissions
    BY <1>1, <1>3, StaffSlots DEF PayRequest
  <2> QED BY <1>1, <1>3, <2>1 DEF RequestIsTrue, PayIsTrue
<1>4. CASE r.op \notin {"in", "out", "enter", "leave", "pay"}
  BY <1>4 DEF RequestIsTrue
<1> QED BY <1>2, <1>3, <1>4

\* A row stays true as time goes on.
LEMMA RowStays ==
    ASSUME StaffInv, StaffTypeOK', now <= now', UNCHANGED absent, ahead \subseteq ahead',
           overlap => overlap', NEW p \in Personnel, NEW d \in Days, row'[p][d] = row[p][d]
    PROVE  RowIsTrue(p, d)' /\ Stamped(p, d)'
<1>1. StaffTypeOK /\ RowIsTrue(p, d) /\ Stamped(p, d)
  BY DEF StaffInv, StampsAgree
<1>2. \A i \in row[p][d].in : i <= now => i <= now'
  BY <1>1, RowsAre, ClockGoesOn
<1>3. RowIsTrue(p, d)'
  BY <1>1, <1>2 DEF RowIsTrue
<1>4. Stamped(p, d)'
  BY <1>1 DEF Stamped, Contested
<1> QED BY <1>3, <1>4

\* A step keeps the invariant if what it writes is true and it writes alone or in an
\* overlap, and what it parks is true.
LEMMA StaffKeeps ==
    ASSUME StaffInv, StaffTypeOK', now <= now', UNCHANGED absent, ahead \subseteq ahead',
           overlap' = (overlap \/ ~Alone'),
           \A v \in Workers : req'[v] = req[v] \/ RequestIsTrue(v)',
           UNCHANGED <<row, paid>> \/ overlap \/ \A v \in Workers : req'[v] = Idle,
           \A p \in Personnel, d \in Days :
               row'[p][d] = row[p][d] \/
                   /\ RowIsTrue(p, d)' /\ Stamped(p, d)'
                   /\ row'[p][d].in # {}
                   /\ row[p][d].in \in {{}, row'[p][d].in} \/ <<p, d>> \in absent,
           \A c \in Commissions : commission[c] = "APPROVED" => commission'[c] = "APPROVED",
           UNCHANGED paid \/ PaidOnce'
    PROVE  StaffInv'
<1>1. overlap => overlap'
  OBVIOUS
<1>2. ASSUME NEW p \in Personnel, NEW d \in Days PROVE RowIsTrue(p, d)' /\ Stamped(p, d)'
  BY <1>1, RowStays
<1>3. StampsAgree'
  <2>1. RowsFit'
    BY <1>2 DEF RowsFit
  <2> QED BY <2>1, PanelsFollow, PTL
<1>4. ASSUME NEW v \in Workers PROVE RequestIsTrue(v)'
  <2>1. CASE req'[v] = Idle
    BY <2>1 DEF RequestIsTrue, Idle
  <2>2. CASE req'[v] = req[v] /\ req'[v] # Idle
    BY <1>1, <2>2, RequestStays
  <2> QED BY <2>1, <2>2
<1>5. PaidOnce'
  BY <1>1 DEF StaffInv, PaidOnce
<1>6. (overlap \/ Alone)'
  OBVIOUS
<1> QED BY <1>2, <1>3, <1>4, <1>5, <1>6 DEF StaffInv

\* The observer stays Boolean.
LEMMA OverlapIs == ASSUME StaffInv, overlap' = (overlap \/ ~Alone') PROVE overlap' \in BOOLEAN
BY DEF StaffInv, StaffTypeOK

\* A request that parks or changes its own slot only.
LEMMA SlotKeeps ==
    ASSUME StaffInv, overlap' = (overlap \/ ~Alone'), NEW w \in Workers,
           NEW r \in ReadRequest \cup InRequest \cup OutRequest \cup PayRequest,
           req' = [req EXCEPT ![w] = r], UNCHANGED <<now, attendance, payroll>>,
           RequestIsTrue(w)'
    PROVE  StaffInv'
<1>1. /\ StaffTypeOK /\ req' = [v \in Workers |-> IF v = w THEN r ELSE req[v]]
      /\ UNCHANGED <<now, row, absent, ahead, verified, commission, paid>>
  BY DEF attendance, payroll, StaffInv, StaffTypeOK
<1>2. req' \in [Workers -> ReadRequest \cup InRequest \cup OutRequest \cup PayRequest \cup {Idle}]
  BY <1>1 DEF StaffTypeOK
<1>3. StaffTypeOK'
  BY <1>1, <1>2, OverlapIs DEF StaffTypeOK
<1>4. now <= now'
  BY <1>1, ClockAssumption DEF StaffTypeOK, Time
<1> QED BY <1>1, <1>3, <1>4, StaffKeeps

\* What is parked of an attendance is true of the row that was read.
LEMMA BeginAttendanceKeeps ==
    ASSUME StaffInv, overlap' = (overlap \/ ~Alone'), NEW w \in Workers, NEW p \in Personnel,
           \/ \E d \in Todays : BeginCheckIn(w, p, d) \/ BeginCheckOut(w, p, d)
           \/ \E t \in Time : BeginMark(w, p, t)
    PROVE  StaffInv'
<1>1. StaffTypeOK /\ now \in Time
  BY DEF StaffInv, StaffTypeOK
<1>2. ASSUME NEW d \in Todays PROVE d \in Days /\ Day(now) >= d
  <2>1. PICK came \in Time : d = Day(came) /\ came \in {now - 1, now}
    BY DEF Todays
  <2>2. came <= now
    BY <1>1, <2>1, ClockAssumption DEF Time
  <2> QED BY <1>1, <2>1, <2>2, DaysAre
<1>3. ASSUME NEW d \in Todays, BeginCheckIn(w, p, d) PROVE StaffInv'
  <2> DEFINE r == [op |-> "in", p |-> p, d |-> d, new |-> row[p][d] = None]
  <2>1. /\ row[p][d].in = {} /\ req' = [req EXCEPT ![w] = r]
        /\ UNCHANGED <<now, attendance, payroll>> /\ UNCHANGED <<row, absent>>
    BY <1>3 DEF BeginCheckIn, Park, attendance
  <2>2. r \in ReadRequest /\ req'[w] = r
    BY <1>1, <1>2, <2>1 DEF ReadRequest, StaffTypeOK
  <2>3. ~r.new => row[p][d] # None /\ <<p, d>> \in absent
    BY <1>2, <2>1 DEF StaffInv, RowIsTrue
  <2>4. RequestIsTrue(w)'
    BY <1>2, <2>1, <2>2, <2>3 DEF RequestIsTrue, EntersOpen
  <2> QED BY <2>1, <2>2, <2>4, SlotKeeps
<1>4. ASSUME NEW d \in Todays, BeginCheckOut(w, p, d) PROVE StaffInv'
  <2> DEFINE r == [op |-> "out", p |-> p, d |-> d]
  <2>1. /\ row[p][d].in # {} /\ req' = [req EXCEPT ![w] = r]
        /\ UNCHANGED <<now, attendance, payroll>> /\ UNCHANGED row
    BY <1>4 DEF BeginCheckOut, Park, attendance
  <2>2. r \in ReadRequest /\ req'[w] = r
    BY <1>1, <1>2, <2>1 DEF ReadRequest, StaffTypeOK
  <2>3. RequestIsTrue(w)'
    BY <1>2, <2>1, <2>2 DEF RequestIsTrue, LeavesOpen
  <2> QED BY <2>1, <2>2, <2>3, SlotKeeps
<1>5. ASSUME NEW t \in Time, BeginMark(w, p, t) PROVE StaffInv'
  <2> DEFINE d == Day(t)
  <2>9. PICK r : r = [op |-> "enter", p |-> p, d |-> d,
                      t |-> IF row[p][d].in = {} THEN {t} ELSE {},
                      type |-> "PRESENT", new |-> row[p][d] = None, set |-> TRUE]
    OBVIOUS
  <2>1. /\ ~LateBySchedule(t) /\ req' = [req EXCEPT ![w] = r]
        /\ UNCHANGED <<now, attendance, payroll>> /\ UNCHANGED <<row, absent>>
    BY <1>5, <2>9 DEF BeginMark, Park, attendance
  <2>2. d \in Days /\ Day(t) >= d
    BY DaysAre
  <2>3. r \in InRequest /\ req'[w] = r
    BY <1>1, <2>1, <2>2, <2>9 DEF InRequest, StaffTypeOK
  <2>4. Fits(t, "PRESENT")
    BY <2>1 DEF Fits
  <2>5. row[p][d] # None /\ row[p][d].in = {} => <<p, d>> \in absent
    BY <2>2 DEF StaffInv, RowIsTrue
  <2>6. /\ r.p = p /\ r.d = d /\ r.set /\ r.type = "PRESENT" /\ r.op = "enter"
        /\ r.new = (row[p][d] = None) /\ r.t = IF row[p][d].in = {} THEN {t} ELSE {}
    BY <2>9
  <2> HIDE DEF d
  <2>7. RequestIsTrue(w)'
    <3>1. \A i \in r.t : i = t
      BY <2>6
    <3>2. \A i \in r.t : Day(i) >= d /\ Fits(i, r.type)
      BY <2>2, <2>4, <2>6, <3>1
    <3>3. ~r.new /\ r.t # {} => <<p, d>> \in absent /\ row[p][d].in = {}
      BY <2>5, <2>6
    <3>4. EnterIsTrue(r)'
      BY <2>1, <2>6, <3>2, <3>3 DEF EnterIsTrue
    <3> QED BY <2>3, <2>6, <3>4 DEF RequestIsTrue
  <2> QED BY <2>1, <2>3, <2>7, SlotKeeps
<1> QED BY <1>3, <1>4, <1>5

\* The time of the stamp is taken after the row was read.
LEMMA StampKeeps ==
    ASSUME StaffInv, overlap' = (overlap \/ ~Alone'), NEW w \in Workers, Stamp(w)
    PROVE  StaffInv'
<1> DEFINE r == req[w]
<1>1. StaffTypeOK /\ now \in Time /\ RequestIsTrue(w)
  BY DEF StaffInv, StaffTypeOK
<1>2. CASE StampByRule(w)
  <2>1. PICK late \in {LateByHour(now), LateBySchedule(now)} : StampIn(w, late)
    BY <1>2 DEF StampByRule
  <2>9. PICK n : n = [op |-> "enter", p |-> r.p, d |-> r.d, t |-> {now},
                      type |-> TypeOf(late), new |-> r.new, set |-> FALSE]
    OBVIOUS
  <2>2. /\ r.op = "in" /\ req' = [req EXCEPT ![w] = n]
        /\ UNCHANGED <<now, attendance, payroll>> /\ UNCHANGED <<row, absent, commission, paid>>
    BY <1>1, <2>1, <2>9 DEF StampIn, attendance, payroll, StaffTypeOK
  <2>3. /\ r.p \in Personnel /\ r.d \in Days /\ r.new \in BOOLEAN
        /\ EntersOpen(r)
    <3>1. r \in ReadRequest
      BY <1>1, <2>2, StaffSlots
    <3> QED BY <1>1, <2>2, <3>1 DEF ReadRequest, RequestIsTrue
  <2>4. TypeOf(late) \in {"PRESENT", "LATE"} /\ Fits(now, TypeOf(late))
    BY TypeOfFits
  <2>5. n \in InRequest /\ req'[w] = n
    BY <1>1, <2>2, <2>3, <2>4, <2>9 DEF InRequest, StaffTypeOK
  <2>6. /\ n.op = "enter" /\ n.p = r.p /\ n.d = r.d /\ n.t = {now} /\ n.type = TypeOf(late)
        /\ n.new = r.new
    BY <2>9
  <2>7. overlap => overlap'
    OBVIOUS
  <2>8. RequestIsTrue(w)'
    <3>1. \A i \in n.t : Day(i) >= n.d /\ Fits(i, n.type)
      BY <2>3, <2>4, <2>6 DEF EntersOpen
    <3>2. EnterIsTrue(n)'
      BY <2>2, <2>3, <2>6, <2>7, <3>1 DEF EnterIsTrue, EntersOpen
    <3> QED BY <2>5, <2>6, <3>2 DEF RequestIsTrue
  <2> QED BY <2>2, <2>5, <2>8, SlotKeeps
<1>3. CASE StampOut(w)
  <2>9. PICK n : n = [op |-> "leave", p |-> r.p, d |-> r.d, t |-> now]
    OBVIOUS
  <2>1. /\ r.op = "out" /\ req' = [req EXCEPT ![w] = n]
        /\ UNCHANGED <<now, attendance, payroll>> /\ UNCHANGED <<row, absent, ahead>>
    BY <1>1, <1>3, <2>9 DEF StampOut, attendance, StaffTypeOK
  <2>2. r.p \in Personnel /\ r.d \in Days /\ LeavesOpen(r)
    BY <1>1, <2>1, SlotNamesRow DEF RequestIsTrue
  <2>3. n \in OutRequest /\ req'[w] = n
    BY <1>1, <2>1, <2>2, <2>9 DEF OutRequest, StaffTypeOK
  <2>4. n.op = "leave" /\ n.p = r.p /\ n.d = r.d /\ n.t = now
    BY <2>9
  <2>5. <<r.p, r.d>> \in ahead \/ \A i \in row[r.p][r.d].in : i <= now
    <3>1. row[r.p][r.d] # None
      BY <2>2 DEF LeavesOpen, None
    <3> QED BY <2>2, <3>1 DEF StaffInv, RowIsTrue
  <2>6. RequestIsTrue(w)'
    BY <2>1, <2>2, <2>3, <2>4, <2>5 DEF RequestIsTrue, LeaveIsTrue, LeavesOpen
  <2> QED BY <2>1, <2>3, <2>6, SlotKeeps
<1> QED BY <1>2, <1>3 DEF Stamp

\* A payment is parked for an approved commission.
LEMMA BeginPayKeeps ==
    ASSUME StaffInv, NEW w \in Workers, NEW c \in Commissions,
           BeginApprove(w, c) \/ BeginPayment(w, c), overlap' = (overlap \/ ~Alone')
    PROVE  StaffInv'
<1>1. PICK op \in {"approve", "pay"} :
        /\ Park(w, [op |-> op, c |-> c])
        /\ op = "pay" => commission[c] = "APPROVED" /\ paid[c] = 0
  BY DEF BeginApprove, BeginPayment
<1> DEFINE r == [op |-> op, c |-> c]
<1>2. r \in PayRequest /\ r.op = op /\ r.c = c
  BY DEF PayRequest
<1>3. req' = [req EXCEPT ![w] = r] /\ req'[w] = r /\ UNCHANGED <<now, attendance, payroll>>
      /\ UNCHANGED <<commission, paid>>
  BY <1>1 DEF Park, payroll, StaffInv, StaffTypeOK
<1> HIDE DEF r
<1>4. RequestIsTrue(w)'
  BY <1>1, <1>2, <1>3 DEF RequestIsTrue, PayIsTrue
<1> QED BY <1>2, <1>3, <1>4, SlotKeeps

\* A slot that is emptied.
LEMMA EmptiedSlot ==
    ASSUME StaffInv, NEW w \in Workers, req' = [req EXCEPT ![w] = Idle]
    PROVE  /\ req' \in [Workers -> ReadRequest \cup InRequest \cup OutRequest \cup PayRequest
                                     \cup {Idle}]
           /\ \A v \in Workers : req'[v] = req[v] \/ RequestIsTrue(v)'
           /\ req[w] # Idle => overlap \/ \A v \in Workers : req'[v] = Idle
<1>1. /\ StaffTypeOK /\ req' = [v \in Workers |-> IF v = w THEN Idle ELSE req[v]]
  BY DEF StaffInv, StaffTypeOK
<1>2. RequestIsTrue(w)'
  BY <1>1 DEF RequestIsTrue, Idle
<1>3. req[w] # Idle => overlap \/ \A v \in Workers : req'[v] = Idle
  BY <1>1 DEF StaffInv, Alone
<1>4. req' \in [Workers -> ReadRequest \cup InRequest \cup OutRequest \cup PayRequest \cup {Idle}]
  BY <1>1 DEF StaffTypeOK
<1>5. \A v \in Workers : req'[v] = req[v] \/ RequestIsTrue(v)'
  <2>1. \A v \in Workers : v = w \/ req'[v] = req[v]
    BY <1>1
  <2> QED BY <1>2, <2>1
<1> QED BY <1>3, <1>4, <1>5

\* The steps that leave rows and payments alone.
LEMMA StaffRestKeeps ==
    ASSUME StaffInv, overlap' = (overlap \/ ~Alone'),
           \/ Tick
           \/ \E p \in Personnel, d \in Days : Verify(p, d)
           \/ \E c \in Commissions : CreateCommission(c)
           \/ \E w \in Workers : StaffFail(w) \/ CommitApprove(w)
    PROVE  StaffInv'
<1>1. StaffTypeOK /\ now \in Nat
  BY ClockAssumption DEF StaffInv, StaffTypeOK, Time
<1>2. UNCHANGED <<row, absent, ahead, paid>>
  BY DEF StaffFail, Tick, Verify, CreateCommission, CommitApprove, attendance, payroll
<1>3. now' \in Time /\ now <= now'
  BY <1>1, ClockAssumption
     DEF StaffFail, Tick, Verify, CreateCommission, CommitApprove, StaffTypeOK, Time
<1>4. verified' \in SUBSET (Personnel \X Days)
  BY <1>1 DEF StaffFail, Tick, Verify, CreateCommission, CommitApprove, attendance, StaffTypeOK
<1>5. /\ commission' \in [Commissions -> {"NONE", "PENDING", "APPROVED"}]
      /\ \A c \in Commissions : commission[c] = "APPROVED" => commission'[c] = "APPROVED"
  <2>1. CASE \/ Tick \/ \E p \in Personnel, d \in Days : Verify(p, d)
             \/ \E w \in Workers : StaffFail(w)
    BY <1>1, <2>1 DEF StaffFail, Tick, Verify, payroll, StaffTypeOK
  <2>2. CASE \E c \in Commissions : CreateCommission(c)
    BY <1>1, <2>2 DEF CreateCommission, StaffTypeOK
  <2>3. ASSUME NEW w \in Workers, CommitApprove(w)
        PROVE  <1>5!1 /\ <1>5!2
    <3>1. req[w].c \in Commissions /\ commission' = [commission EXCEPT ![req[w].c] = "APPROVED"]
      BY <1>1, <2>3, StaffSlots DEF CommitApprove, Takes, PayRequest
    <3> QED BY <1>1, <3>1 DEF StaffTypeOK
  <2> QED BY <2>1, <2>2, <2>3
<1>6. /\ req' \in [Workers -> ReadRequest \cup InRequest \cup OutRequest \cup PayRequest \cup {Idle}]
      /\ \A v \in Workers : req'[v] = req[v] \/ RequestIsTrue(v)'
  <2>1. CASE UNCHANGED req
    BY <1>1, <2>1 DEF StaffTypeOK
  <2>2. CASE \E w \in Workers : req' = [req EXCEPT ![w] = Idle]
    BY <2>2, EmptiedSlot
  <2> QED BY <2>1, <2>2 DEF StaffFail, Tick, Verify, CreateCommission, CommitApprove, Takes
<1>7. StaffTypeOK'
  BY <1>1, <1>2, <1>3, <1>4, <1>5, <1>6, OverlapIs DEF StaffTypeOK
<1> QED BY <1>2, <1>3, <1>5, <1>6, <1>7, StaffKeeps

\* A payment is of an approved commission, and the first unless requests overlap.
LEMMA CommitPaymentKeeps ==
    ASSUME StaffInv, NEW w \in Workers, CommitPayment(w), overlap' = (overlap \/ ~Alone')
    PROVE  StaffInv'
<1> DEFINE c == req[w].c
<1>1. /\ req[w].op = "pay" /\ req[w] # Idle /\ req' = [req EXCEPT ![w] = Idle]
      /\ paid' = [paid EXCEPT ![c] = IF @ = 2 THEN 2 ELSE @ + 1]
      /\ UNCHANGED <<now, row, absent, ahead, verified, commission>> /\ StaffTypeOK
  BY DEF CommitPayment, Takes, attendance, StaffInv, Idle
<1>2. c \in Commissions /\ commission[c] = "APPROVED" /\ (overlap \/ paid[c] = 0)
  BY <1>1, StaffSlots DEF PayRequest, StaffInv, RequestIsTrue, PayIsTrue
<1> HIDE DEF c
<1>3. paid' \in [Commissions -> 0..2]
  BY <1>1, <1>2 DEF StaffTypeOK
<1>4. StaffTypeOK' /\ now <= now'
  BY <1>1, <1>3, EmptiedSlot, OverlapIs, ClockAssumption DEF StaffTypeOK, Time
<1>5. PaidOnce'
  <2>1. ASSUME NEW e \in Commissions
        PROVE  /\ paid'[e] > 0 => commission[e] = "APPROVED"
               /\ ~overlap => paid'[e] < 2
    BY <1>1, <1>2, <2>1 DEF StaffInv, PaidOnce, StaffTypeOK
  <2> QED BY <1>1, <2>1 DEF PaidOnce
<1> QED BY <1>1, <1>4, <1>5, EmptiedSlot, StaffKeeps

\* What an entry leaves in its row, whichever way it writes it.
LEMMA CommitEntryKeeps ==
    ASSUME StaffInv, NEW w \in Workers, CommitEntry(w), overlap' = (overlap \/ ~Alone')
    PROVE  StaffInv'
<1>1. PICK r \in InRequest : r = req[w] /\ r # Idle /\ EnterIsTrue(r)
  BY StaffSlots DEF CommitEntry, Takes, StaffInv, RequestIsTrue, Idle
<1>2. PICK p \in Personnel, d \in Days : p = r.p /\ d = r.d
  BY <1>1 DEF InRequest
<1>3. PICK old : old = row[p][d]
  OBVIOUS
<1>4. PICK new : new = IF r.t = {} THEN old
                       ELSE [in |-> r.t, out |-> old.out,
                             type |-> IF r.new \/ r.set THEN r.type ELSE old.type]
  OBVIOUS
<1>5. /\ req' = [req EXCEPT ![w] = Idle]
      /\ r.new => old = None
      /\ row' = [row EXCEPT ![p][d] = new]
      /\ ahead' = IF \E t \in r.t : t > now THEN ahead \cup {<<p, d>>} ELSE ahead
      /\ UNCHANGED <<now, absent, verified, commission, paid>> /\ StaffTypeOK
  BY <1>1, <1>2, <1>3, <1>4 DEF CommitEntry, Takes, payroll, StaffInv
<1>6. /\ r.t \in SUBSET Time /\ r.type \in {"PRESENT", "LATE"}
      /\ r.new \in BOOLEAN /\ r.set \in BOOLEAN
  BY <1>1 DEF InRequest
<1>7. /\ r.new \/ r.set \/ <<p, d>> \in absent
      /\ \A t \in r.t : Day(t) >= d /\ Fits(t, r.type)
      /\ ~r.new => old # None
      /\ ~r.new /\ r.t # {} => <<p, d>> \in absent /\ (overlap \/ old.in = {})
  BY <1>1, <1>2, <1>3 DEF EnterIsTrue
<1>8. /\ old \in Row \/ old = None
      /\ old = None => old.in = {} /\ old.out = {}
      /\ old.in \in SUBSET Time /\ old.out \in SUBSET Time
  BY <1>3, <1>5, RowsAre
<1>9. /\ old # None => /\ old.in = {} => old.type = "ABSENT"
                       /\ old.out # {} => old.in # {}
      /\ \A t \in old.out : Day(t) >= d
      /\ old.type = "ABSENT" => <<p, d>> \in absent
  BY <1>3 DEF StaffInv, StampsAgree, RowIsTrue, Stamped
<1>10. new \in Row \cup {None}
  BY <1>4, <1>6, <1>8, <1>7 DEF Row
<1>11. /\ row' \in [Personnel -> [Days -> Row \cup {None}]]
       /\ row'[p][d] = new
       /\ \A q \in Personnel, e \in Days : q # p \/ e # d => row'[q][e] = row[q][e]
  <2>1. row \in [Personnel -> [Days -> Row \cup {None}]]
    BY <1>5 DEF StaffTypeOK
  <2> QED BY <1>5, <1>10, <2>1
<1>12. ahead \subseteq ahead' /\ ahead' \in SUBSET (Personnel \X Days)
  BY <1>5 DEF StaffTypeOK
<1>13. StaffTypeOK' /\ now <= now'
  BY <1>5, <1>11, <1>12, EmptiedSlot, OverlapIs, ClockAssumption DEF StaffTypeOK, Time
<1>14. ASSUME r.t # {}
       PROVE  /\ RowIsTrue(p, d)' /\ Stamped(p, d)'
              /\ new.in # {} /\ (old.in = {} \/ <<p, d>> \in absent)
  <2>1. /\ new.in = r.t /\ new.out = old.out
        /\ new.type = IF r.new \/ r.set THEN r.type ELSE old.type
    BY <1>4, <1>14
  <2>2. old.in = {} \/ (overlap /\ <<p, d>> \in absent)
    BY <1>5, <1>6, <1>7, <1>8, <1>14
  <2>3. old.in = {} => old.out = {}
    BY <1>8, <1>9
  <2>4. <<p, d>> \in ahead' \/ \A i \in r.t : i <= now
    <3>1. now \in Int /\ \A i \in r.t : i \in Int
      BY <1>5, <1>6, ClockAssumption DEF StaffTypeOK, Time
    <3> QED BY <1>5, <3>1
  <2>5. RowIsTrue(p, d)'
    BY <1>5, <1>11, <1>14, <2>1, <2>4 DEF RowIsTrue
  <2>6. \A t \in new.in \cup new.out : Day(t) >= d
    BY <1>7, <1>9, <2>1
  <2>7. new.type = "ABSENT" => <<p, d>> \in absent
    BY <1>6, <1>9, <2>1
  <2>8. (overlap /\ <<p, d>> \in absent) \/ \A i \in new.in : Fits(i, new.type)
    <3>1. CASE r.new \/ r.set
      BY <1>7, <2>1, <3>1
    <3>2. CASE ~(r.new \/ r.set) /\ old.in = {}
      <4>1. new.type = "ABSENT"
        BY <1>6, <1>7, <1>9, <2>1, <3>2
      <4> QED BY <4>1 DEF Fits
    <3> QED BY <2>2, <3>1, <3>2
  <2>9. Stamped(p, d)'
    BY <1>5, <1>11, <2>1, <2>2, <2>3, <2>6, <2>7, <2>8 DEF Stamped, Contested
  <2> QED BY <1>14, <2>1, <2>2, <2>5, <2>9
<1>15. ASSUME NEW q \in Personnel, NEW e \in Days
       PROVE  row'[q][e] = row[q][e] \/
                 /\ RowIsTrue(q, e)' /\ Stamped(q, e)'
                 /\ row'[q][e].in # {}
                 /\ row[q][e].in \in {{}, row'[q][e].in} \/ <<q, e>> \in absent
  <2>1. CASE q = p /\ e = d /\ r.t # {}
    BY <1>3, <1>11, <1>14, <2>1
  <2>2. CASE q = p /\ e = d /\ r.t = {}
    BY <1>3, <1>4, <1>11, <2>2
  <2> QED BY <1>11, <2>1, <2>2
<1> QED BY <1>1, <1>5, <1>12, <1>13, <1>15, EmptiedSlot, StaffKeeps

\* An exit is written to a row that has an entry, which it does not precede.
LEMMA CommitCheckOutKeeps ==
    ASSUME StaffInv, NEW w \in Workers, CommitCheckOut(w), overlap' = (overlap \/ ~Alone')
    PROVE  StaffInv'
<1>1. PICK r \in OutRequest : r = req[w] /\ r # Idle /\ LeaveIsTrue(r)
  BY StaffSlots DEF CommitCheckOut, Takes, StaffInv, RequestIsTrue, Idle
<1>2. PICK p \in Personnel, d \in Days : p = r.p /\ d = r.d /\ r.t \in Time
  BY <1>1 DEF OutRequest
<1>3. PICK old : old = row[p][d]
  OBVIOUS
<1>4. PICK new : new = [old EXCEPT !.out = {r.t}]
  OBVIOUS
<1>5. /\ req' = [req EXCEPT ![w] = Idle]
      /\ row' = [row EXCEPT ![p][d] = new]
      /\ UNCHANGED <<now, absent, ahead, verified, commission, paid>> /\ StaffTypeOK
  BY <1>1, <1>2, <1>3, <1>4 DEF CommitCheckOut, Takes, payroll, StaffInv, StaffTypeOK
<1>6. /\ Day(r.t) >= d /\ old.in # {}
      /\ Contested(p, d) \/ <<p, d>> \in ahead \/ \A i \in old.in : i <= r.t
  BY <1>1, <1>2, <1>3 DEF LeaveIsTrue
<1>7. old \in Row /\ old # None
  BY <1>3, <1>5, <1>6, RowsAre
<1>8. new \in Row /\ new.in = old.in /\ new.out = {r.t} /\ new.type = old.type
  BY <1>2, <1>4, <1>7 DEF Row
<1>9. /\ row' \in [Personnel -> [Days -> Row \cup {None}]]
      /\ row'[p][d] = new
      /\ \A q \in Personnel, e \in Days : q # p \/ e # d => row'[q][e] = row[q][e]
  <2>1. row \in [Personnel -> [Days -> Row \cup {None}]]
    BY <1>5 DEF StaffTypeOK
  <2> QED BY <1>5, <1>8, <2>1
<1>10. StaffTypeOK' /\ now <= now'
  BY <1>5, <1>9, EmptiedSlot, OverlapIs, ClockAssumption DEF StaffTypeOK, Time
<1>11. RowIsTrue(p, d)'
  <2>1. <<p, d>> \in ahead \/ \A i \in old.in : i <= now
    BY <1>3, <1>7 DEF StaffInv, RowIsTrue
  <2> QED BY <1>5, <1>6, <1>8, <1>9, <2>1 DEF RowIsTrue
<1>12. Stamped(p, d)'
  <2>1. /\ \A t \in old.in : Day(t) >= d
        /\ old.type = "ABSENT" => <<p, d>> \in absent
        /\ Contested(p, d) \/ \A i \in old.in : Fits(i, old.type)
    BY <1>3 DEF StaffInv, StampsAgree, Stamped
  <2>2. Contested(p, d) => Contested(p, d)'
    BY <1>5 DEF Contested
  <2> QED BY <1>5, <1>6, <1>8, <1>9, <2>1, <2>2 DEF Stamped
<1>13. ASSUME NEW q \in Personnel, NEW e \in Days
       PROVE  row'[q][e] = row[q][e] \/
                 /\ RowIsTrue(q, e)' /\ Stamped(q, e)'
                 /\ row'[q][e].in # {}
                 /\ row[q][e].in \in {{}, row'[q][e].in} \/ <<q, e>> \in absent
  <2>1. CASE q = p /\ e = d
    BY <1>3, <1>6, <1>8, <1>9, <1>11, <1>12, <2>1
  <2> QED BY <1>9, <2>1
<1> QED BY <1>1, <1>5, <1>10, <1>13, EmptiedSlot, StaffKeeps

\* Before the first request the rows are recorded absences.
LEMMA StaffStart == StaffInit => StaffInv
<1> SUFFICES ASSUME StaffInit PROVE StaffInv
  OBVIOUS
<1>1. /\ Absent \in Row /\ Absent.in = {} /\ Absent.out = {} /\ Absent.type = "ABSENT"
      /\ None.in = {} /\ None.out = {} /\ None.type = "none"
  BY DEF Absent, None, Row
<1>2. ASSUME NEW p \in Personnel, NEW d \in Days
      PROVE  row[p][d] = IF <<p, d>> \in absent THEN Absent ELSE None
  BY <1>2 DEF StaffInit
<1>3. StaffTypeOK
  <2>1. row \in [Personnel -> [Days -> Row \cup {None}]]
    BY <1>1 DEF StaffInit
  <2>2. now \in Time
    BY ClockAssumption DEF StaffInit, Time
  <2>3. /\ commission \in [Commissions -> {"NONE", "PENDING", "APPROVED"}]
        /\ paid \in [Commissions -> 0..2]
    BY DEF StaffInit
  <2>4. req \in [Workers -> ReadRequest \cup InRequest \cup OutRequest \cup PayRequest
                              \cup {Idle}]
    BY DEF StaffInit
  <2> QED BY <2>1, <2>2, <2>3, <2>4 DEF StaffInit, StaffTypeOK
<1>4. \A p \in Personnel, d \in Days : RowIsTrue(p, d) /\ Stamped(p, d)
  BY <1>1, <1>2 DEF RowIsTrue, Stamped
<1>5. StampsAgree
  BY <1>4, PanelsFollow DEF RowsFit
<1>6. \A w \in Workers : RequestIsTrue(w)
  BY DEF StaffInit, RequestIsTrue, Idle
<1> QED BY <1>3, <1>4, <1>5, <1>6 DEF StaffInit, StaffInv, PaidOnce, Alone

\* Every step keeps the invariant.
LEMMA StaffStep == StaffInv /\ [StaffNext]_staffVars => StaffInv'
<1> SUFFICES ASSUME StaffInv, [StaffNext]_staffVars PROVE StaffInv'
  OBVIOUS
<1>1. ASSUME StaffAct, overlap' = (overlap \/ ~Alone') PROVE StaffInv'
  <2>1. ASSUME NEW w \in Workers, Begin(w) PROVE StaffInv'
    BY <1>1, <2>1, BeginAttendanceKeeps, BeginPayKeeps DEF Begin
  <2>2. ASSUME NEW w \in Workers, Commit(w) PROVE StaffInv'
    BY <1>1, <2>2, CommitEntryKeeps, CommitCheckOutKeeps, StaffRestKeeps, CommitPaymentKeeps
       DEF Commit
  <2> QED BY <1>1, <2>1, <2>2, StampKeeps, StaffRestKeeps DEF StaffAct
<1>2. CASE UNCHANGED staffVars
  <2>1. UNCHANGED <<now, row, absent, ahead, verified, commission, paid, overlap, req>>
    BY <1>2 DEF staffVars, attendance, payroll
  <2>2. StaffTypeOK' /\ (overlap \/ Alone)' /\ PaidOnce'
    BY <2>1 DEF StaffInv, StaffTypeOK, Alone, PaidOnce
  <2>3. now <= now'
    BY <2>1, ClockAssumption DEF StaffInv, StaffTypeOK, Time
  <2>4. ASSUME NEW v \in Workers PROVE RequestIsTrue(v)'
    BY <2>1, <2>2, <2>3, RequestStays
  <2>5. ASSUME NEW p \in Personnel, NEW d \in Days PROVE RowIsTrue(p, d)' /\ Stamped(p, d)'
    BY <2>1, <2>2, <2>3, RowStays
  <2>6. StampsAgree'
    <3>1. RowsFit'
      BY <2>5 DEF RowsFit
    <3> QED BY <3>1, PanelsFollow, PTL
  <2> QED BY <2>2, <2>4, <2>5, <2>6 DEF StaffInv
<1> QED BY <1>1, <1>2 DEF StaffNext

\* However entries, exits, marks, midnights and payments interleave and fail, what the
\* slots are about to write fits the rows.
THEOREM StaffInvariant == StaffSpec => []StaffInv
BY StaffStart, StaffStep, PTL DEF StaffSpec

\* The stamps of a row agree with its day, its type and each other, and the panels
\* with one another.
THEOREM StampsAlwaysAgree == StaffSpec => []StampsAgree
<1>1. StaffInv => StampsAgree
  BY DEF StaffInv
<1> QED BY <1>1, StaffInvariant, PTL

\* Only approved commissions are paid, and once until two requests overlap.
THEOREM CommissionsPaidOnce == StaffSpec => []PaidOnce
<1>1. StaffInv => PaidOnce
  BY DEF StaffInv
<1> QED BY <1>1, StaffInvariant, PTL

\* An entry that is there changes only when two marks meet on a recorded absence.
THEOREM EntriesAreKept == StaffSpec => EntryKept
<1>1. ASSUME StaffInv, [StaffNext]_staffVars
      PROVE  [\A p \in Personnel, d \in Days :
                row[p][d].in # {} /\ row'[p][d].in # row[p][d].in =>
                    overlap' /\ <<p, d>> \in absent]_staffVars
  <2> SUFFICES ASSUME StaffNext, NEW p \in Personnel, NEW d \in Days,
                      row[p][d].in # {}, row'[p][d].in # row[p][d].in
               PROVE  overlap' /\ <<p, d>> \in absent
    BY <1>1
  <2>1. StaffAct /\ overlap' = (overlap \/ ~Alone') /\ StaffTypeOK
        /\ row \in [Personnel -> [Days -> Row \cup {None}]]
    BY <1>1 DEF StaffNext, StaffInv, StaffTypeOK
  <2>2. PICK w \in Workers : CommitEntry(w) \/ CommitCheckOut(w)
    BY <2>1 DEF StaffAct, Tick, Verify, CreateCommission, Begin, BeginCheckIn, BeginMark,
                BeginCheckOut, BeginApprove, BeginPayment, Park, Stamp, StampByRule, StampIn,
                StampOut, Commit, CommitApprove, CommitPayment, StaffFail, attendance
  <2>3. CASE CommitEntry(w)
    <3>1. req[w] \in InRequest /\ EnterIsTrue(req[w])
      BY <1>1, <2>1, <2>3, StaffSlots DEF CommitEntry, Takes, StaffInv, RequestIsTrue
    <3>2. p = req[w].p /\ d = req[w].d /\ req[w].t # {}
      BY <2>1, <2>3, <3>1 DEF CommitEntry, InRequest
    <3>3. ~req[w].new
      BY <2>1, <2>3, <3>2, RowsAre DEF CommitEntry
    <3> QED BY <2>1, <3>1, <3>2, <3>3 DEF EnterIsTrue
  <2>4. CASE CommitCheckOut(w)
    <3>1. req[w] \in OutRequest
      BY <1>1, <2>1, <2>4, StaffSlots DEF CommitCheckOut, Takes, StaffInv
    <3>2. row'[p][d].in = row[p][d].in
      <4>1. row[p][d] \in Row \/ row[p][d] = None
        BY <2>1, RowsAre
      <4> QED BY <2>1, <2>4, <3>1, <4>1 DEF CommitCheckOut, OutRequest, Row, None
    <3> QED BY <3>2
  <2> QED BY <2>2, <2>3, <2>4
<1> QED BY <1>1, StaffInvariant, PTL DEF StaffSpec, EntryKept
=============================================================================
