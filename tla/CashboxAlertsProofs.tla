------------------------- MODULE CashboxAlertsProofs --------------------------
(***************************************************************************)
(* CashInv holds for any number of sessions and of requests in flight; it  *)
(* explains every closed session and every audit row.  SerialInv holds     *)
(* until two requests overlap: till then at most one session is open, its  *)
(* books are complete when it closes, and only an owner unblocks it.       *)
(***************************************************************************)
EXTENDS Cashbox, Alerts, TLAPS

\* The kind of request a slot holds is told by its op.
LEMMA SlotKind ==
    ASSUME ColumnsOK, NEW w \in Workers
    PROVE  /\ req[w].op = "open" => req[w] \in OpenRequest
           /\ req[w].op = "tx" => req[w] \in TxRequest
           /\ req[w].op \in {"blockAudit", "close"} => req[w] \in CloseRequest
           /\ req[w].op \in {"override", "overrideAudit"} => req[w] \in OverrideRequest
<1>1. req[w] \in Request \cup {Idle}
  BY DEF ColumnsOK
<1>2. Idle.op = "idle" /\ (req[w] \in OpenRequest => req[w].op = "open")
  BY DEF Idle, OpenRequest
<1>3. req[w] \in TxRequest => req[w].op = "tx"
  BY DEF TxRequest
<1>4. req[w] \in CloseRequest => req[w].op \in {"blockAudit", "close"}
  BY DEF CloseRequest
<1>5. req[w] \in OverrideRequest => req[w].op \in {"override", "overrideAudit"}
  BY DEF OverrideRequest
<1>6. QED
  BY <1>1, <1>2, <1>3, <1>4, <1>5 DEF Request

\* The level a closing is given is explained by its discrepancy.
LEMMA LevelIsExplained ==
    ASSUME NEW d \in Int, NEW just \in BOOLEAN, NEW to \in CloseLevel(d, just)
    PROVE  to \in Closed \cup {"BLOCKED"} /\ Explained(to, d, just)
<1>1. Abs(d) \in Int
  BY DEF Abs
<1>2. CASE Abs(d) < 5
  <2>1. CloseLevel(d, just) = {"CLOSED_NORMAL"}
    BY <1>1, <1>2 DEF CloseLevel, DISCREPANCY_MINOR, DISCREPANCY_MAJOR
  <2>2. QED
    BY <1>2, <2>1 DEF Explained, Closed, DISCREPANCY_MINOR
<1>3. CASE Abs(d) >= 5 /\ Abs(d) <= 50
  <2>1. CloseLevel(d, just) = IF just THEN {"CLOSED_WITH_DISCREPANCY"} ELSE {}
    BY <1>1, <1>3 DEF CloseLevel, DISCREPANCY_MINOR, DISCREPANCY_MAJOR
  <2>2. just /\ to = "CLOSED_WITH_DISCREPANCY"
    BY <2>1
  <2>3. QED
    BY <1>1, <1>3, <2>2 DEF Explained, Closed, DISCREPANCY_MINOR, DISCREPANCY_MAJOR
<1>4. CASE Abs(d) > 50
  BY <1>1, <1>4 DEF CloseLevel, Explained, Closed, DISCREPANCY_MINOR, DISCREPANCY_MAJOR
<1>5. QED
  BY <1>1, <1>2, <1>3, <1>4

-----------------------------------------------------------------------------
(* Types *)

LEMMA TypeInit == Init => ColumnsOK
BY MaxTxAssumption DEF Init, ColumnsOK

LEMMA ParkType ==
    ASSUME ColumnsOK, NEW w \in Workers, NEW r \in Request, Park(w, r)
    PROVE  ColumnsOK'
BY DEF ColumnsOK, Park, session

LEMMA BeginType ==
    ASSUME ColumnsOK, NEW w \in Workers, Begin(w)
    PROVE  ColumnsOK'
<1>1. CASE BeginOpen(w)
  <2>1. [op |-> "open"] \in Request
    BY DEF Request, OpenRequest
  <2>2. QED
    BY <1>1, <2>1, ParkType DEF BeginOpen
<1>2. ASSUME NEW s \in Sessions, NEW type \in TransactionType, NEW a \in Amounts,
             BeginTransaction(w, s, type, a)
      PROVE  ColumnsOK'
  <2>1. [op |-> "tx", s |-> s, type |-> type, amount |-> a] \in Request
    BY MoneyAssumption DEF Request, TxRequest
  <2>2. QED
    BY <1>2, <2>1, ParkType DEF BeginTransaction
<1>3. ASSUME NEW s \in Sessions, NEW a \in Amounts, BeginDesk(w, s, a)
      PROVE  ColumnsOK'
  <2>1. [op |-> "tx", s |-> s, type |-> "PAYMENT", amount |-> a] \in Request
    BY MoneyAssumption DEF Request, TxRequest, TransactionType
  <2>2. QED
    BY <1>3, <2>1, ParkType DEF BeginDesk
<1>4. ASSUME NEW s \in Sessions, NEW cash \in Cash, NEW just \in BOOLEAN,
             BeginClose(w, s, cash, just)
      PROVE  ColumnsOK'
  <2>1. expected[s] \in Int /\ cash - expected[s] \in Int
    BY MoneyAssumption DEF ColumnsOK
  <2>2. PICK to \in CloseLevel(cash - expected[s], just) :
          Park(w, [op |-> IF to = "BLOCKED" THEN "blockAudit" ELSE "close",
                   s |-> s, to |-> to, expected |-> expected[s],
                   diff |-> cash - expected[s], justified |-> just])
    BY <1>4 DEF BeginClose
  <2>3. to \in Closed \cup {"BLOCKED"}
    BY <2>1, LevelIsExplained
  <2>4. [op |-> IF to = "BLOCKED" THEN "blockAudit" ELSE "close",
         s |-> s, to |-> to, expected |-> expected[s],
         diff |-> cash - expected[s], justified |-> just] \in CloseRequest
    BY <2>1, <2>3 DEF CloseRequest
  <2>5. QED
    BY <2>2, <2>4, ParkType DEF Request
<1>5. ASSUME NEW s \in Sessions, BeginOverride(w, s)
      PROVE  ColumnsOK'
  <2>1. [op |-> "override", s |-> s] \in Request
    BY DEF Request, OverrideRequest
  <2>2. QED
    BY <1>5, <2>1, ParkType DEF BeginOverride
<1>6. QED
  BY <1>1, <1>2, <1>3, <1>4, <1>5 DEF Begin

LEMMA CommitType ==
    ASSUME ColumnsOK, NEW w \in Workers, Commit(w)
    PROVE  ColumnsOK'
<1>1. ASSUME NEW s \in Sessions, NEW b \in Opening, CommitOpen(w, s, b)
      PROVE  ColumnsOK'
  BY <1>1, MoneyAssumption DEF ColumnsOK, CommitOpen, Takes, CashboxStatus
<1>2. CASE CommitTransaction(w)
  <2>1. req[w] \in TxRequest
    BY <1>2, SlotKind DEF CommitTransaction, Takes
  <2> PICK s \in Sessions, k \in Int :
        req[w].s = s /\ k = Signed(req[w].type, req[w].amount)
    BY <2>1 DEF TxRequest, Signed
  <2>2. /\ req' = [req EXCEPT ![w] = Idle]
        /\ txs[s] < MaxTx /\ txs' = [txs EXCEPT ![s] = @ + 1]
        /\ expected' = [expected EXCEPT ![s] = @ + k]
        /\ UNCHANGED <<st, today, closing, diff, justified, audit, overridden>>
    BY <1>2 DEF CommitTransaction, Takes
  <2>3. txs' \in [Sessions -> 0..MaxTx]
    BY <2>2, MaxTxAssumption DEF ColumnsOK
  <2>4. expected' \in [Sessions -> Int]
    BY <2>2 DEF ColumnsOK
  <2>5. QED
    BY <2>2, <2>3, <2>4 DEF ColumnsOK
<1>3. CASE CommitBlockAudit(w)
  <2>1. req[w] \in CloseRequest
    BY <1>3, SlotKind DEF CommitBlockAudit
  <2>2. [req[w] EXCEPT !.op = "close"] \in CloseRequest
    BY <2>1 DEF CloseRequest
  <2>3. QED
    BY <1>3, <2>1, <2>2 DEF ColumnsOK, CommitBlockAudit, Request
<1>4. CASE CommitClose(w)
  <2>1. req[w] \in CloseRequest
    BY <1>4, SlotKind DEF CommitClose, Takes
  <2>2. /\ req[w].to \in CashboxStatus /\ req[w].expected \in Int
        /\ req[w].diff \in Int /\ req[w].justified \in BOOLEAN
    BY <2>1 DEF CloseRequest, CashboxStatus
  <2>3. QED
    BY <1>4, <2>2 DEF ColumnsOK, CommitClose, Takes
<1>5. CASE CommitOverride(w)
  <2>1. req[w] \in OverrideRequest
    BY <1>5, SlotKind DEF CommitOverride
  <2>2. [req[w] EXCEPT !.op = "overrideAudit"] \in OverrideRequest /\ req[w].s \in Sessions
    BY <2>1 DEF OverrideRequest
  <2>3. QED
    BY <1>5, <2>2 DEF ColumnsOK, CommitOverride, Request, CashboxStatus, Closed
<1>6. CASE CommitOverrideAudit(w)
  BY <1>6 DEF ColumnsOK, CommitOverrideAudit, Takes
<1>7. QED
  BY <1>1, <1>2, <1>3, <1>4, <1>5, <1>6 DEF Commit

LEMMA TypeStep ==
    ASSUME ColumnsOK, [Act]_vars
    PROVE  ColumnsOK'
<1>1. CASE NewDay
  BY <1>1 DEF ColumnsOK, NewDay
<1>2. ASSUME NEW w \in Workers, Fail(w) PROVE ColumnsOK'
  BY <1>2 DEF ColumnsOK, Fail, session
<1>3. CASE UNCHANGED vars
  BY <1>3 DEF ColumnsOK, vars
<1>4. QED
  BY <1>1, <1>2, <1>3, BeginType, CommitType DEF Act
-----------------------------------------------------------------------------
(* CashInv *)

LEMMA IdleOK == ReqOK(Idle) /\ ReqOK(Idle)'
BY DEF ReqOK, Idle

LEMMA CashInit == Init => CashInv
<1> SUFFICES ASSUME Init PROVE CashInv
  OBVIOUS
<1>1. ColumnsOK
  BY TypeInit
<1>2. ASSUME NEW s \in Sessions PROVE SessionOK(s)
  <2>1. st[s] = "NONE" /\ s \notin overridden /\ audit[s] = {}
    BY DEF Init
  <2>2. QED
    BY <2>1 DEF SessionOK, Explained
<1>3. ASSUME NEW w \in Workers PROVE ReqOK(req[w])
  BY IdleOK DEF Init
<1>4. QED
  BY <1>1, <1>2, <1>3 DEF CashInv

\* A step that changes one session to one that is in order, takes nothing
\* from the audit log or from the overrides, and leaves every slot as it was,
\* idle or in order, preserves the invariant.
LEMMA OneSessionKeepsCash ==
    ASSUME CashInv, ColumnsOK', NEW s \in Sessions, SessionOK(s)',
           \A x \in Sessions \ {s} :
              /\ st'[x] = st[x] /\ diff'[x] = diff[x] /\ justified'[x] = justified[x]
              /\ audit'[x] = audit[x] /\ (x \in overridden' <=> x \in overridden),
           audit[s] \subseteq audit'[s], overridden \subseteq overridden',
           \A v \in Workers : \/ req'[v] = req[v] \/ req'[v] = Idle
                              \/ ReqOK(req[v])'
    PROVE  CashInv'
<1>1. ASSUME NEW x \in Sessions PROVE SessionOK(x)'
  <2>1. CASE x = s
    BY <2>1
  <2>2. CASE x # s
    <3>1. SessionOK(x)
      BY DEF CashInv
    <3>2. QED
      BY <2>2, <3>1 DEF SessionOK, Explained
  <2>3. QED
    BY <2>1, <2>2
<1>2. ASSUME NEW v \in Workers, req'[v] = req[v] PROVE ReqOK(req[v])'
  <2>1. ColumnsOK /\ ReqOK(req[v])
    BY DEF CashInv
  <2>2. req[v].op \in {"close", "override", "overrideAudit"} => req[v].s \in Sessions
    BY <2>1, SlotKind DEF CloseRequest, OverrideRequest
  <2>3. req[v].s \in Sessions => audit[req[v].s] \subseteq audit'[req[v].s]
    OBVIOUS
  <2>4. /\ req[v].op \in {"blockAudit", "close"} =>
             Explained(req[v].to, req[v].diff, req[v].justified)
        /\ req[v].op = "blockAudit" => req[v].to = "BLOCKED"
        /\ req[v].op = "close" /\ req[v].to = "BLOCKED" => "BLOCKED" \in audit'[req[v].s]
        /\ req[v].op = "override" => "BLOCKED" \in audit'[req[v].s]
        /\ req[v].op = "overrideAudit" => req[v].s \in overridden'
    BY <2>1, <2>2, <2>3 DEF ReqOK
  <2>5. QED
    BY <1>2, <2>4 DEF ReqOK, Explained
<1>3. ASSUME NEW v \in Workers PROVE ReqOK(req[v])'
  <2>1. CASE req'[v] = Idle
    BY <2>1 DEF ReqOK, Idle
  <2>2. QED
    BY <1>2, <2>1
<1>4. QED
  BY <1>1, <1>3 DEF CashInv

LEMMA ParkKeepsCash ==
    ASSUME CashInv, NEW w \in Workers, NEW r \in Request, Park(w, r), ReqOK(r)
    PROVE  CashInv'
<1>1. ColumnsOK /\ ColumnsOK'
  BY ParkType DEF CashInv
<1>2. /\ req' = [req EXCEPT ![w] = r]
      /\ UNCHANGED <<st, diff, justified, audit, overridden>>
  BY DEF Park, session
<1>3. \A x \in Sessions : SessionOK(x)'
  BY <1>2 DEF CashInv, SessionOK, Explained
<1>4. ASSUME NEW v \in Workers PROVE ReqOK(req[v])'
  <2>1. ReqOK(req[v]) /\ (req'[v] = req[v] \/ req'[v] = r)
    BY <1>1, <1>2 DEF CashInv, ColumnsOK
  <2>2. QED
    BY <1>2, <2>1 DEF ReqOK, Explained
<1>5. QED
  BY <1>1, <1>3, <1>4 DEF CashInv

LEMMA BeginKeepsCash ==
    ASSUME CashInv, NEW w \in Workers, Begin(w)
    PROVE  CashInv'
<1>0. ColumnsOK
  BY DEF CashInv
<1>1. CASE BeginOpen(w)
  <2>1. [op |-> "open"] \in Request /\ ReqOK([op |-> "open"])
    BY DEF Request, OpenRequest, ReqOK
  <2>2. QED
    BY <1>1, <2>1, ParkKeepsCash DEF BeginOpen
<1>2. ASSUME NEW s \in Sessions, NEW type \in TransactionType, NEW a \in Amounts,
             \/ BeginTransaction(w, s, type, a)
             \/ BeginDesk(w, s, a) /\ type = "PAYMENT"
      PROVE  CashInv'
  <2>1. [op |-> "tx", s |-> s, type |-> type, amount |-> a] \in Request
    BY MoneyAssumption DEF Request, TxRequest
  <2>2. ReqOK([op |-> "tx", s |-> s, type |-> type, amount |-> a])
    BY DEF ReqOK
  <2>3. Park(w, [op |-> "tx", s |-> s, type |-> type, amount |-> a])
    BY <1>2 DEF BeginTransaction, BeginDesk
  <2>4. QED
    BY <2>1, <2>2, <2>3, ParkKeepsCash
<1>3. ASSUME NEW s \in Sessions, NEW cash \in Cash, NEW just \in BOOLEAN,
             BeginClose(w, s, cash, just)
      PROVE  CashInv'
  <2>1. expected[s] \in Int /\ cash - expected[s] \in Int
    BY <1>0, MoneyAssumption DEF ColumnsOK
  <2>2. PICK to \in CloseLevel(cash - expected[s], just) :
          Park(w, [op |-> IF to = "BLOCKED" THEN "blockAudit" ELSE "close",
                   s |-> s, to |-> to, expected |-> expected[s],
                   diff |-> cash - expected[s], justified |-> just])
    BY <1>3 DEF BeginClose
  <2>3. to \in Closed \cup {"BLOCKED"} /\ Explained(to, cash - expected[s], just)
    BY <2>1, LevelIsExplained
  <2> PICK r : r = [op |-> IF to = "BLOCKED" THEN "blockAudit" ELSE "close",
                    s |-> s, to |-> to, expected |-> expected[s],
                    diff |-> cash - expected[s], justified |-> just]
    OBVIOUS
  <2>4. r \in CloseRequest
    BY <2>1, <2>3 DEF CloseRequest
  <2>5. ReqOK(r)
    BY <2>3 DEF ReqOK
  <2>6. QED
    BY <2>2, <2>4, <2>5, ParkKeepsCash DEF Request
<1>4. ASSUME NEW s \in Sessions, BeginOverride(w, s)
      PROVE  CashInv'
  <2>1. [op |-> "override", s |-> s] \in Request
    BY DEF Request, OverrideRequest
  <2>2. st[s] = "BLOCKED" /\ SessionOK(s)
    BY <1>4 DEF BeginOverride, CashInv
  <2>3. ReqOK([op |-> "override", s |-> s])
    BY <2>2 DEF SessionOK, ReqOK
  <2>4. QED
    BY <1>4, <2>1, <2>3, ParkKeepsCash DEF BeginOverride
<1>5. QED
  BY <1>1, <1>2, <1>3, <1>4 DEF Begin, TransactionType

LEMMA CommitKeepsCash ==
    ASSUME CashInv, NEW w \in Workers, Commit(w)
    PROVE  CashInv'
<1>0. ColumnsOK /\ ColumnsOK' /\ ReqOK(req[w])
  BY CommitType DEF CashInv
<1>1. ASSUME NEW s \in Sessions, NEW b \in Opening, CommitOpen(w, s, b)
      PROVE  CashInv'
  <2>1. /\ st' = [st EXCEPT ![s] = "OPEN"] /\ req' = [req EXCEPT ![w] = Idle]
        /\ st[s] = "NONE" /\ UNCHANGED <<diff, justified, audit, overridden>>
    BY <1>1 DEF CommitOpen, Takes
  <2>2. st'[s] = "OPEN" /\ SessionOK(s)
    BY <1>0, <2>1 DEF ColumnsOK, CashInv
  <2>3. SessionOK(s)'
    BY <2>1, <2>2 DEF SessionOK, Explained
  <2>4. QED
    BY <1>0, <2>1, <2>3, OneSessionKeepsCash DEF ColumnsOK
<1>2. CASE CommitTransaction(w)
  <2>1. req[w] \in TxRequest
    BY <1>0, <1>2, SlotKind DEF CommitTransaction, Takes
  <2> PICK s \in Sessions : req[w].s = s
    BY <2>1 DEF TxRequest
  <2>2. /\ req' = [req EXCEPT ![w] = Idle]
        /\ UNCHANGED <<st, diff, justified, audit, overridden>>
    BY <1>2 DEF CommitTransaction, Takes
  <2>3. SessionOK(s)'
    BY <2>2 DEF CashInv, SessionOK, Explained
  <2>4. QED
    BY <1>0, <2>2, <2>3, OneSessionKeepsCash DEF ColumnsOK
<1>3. CASE CommitBlockAudit(w)
  <2>1. req[w] \in CloseRequest /\ req[w].op = "blockAudit"
    BY <1>0, <1>3, SlotKind DEF CommitBlockAudit
  <2> PICK s \in Sessions : req[w].s = s
    BY <2>1 DEF CloseRequest
  <2> PICK r : r = [req[w] EXCEPT !.op = "close"]
    OBVIOUS
  <2>2. /\ req' = [req EXCEPT ![w] = r]
        /\ audit' = [audit EXCEPT ![s] = @ \cup {"BLOCKED"}]
        /\ UNCHANGED <<st, diff, justified, overridden>>
    BY <1>3 DEF CommitBlockAudit
  <2>3. audit'[s] = audit[s] \cup {"BLOCKED"} /\ SessionOK(s)
    BY <1>0, <2>2 DEF ColumnsOK, CashInv
  <2>4. SessionOK(s)'
    BY <2>2, <2>3 DEF SessionOK, Explained
  <2>5. /\ r.op = "close" /\ r.to = req[w].to /\ r.s = s /\ r.diff = req[w].diff
        /\ r.justified = req[w].justified
    BY <2>1 DEF CloseRequest
  <2>6. Explained(r.to, r.diff, r.justified)
    BY <1>0, <2>1, <2>5 DEF ReqOK
  <2>7. req'[w] = r
    BY <1>0, <2>2 DEF ColumnsOK
  <2>8. ReqOK(req[w])'
    BY <2>3, <2>5, <2>6, <2>7 DEF ReqOK, Explained
  <2>9. \A v \in Workers : v # w => req'[v] = req[v]
    BY <1>0, <2>2 DEF ColumnsOK
  <2>10. \A x \in Sessions \ {s} : audit'[x] = audit[x]
    BY <1>0, <2>2 DEF ColumnsOK
  <2>11. QED
    BY <1>0, <2>2, <2>3, <2>4, <2>8, <2>9, <2>10, OneSessionKeepsCash
<1>4. CASE CommitClose(w)
  <2>1. req[w] \in CloseRequest /\ req[w].op = "close"
    BY <1>0, <1>4, SlotKind DEF CommitClose, Takes
  <2> PICK s \in Sessions : req[w].s = s
    BY <2>1 DEF CloseRequest
  <2>2. /\ req' = [req EXCEPT ![w] = Idle]
        /\ st' = [st EXCEPT ![s] = req[w].to]
        /\ diff' = [diff EXCEPT ![s] = req[w].diff]
        /\ justified' = [justified EXCEPT ![s] = req[w].justified]
        /\ UNCHANGED <<audit, overridden>>
    BY <1>4 DEF CommitClose, Takes
  <2>3. /\ st'[s] = req[w].to /\ diff'[s] = req[w].diff
        /\ justified'[s] = req[w].justified /\ SessionOK(s)
    BY <1>0, <2>2 DEF ColumnsOK, CashInv
  <2>4. /\ Explained(req[w].to, req[w].diff, req[w].justified)
        /\ req[w].to = "BLOCKED" => "BLOCKED" \in audit[s]
    BY <1>0, <2>1 DEF ReqOK
  <2>5. Explained(st[s], diff[s], justified[s])'
    BY <2>3, <2>4 DEF Explained
  <2>6. SessionOK(s)'
    BY <2>2, <2>3, <2>4, <2>5 DEF SessionOK
  <2>7. \A x \in Sessions \ {s} :
          st'[x] = st[x] /\ diff'[x] = diff[x] /\ justified'[x] = justified[x]
    BY <1>0, <2>2 DEF ColumnsOK
  <2>8. \A v \in Workers : req'[v] = req[v] \/ req'[v] = Idle
    BY <1>0, <2>2 DEF ColumnsOK
  <2>9. QED
    BY <1>0, <2>2, <2>6, <2>7, <2>8, OneSessionKeepsCash
<1>5. CASE CommitOverride(w)
  <2>1. req[w] \in OverrideRequest /\ req[w].op = "override"
    BY <1>0, <1>5, SlotKind DEF CommitOverride
  <2> PICK s \in Sessions : req[w].s = s
    BY <2>1 DEF OverrideRequest
  <2> PICK r : r = [req[w] EXCEPT !.op = "overrideAudit"]
    OBVIOUS
  <2>2. /\ req' = [req EXCEPT ![w] = r]
        /\ st' = [st EXCEPT ![s] = "CLOSED_WITH_DISCREPANCY"]
        /\ overridden' = overridden \cup {s}
        /\ UNCHANGED <<diff, justified, audit>>
    BY <1>5 DEF CommitOverride
  <2>3. r.op = "overrideAudit" /\ r.s = s /\ req'[w] = r
    BY <1>0, <2>1, <2>2 DEF OverrideRequest, ColumnsOK
  <2>4. "BLOCKED" \in audit[s] /\ st'[s] = "CLOSED_WITH_DISCREPANCY"
    BY <1>0, <2>1, <2>2 DEF ReqOK, ColumnsOK
  <2>5. SessionOK(s)'
    BY <2>2, <2>4 DEF SessionOK
  <2>6. ReqOK(req[w])'
    <3>1. s \in overridden'
      BY <2>2
    <3>2. req'[w].op = "overrideAudit" /\ req'[w].s = s
      BY <2>3
    <3>3. QED
      BY <3>1, <3>2 DEF ReqOK, Explained
  <2>7. \A x \in Sessions \ {s} : st'[x] = st[x]
    BY <1>0, <2>2 DEF ColumnsOK
  <2>8. \A v \in Workers : v # w => req'[v] = req[v]
    BY <1>0, <2>2 DEF ColumnsOK
  <2>9. QED
    BY <1>0, <2>2, <2>5, <2>6, <2>7, <2>8, OneSessionKeepsCash
<1>6. CASE CommitOverrideAudit(w)
  <2>1. req[w] \in OverrideRequest /\ req[w].op = "overrideAudit"
    BY <1>0, <1>6, SlotKind DEF CommitOverrideAudit, Takes
  <2> PICK s \in Sessions : req[w].s = s
    BY <2>1 DEF OverrideRequest
  <2>2. /\ req' = [req EXCEPT ![w] = Idle]
        /\ audit' = [audit EXCEPT ![s] = @ \cup {"OVERRIDE"}]
        /\ UNCHANGED <<st, diff, justified, overridden>>
    BY <1>6 DEF CommitOverrideAudit, Takes
  <2>3. s \in overridden /\ SessionOK(s) /\ audit'[s] = audit[s] \cup {"OVERRIDE"}
    BY <1>0, <2>1, <2>2 DEF ReqOK, ColumnsOK, CashInv
  <2>4. SessionOK(s)'
    BY <2>2, <2>3 DEF SessionOK, Explained
  <2>5. \A x \in Sessions \ {s} : audit'[x] = audit[x]
    BY <1>0, <2>2 DEF ColumnsOK
  <2>6. \A v \in Workers : req'[v] = req[v] \/ req'[v] = Idle
    BY <1>0, <2>2 DEF ColumnsOK
  <2>7. QED
    BY <1>0, <2>2, <2>3, <2>4, <2>5, <2>6, OneSessionKeepsCash
<1>7. QED
  BY <1>1, <1>2, <1>3, <1>4, <1>5, <1>6 DEF Commit

LEMMA QuietKeepsCash ==
    ASSUME CashInv, ColumnsOK', UNCHANGED <<st, diff, justified, audit, overridden>>,
           \A v \in Workers : req'[v] = req[v] \/ req'[v] = Idle
    PROVE  CashInv'
<1>1. \A x \in Sessions : SessionOK(x)'
  BY DEF CashInv, SessionOK, Explained
<1>2. ASSUME NEW v \in Workers PROVE ReqOK(req[v])'
  <2>1. CASE req'[v] = Idle
    BY <2>1 DEF ReqOK, Idle
  <2>2. CASE req'[v] = req[v]
    <3>1. ReqOK(req[v])
      BY DEF CashInv
    <3>2. QED
      BY <2>2, <3>1 DEF ReqOK, Explained
  <2>3. QED
    BY <2>1, <2>2
<1>3. QED
  BY <1>1, <1>2 DEF CashInv

LEMMA CashStep ==
    ASSUME CashInv, [Act]_vars
    PROVE  CashInv'
<1>0. ColumnsOK /\ ColumnsOK'
  BY TypeStep DEF CashInv
<1>1. CASE NewDay
  BY <1>0, <1>1, QuietKeepsCash DEF NewDay
<1>2. ASSUME NEW w \in Workers, Fail(w) PROVE CashInv'
  <2>1. \A v \in Workers : req'[v] = req[v] \/ req'[v] = Idle
    BY <1>0, <1>2 DEF Fail, ColumnsOK
  <2>2. QED
    BY <1>0, <1>2, <2>1, QuietKeepsCash DEF Fail, session
<1>3. CASE UNCHANGED vars
  BY <1>0, <1>3, QuietKeepsCash DEF vars
<1>4. QED
  BY <1>1, <1>2, <1>3, BeginKeepsCash, CommitKeepsCash DEF Act

LEMMA NextActs == [Next]_vars => [Act]_vars
BY DEF Next

\* CashInv is an invariant: every row, and every request about to be written
\* over it, is explained, whatever the interleaving.
THEOREM CashInvariant == Spec => []CashInv
<1>1. CashInv /\ [Next]_vars => CashInv'
  BY CashStep, NextActs
<1>2. QED
  BY <1>1, CashInit, PTL DEF Spec

\* The columns written by the handlers of finance.service.ts,
\* close-cashbox-session.use-case.ts and finance.controller.ts keep their types.
THEOREM TypeCorrect == Spec => []TypeOK
<1>1. Init => TypeOK
  BY TypeInit DEF TypeOK, Init
<1>2. TypeOK /\ [Next]_vars => TypeOK'
  <2>1. ASSUME TypeOK, [Next]_vars PROVE overlap' \in BOOLEAN
    BY <2>1 DEF TypeOK, Next, vars
  <2>2. QED
    BY <2>1, TypeStep, NextActs DEF TypeOK
<1>3. QED
  BY <1>1, <1>2, PTL DEF Spec

\* The three-level control of close-cashbox-session.use-case.ts: the status
\* of a closed session agrees with its row, for any number of overlapping
\* closings, unless an owner overrode it.
THEOREM StatusIsExplained == Spec => []StatusExplained
<1>1. CashInv => StatusExplained
  BY DEF CashInv, SessionOK, Explained, StatusExplained
<1>2. QED
  BY <1>1, CashInvariant, PTL

\* The audit log of closing and overriding: no blocked or overridden session
\* lacks its CRITICAL row, and no override is on record that did not happen.
THEOREM AuditIsComplete == Spec => []AuditTrail
<1>1. CashInv => AuditTrail
  BY DEF CashInv, SessionOK, AuditTrail
<1>2. QED
  BY <1>1, CashInvariant, PTL
-----------------------------------------------------------------------------
(* SerialInv *)

LEMMA SerialStateInit == Init => SerialState
<1> SUFFICES ASSUME Init PROVE SerialState
  OBVIOUS
<1>1. ColumnsOK
  BY TypeInit
<1>2. OneIsOpen /\ Books
  BY DEF Init, OneIsOpen, Open, Books, Closed
<1>3. ASSUME NEW w \in Workers PROVE SnapshotOK(req[w])
  BY DEF Init, SnapshotOK, Idle
<1>4. QED
  BY <1>1, <1>2, <1>3 DEF SerialState

\* With one request at a time, a step need only leave the sessions in order
\* and its own slot idle or true of the sessions.
LEMMA OneSlot ==
    ASSUME NEW w \in Workers, \A v \in Workers \ {w} : req'[v] = Idle,
           ColumnsOK', OneIsOpen', Books', req'[w] = Idle \/ SnapshotOK(req[w])'
    PROVE  SerialState'
<1>1. ASSUME NEW v \in Workers, req'[v] = Idle PROVE SnapshotOK(req[v])'
  BY <1>1 DEF SnapshotOK, Idle
<1>2. QED
  BY <1>1 DEF SerialState

LEMMA SessionsUntouched ==
    ASSUME SerialState, UNCHANGED <<st, expected, closing>>
    PROVE  OneIsOpen' /\ Books'
BY DEF SerialState, OneIsOpen, Open, Books

LEMMA BeginKeepsSerial ==
    ASSUME SerialState, NEW w \in Workers, \A v \in Workers \ {w} : req'[v] = Idle, Begin(w)
    PROVE  SerialState' /\ UNCHANGED st
<1>1. ColumnsOK /\ ColumnsOK'
  BY BeginType DEF SerialState
<1>2. ASSUME NEW r, Park(w, r), SnapshotOK(r) PROVE SerialState' /\ UNCHANGED st
  <2>1. UNCHANGED <<st, expected, closing>> /\ req'[w] = r
    BY <1>1, <1>2 DEF Park, session, ColumnsOK
  <2>2. SnapshotOK(req[w])'
    BY <1>2, <2>1 DEF SnapshotOK, Open
  <2>3. QED
    BY <1>1, <2>1, <2>2, SessionsUntouched, OneSlot
<1>3. CASE BeginOpen(w)
  <2>1. SnapshotOK([op |-> "open"])
    BY <1>3 DEF BeginOpen, SnapshotOK
  <2>2. QED
    BY <1>2, <1>3, <2>1 DEF BeginOpen
<1>4. ASSUME NEW s \in Sessions, NEW type \in TransactionType, NEW a \in Amounts,
             \/ BeginTransaction(w, s, type, a)
             \/ BeginDesk(w, s, a) /\ type = "PAYMENT"
      PROVE  SerialState' /\ UNCHANGED st
  <2>1. /\ Park(w, [op |-> "tx", s |-> s, type |-> type, amount |-> a])
        /\ st[s] = "OPEN"
    BY <1>4 DEF BeginTransaction, BeginDesk, Open
  <2>2. SnapshotOK([op |-> "tx", s |-> s, type |-> type, amount |-> a])
    BY <2>1 DEF SnapshotOK
  <2>3. QED
    BY <1>2, <2>1, <2>2
<1>5. ASSUME NEW s \in Sessions, NEW cash \in Cash, NEW just \in BOOLEAN,
             BeginClose(w, s, cash, just)
      PROVE  SerialState' /\ UNCHANGED st
  <2>1. PICK to, r :
          /\ r = [op |-> IF to = "BLOCKED" THEN "blockAudit" ELSE "close",
                  s |-> s, to |-> to, expected |-> expected[s],
                  diff |-> cash - expected[s], justified |-> just]
          /\ Park(w, r)
    BY <1>5 DEF BeginClose
  <2>2. st[s] = "OPEN"
    BY <1>5 DEF BeginClose, Open
  <2>3. SnapshotOK(r)
    BY <2>1, <2>2 DEF SnapshotOK
  <2>4. QED
    BY <1>2, <2>1, <2>3
<1>6. ASSUME NEW s \in Sessions, BeginOverride(w, s)
      PROVE  SerialState' /\ UNCHANGED st
  <2>1. SnapshotOK([op |-> "override", s |-> s])
    BY <1>6 DEF BeginOverride, SnapshotOK
  <2>2. QED
    BY <1>2, <1>6, <2>1 DEF BeginOverride
<1>7. QED
  BY <1>1, <1>3, <1>4, <1>5, <1>6 DEF Begin, TransactionType

\* A blocked session that changes was overridden.
Unblocked ==
    \A s \in Sessions : st[s] = "BLOCKED" /\ st'[s] # "BLOCKED" =>
        s \in overridden' /\ st'[s] = "CLOSED_WITH_DISCREPANCY"

LEMMA CommitKeepsSerial ==
    ASSUME SerialState, NEW w \in Workers, \A v \in Workers \ {w} : req'[v] = Idle, Commit(w)
    PROVE  SerialState' /\ Unblocked
<1>0. ColumnsOK /\ ColumnsOK' /\ SnapshotOK(req[w]) /\ OneIsOpen /\ Books
  BY CommitType DEF SerialState
<1>1. ASSUME NEW s \in Sessions, NEW b \in Opening, CommitOpen(w, s, b)
      PROVE  SerialState' /\ Unblocked
  <2>1. /\ st[s] = "NONE" /\ st' = [st EXCEPT ![s] = "OPEN"] /\ req[w].op = "open"
        /\ req' = [req EXCEPT ![w] = Idle] /\ UNCHANGED closing
        /\ expected' = [expected EXCEPT ![s] = b]
    BY <1>1 DEF CommitOpen, Takes
  <2>2. Open = {}
    BY <1>0, <2>1 DEF SnapshotOK
  <2>3. Open' = {s}
    BY <1>0, <2>1, <2>2 DEF Open, ColumnsOK
  <2>4. OneIsOpen'
    BY <2>3 DEF OneIsOpen
  <2>5. Books'
    BY <1>0, <2>1 DEF Books, Closed, ColumnsOK
  <2>6. req'[w] = Idle /\ Unblocked
    BY <1>0, <2>1 DEF ColumnsOK, Unblocked
  <2>7. QED
    BY <1>0, <2>4, <2>5, <2>6, OneSlot
<1>2. CASE CommitTransaction(w)
  <2>1. req[w] \in TxRequest /\ req[w].op = "tx"
    BY <1>0, <1>2, SlotKind DEF CommitTransaction, Takes
  <2> PICK s \in Sessions, k \in Int :
        req[w].s = s /\ k = Signed(req[w].type, req[w].amount)
    BY <2>1 DEF TxRequest, Signed
  <2>2. /\ req' = [req EXCEPT ![w] = Idle] /\ UNCHANGED <<st, closing>>
        /\ expected' = [expected EXCEPT ![s] = @ + k]
    BY <1>2 DEF CommitTransaction, Takes
  <2>3. st[s] = "OPEN"
    BY <1>0, <2>1 DEF SnapshotOK
  <2>4. OneIsOpen'
    BY <1>0, <2>2 DEF OneIsOpen, Open
  <2>5. Books'
    BY <1>0, <2>2, <2>3 DEF Books, Closed, ColumnsOK
  <2>6. req'[w] = Idle /\ Unblocked
    BY <1>0, <2>2 DEF ColumnsOK, Unblocked
  <2>7. QED
    BY <1>0, <2>4, <2>5, <2>6, OneSlot
<1>3. CASE CommitBlockAudit(w)
  <2>1. req[w] \in CloseRequest /\ req[w].op = "blockAudit"
    BY <1>0, <1>3, SlotKind DEF CommitBlockAudit
  <2> PICK s \in Sessions : req[w].s = s
    BY <2>1 DEF CloseRequest
  <2> PICK r : r = [req[w] EXCEPT !.op = "close"]
    OBVIOUS
  <2>2. req' = [req EXCEPT ![w] = r] /\ UNCHANGED <<st, expected, closing>>
    BY <1>3 DEF CommitBlockAudit
  <2>3. r.op = "close" /\ r.s = s /\ r.expected = req[w].expected /\ req'[w] = r
    BY <1>0, <2>1, <2>2 DEF CloseRequest, ColumnsOK
  <2>4. st[s] = "OPEN" /\ r.expected = expected[s]
    BY <1>0, <2>1, <2>3 DEF SnapshotOK
  <2>5. SnapshotOK(req[w])'
    <3>1. st'[s] = "OPEN" /\ r.expected = expected'[s]
      BY <2>2, <2>4
    <3>2. req'[w].op = "close" /\ req'[w].s = s /\ req'[w].expected = r.expected
      BY <2>3
    <3>3. QED
      BY <3>1, <3>2 DEF SnapshotOK
  <2>6. Unblocked
    BY <2>2 DEF Unblocked
  <2>7. QED
    BY <1>0, <2>2, <2>5, <2>6, SessionsUntouched, OneSlot
<1>4. CASE CommitClose(w)
  <2>1. req[w] \in CloseRequest /\ req[w].op = "close"
    BY <1>0, <1>4, SlotKind DEF CommitClose, Takes
  <2> PICK s \in Sessions : req[w].s = s
    BY <2>1 DEF CloseRequest
  <2>2. /\ req' = [req EXCEPT ![w] = Idle]
        /\ st' = [st EXCEPT ![s] = req[w].to]
        /\ closing' = [closing EXCEPT ![s] = req[w].expected]
        /\ UNCHANGED expected
    BY <1>4 DEF CommitClose, Takes
  <2>3. st[s] = "OPEN" /\ req[w].expected = expected[s]
    BY <1>0, <2>1 DEF SnapshotOK
  <2>4. st'[s] \in Closed \cup {"BLOCKED"} /\ closing'[s] = expected'[s]
    BY <1>0, <2>1, <2>2, <2>3 DEF ColumnsOK, CloseRequest
  <2>5. \A x \in Sessions \ {s} : st'[x] = st[x] /\ closing'[x] = closing[x]
    BY <1>0, <2>2 DEF ColumnsOK
  <2>6. OneIsOpen'
    BY <1>0, <2>4, <2>5 DEF OneIsOpen, Open, Closed
  <2>7. Books'
    BY <1>0, <2>2, <2>4, <2>5 DEF Books
  <2>8. req'[w] = Idle /\ Unblocked
    BY <1>0, <2>2, <2>3, <2>5 DEF ColumnsOK, Unblocked
  <2>9. QED
    BY <1>0, <2>6, <2>7, <2>8, OneSlot
<1>5. CASE CommitOverride(w)
  <2>1. req[w] \in OverrideRequest /\ req[w].op = "override"
    BY <1>0, <1>5, SlotKind DEF CommitOverride
  <2> PICK s \in Sessions : req[w].s = s
    BY <2>1 DEF OverrideRequest
  <2> PICK r : r = [req[w] EXCEPT !.op = "overrideAudit"]
    OBVIOUS
  <2>2. /\ req' = [req EXCEPT ![w] = r]
        /\ st' = [st EXCEPT ![s] = "CLOSED_WITH_DISCREPANCY"]
        /\ overridden' = overridden \cup {s}
        /\ UNCHANGED <<expected, closing>>
    BY <1>5 DEF CommitOverride
  <2>3. st[s] = "BLOCKED" /\ st'[s] = "CLOSED_WITH_DISCREPANCY" /\ s \in overridden'
    BY <1>0, <2>1, <2>2 DEF SnapshotOK, ColumnsOK
  <2>4. \A x \in Sessions \ {s} : st'[x] = st[x]
    BY <1>0, <2>2 DEF ColumnsOK
  <2>5. OneIsOpen'
    BY <1>0, <2>3, <2>4 DEF OneIsOpen, Open
  <2>6. Books'
    BY <1>0, <2>2, <2>3, <2>4 DEF Books
  <2>7. req'[w].op = "overrideAudit"
    BY <1>0, <2>1, <2>2 DEF OverrideRequest, ColumnsOK
  <2>8. SnapshotOK(req[w])'
    BY <2>7 DEF SnapshotOK
  <2>9. Unblocked
    BY <2>3, <2>4 DEF Unblocked
  <2>10. QED
    BY <1>0, <2>5, <2>6, <2>8, <2>9, OneSlot
<1>6. CASE CommitOverrideAudit(w)
  <2>1. req' = [req EXCEPT ![w] = Idle] /\ UNCHANGED <<st, expected, closing>>
    BY <1>6 DEF CommitOverrideAudit, Takes
  <2>2. req'[w] = Idle /\ Unblocked
    BY <1>0, <2>1 DEF ColumnsOK, Unblocked
  <2>3. QED
    BY <1>0, <2>1, <2>2, SessionsUntouched, OneSlot
<1>7. QED
  BY <1>1, <1>2, <1>3, <1>4, <1>5, <1>6 DEF Commit

LEMMA QuietKeepsSerial ==
    ASSUME SerialState, ColumnsOK', UNCHANGED <<st, expected, closing, req>>
    PROVE  SerialState' /\ Unblocked
<1>1. OneIsOpen' /\ Books' /\ Unblocked
  BY SessionsUntouched DEF Unblocked
<1>2. \A w \in Workers : SnapshotOK(req[w])'
  BY DEF SerialState, SnapshotOK, Open
<1>3. QED
  BY <1>1, <1>2 DEF SerialState

\* A step of a worker moves its slot only, and the slot is busy on one side.
LEMMA WorkerStep ==
    ASSUME ColumnsOK, NEW w \in Workers, Begin(w) \/ Commit(w) \/ Fail(w)
    PROVE  /\ \A v \in Workers \ {w} : req'[v] = req[v]
           /\ req[w] # Idle \/ req'[w] # Idle
<1>1. ASSUME NEW r, Park(w, r), r.op # "idle"
      PROVE  (\A v \in Workers \ {w} : req'[v] = req[v]) /\ req'[w] # Idle
  BY <1>1 DEF Park, ColumnsOK, Idle
<1>2. CASE Begin(w)
  <2>1. CASE BeginOpen(w)
    BY <1>1, <2>1 DEF BeginOpen
  <2>2. ASSUME NEW s \in Sessions, NEW type \in TransactionType, NEW a \in Amounts,
               BeginTransaction(w, s, type, a)
        PROVE  (\A v \in Workers \ {w} : req'[v] = req[v]) /\ req'[w] # Idle
    BY <1>1, <2>2 DEF BeginTransaction
  <2>3. ASSUME NEW s \in Sessions, NEW a \in Amounts, BeginDesk(w, s, a)
        PROVE  (\A v \in Workers \ {w} : req'[v] = req[v]) /\ req'[w] # Idle
    BY <1>1, <2>3 DEF BeginDesk
  <2>4. ASSUME NEW s \in Sessions, NEW cash \in Cash, NEW just \in BOOLEAN,
               BeginClose(w, s, cash, just)
        PROVE  (\A v \in Workers \ {w} : req'[v] = req[v]) /\ req'[w] # Idle
    <3>1. PICK to, r :
            /\ r = [op |-> IF to = "BLOCKED" THEN "blockAudit" ELSE "close",
                    s |-> s, to |-> to, expected |-> expected[s],
                    diff |-> cash - expected[s], justified |-> just]
            /\ Park(w, r)
      BY <2>4 DEF BeginClose
    <3>2. r.op # "idle"
      BY <3>1
    <3>3. QED
      BY <1>1, <3>1, <3>2
  <2>5. ASSUME NEW s \in Sessions, BeginOverride(w, s)
        PROVE  (\A v \in Workers \ {w} : req'[v] = req[v]) /\ req'[w] # Idle
    BY <1>1, <2>5 DEF BeginOverride
  <2>6. QED
    BY <1>2, <2>1, <2>2, <2>3, <2>4, <2>5 DEF Begin
<1>3. CASE Commit(w)
  <2>1. PICK r : req' = [req EXCEPT ![w] = r]
    BY <1>3 DEF Commit, CommitOpen, CommitTransaction, CommitBlockAudit, CommitClose,
         CommitOverride, CommitOverrideAudit, Takes
  <2>2. req[w].op # "idle"
    BY <1>3 DEF Commit, CommitOpen, CommitTransaction, CommitBlockAudit, CommitClose,
         CommitOverride, CommitOverrideAudit, Takes
  <2>3. QED
    BY <2>1, <2>2 DEF ColumnsOK, Idle
<1>4. CASE Fail(w)
  BY <1>4 DEF Fail, ColumnsOK
<1>5. QED
  BY <1>2, <1>3, <1>4

\* ... so that, when it is alone, the others are idle.
LEMMA OthersIdle ==
    ASSUME ColumnsOK, Alone, Alone', NEW w \in Workers, Begin(w) \/ Commit(w) \/ Fail(w)
    PROVE  \A v \in Workers \ {w} : req'[v] = Idle
BY WorkerStep DEF Alone

LEMMA SerialStep ==
    ASSUME SerialState, Alone, Alone', [Act]_vars
    PROVE  SerialState' /\ Unblocked
<1>0. ColumnsOK /\ ColumnsOK'
  BY TypeStep DEF SerialState
<1>1. CASE NewDay
  BY <1>0, <1>1, QuietKeepsSerial DEF NewDay
<1>2. CASE UNCHANGED vars
  BY <1>0, <1>2, QuietKeepsSerial DEF vars
<1>3. ASSUME NEW w \in Workers, Fail(w) PROVE SerialState' /\ Unblocked
  <2>1. UNCHANGED <<st, expected, closing>> /\ req'[w] = Idle
    BY <1>0, <1>3 DEF Fail, session, ColumnsOK
  <2>2. Unblocked
    BY <2>1 DEF Unblocked
  <2>3. QED
    BY <1>0, <1>3, <2>1, <2>2, OthersIdle, SessionsUntouched, OneSlot
<1>4. ASSUME NEW w \in Workers, Begin(w) PROVE SerialState' /\ Unblocked
  BY <1>0, <1>4, OthersIdle, BeginKeepsSerial DEF Unblocked
<1>5. ASSUME NEW w \in Workers, Commit(w) PROVE SerialState' /\ Unblocked
  BY <1>0, <1>5, OthersIdle, CommitKeepsSerial
<1>6. QED
  BY <1>1, <1>2, <1>3, <1>4, <1>5 DEF Act

LEMMA OverlapStep ==
    ASSUME SerialInv, [Next]_vars
    PROVE  SerialInv' /\ (~overlap' => Unblocked)
<1>1. TypeOK'
  <2>1. overlap' \in BOOLEAN
    BY DEF SerialInv, TypeOK, Next, vars
  <2>2. QED
    BY <2>1, TypeStep, NextActs DEF SerialInv, TypeOK
<1>2. ASSUME ~overlap' PROVE ~overlap /\ Alone /\ Alone' /\ SerialState /\ [Act]_vars
  <2>1. CASE Next
    BY <1>2, <2>1 DEF Next, SerialInv
  <2>2. CASE UNCHANGED vars
    <3>1. overlap' = overlap /\ req' = req
      BY <2>2 DEF vars
    <3>2. ~overlap /\ Alone /\ SerialState
      BY <1>2, <3>1 DEF SerialInv
    <3>3. QED
      BY <2>2, <3>1, <3>2 DEF Alone
  <2>3. QED
    BY <2>1, <2>2
<1>3. QED
  BY <1>1, <1>2, SerialStep DEF SerialInv

\* SerialInv is an invariant: it holds until two requests overlap.
THEOREM SerialInvariant == Spec => []SerialInv
<1>1. Init => SerialInv
  BY SerialStateInit DEF SerialInv, SerialState, TypeOK, Init, Alone
<1>2. SerialInv /\ [Next]_vars => SerialInv'
  BY OverlapStep
<1>3. QED
  BY <1>1, <1>2, PTL DEF Spec

\* "A lo sumo una sesion OPEN a la vez" (openCashbox, finance.service.ts): the
\* check keeps its promise until two requests overlap.
THEOREM SerialOneOpen == Spec => []OneOpen
<1>1. SerialInv => OneOpen
  BY DEF SerialInv, SerialState, OneOpen
<1>2. QED
  BY <1>1, SerialInvariant, PTL

\* A closing that no transaction overlaps records the session's complete
\* books (registerTransaction and close-cashbox-session.use-case.ts).
THEOREM SerialBooks == Spec => []ClosedBooksComplete
<1>1. SerialInv => ClosedBooksComplete
  BY DEF SerialInv, SerialState, ClosedBooksComplete
<1>2. QED
  BY <1>1, SerialInvariant, PTL

\* A blocked session stays blocked until an owner overrides it, as long as
\* requests have not overlapped.
THEOREM SerialUnblocking == Spec => OnlyOwnerUnblocks
<1>1. SerialInv /\ [Next]_vars => (~overlap' => Unblocked)
  BY OverlapStep
<1>2. Spec => [][~overlap' => Unblocked]_vars
  BY <1>1, SerialInvariant, PTL DEF Spec
<1>3. QED
  BY <1>2 DEF Unblocked, OnlyOwnerUnblocks

\* How a session ended is explained by its row and by the audit log, however closings
\* and overrides interleave or stop half way.
THEOREM OutcomeIsOnRecord == Spec => []OutcomeOnRecord
<1>1. StatusExplained /\ AuditTrail => OutcomeOnRecord
  BY DEF OutcomeOnRecord
<1>2. QED
  BY <1>1, StatusIsExplained, AuditIsComplete, PTL

\* Until two requests overlap every sol of a day is counted in the one open session.
THEOREM SerialDay == Spec => []DayCountedOnce
<1>1. OneOpen /\ ClosedBooksComplete => DayCountedOnce
  BY DEF DayCountedOnce
<1>2. QED
  BY <1>1, SerialOneOpen, SerialBooks, PTL

-----------------------------------------------------------------------------
(* Alerts *)

\* The jobs of different names are different jobs.
LEMMA JobsDiffer ==
    /\ \A e \in Expenses : /\ <<"expense-approval-required", e>> \in Job
                           /\ <<"suspicious-expense", e>> \in Job
    /\ \A s \in Tills : <<"cashbox-blocked", s>> \in UnknownJob
    /\ \A i \in Items : <<"low-stock-alert", i>> \in UnknownJob
    /\ \A c \in Completions : <<"mechanic-efficiency", c>> \in Job
    /\ \A j \in UnknownJob : j \notin Job
BY DEF Job, ApprovalJob, BlockedJob, LowStockJob, EfficiencyJob, UnknownJob

\* Whoever is to report a completion is the only one.
LEMMA OneReport ==
    ASSUME CallsAreTrue, NEW v \in Workers, NEW c \in Completions,
           req[v] = <<Add(<<"mechanic-efficiency", c>>)>>
    PROVE  /\ Fresh(c)
           /\ \A u \in Workers : req[u] = <<Add(<<"mechanic-efficiency", c>>)>> => u = v
<1>1. /\ Len(req[v]) = 1 /\ req[v] # <<>>
      /\ req[v][1].do = "add" /\ req[v][1].job[1] = "mechanic-efficiency"
      /\ req[v][1].job[2] = c
  BY DEF Add
<1>2. ~Asking(v)
  <2> SUFFICES ASSUME NEW e \in Expenses,
                      req[v] \in {<<Add(<<"expense-approval-required", e>>)>>,
                                  <<Add(<<"suspicious-expense", e>>),
                                    Add(<<"expense-approval-required", e>>)>>}
               PROVE  FALSE
    BY DEF Asking
  <2>1. req[v][1].job[1] \in {"expense-approval-required", "suspicious-expense"}
    BY DEF Add
  <2> QED BY <1>1, <2>1
<1>3. ~Blocking(v)
  <2> SUFFICES ASSUME NEW s \in Tills,
                      req[v] \in {<<Add(<<"cashbox-blocked", s>>), [do |-> "emit", s |-> s],
                                    [do |-> "block", s |-> s]>>,
                                  <<[do |-> "emit", s |-> s], [do |-> "block", s |-> s]>>,
                                  <<[do |-> "block", s |-> s]>>}
               PROVE  FALSE
    BY DEF Blocking
  <2>1. Len(req[v]) # 1 \/ req[v][1].do = "block"
    OBVIOUS
  <2> QED BY <1>1, <2>1
<1>4. ~Warning(v)
  <2> SUFFICES ASSUME NEW i \in Items, req[v] = <<Add(<<"low-stock-alert", i>>)>>
               PROVE  FALSE
    BY DEF Warning
  <2>1. req[v][1].job[1] = "low-stock-alert"
    BY DEF Add
  <2> QED BY <1>1, <2>1
<1>5. PICK q \in Completions :
        /\ req[v] = <<Add(<<"mechanic-efficiency", q>>)>>
        /\ Fresh(q)
        /\ \A u \in Workers : req[u] = <<Add(<<"mechanic-efficiency", q>>)>> => u = v
  BY <1>1, <1>2, <1>3, <1>4 DEF CallsAreTrue, Reporting
<1>6. q = c
  <2>1. req[v][1].job[2] = q
    BY <1>5 DEF Add
  <2> QED BY <1>1, <2>1
<1> QED BY <1>5, <1>6

\* What a request that is not w has left is still true.
LEMMA CallsStay ==
    ASSUME CallsAreTrue, NEW v \in Workers, req'[v] = req[v],
           \A e \in Expenses : Requested(e) => Requested(e)',
           suspicious \subseteq suspicious', told \subseteq told',
           \A c \in Completions : Fresh(c) /\ req[v] = <<Add(<<"mechanic-efficiency", c>>)>> =>
               /\ Fresh(c)'
               /\ \A u \in Workers : req'[u] = <<Add(<<"mechanic-efficiency", c>>)>> => u = v
    PROVE  (req[v] = <<>> \/ Asking(v) \/ Blocking(v) \/ Warning(v) \/ Reporting(v))'
<1>1. CASE req[v] = <<>>
  BY <1>1
<1>2. CASE Asking(v)
  <2>1. PICK e \in Expenses :
          /\ Requested(e)
          /\ \/ req[v] = <<Add(<<"expense-approval-required", e>>)>>
             \/ /\ e \in suspicious
                /\ req[v] = <<Add(<<"suspicious-expense", e>>), Add(<<"expense-approval-required", e>>)>>
    BY <1>2 DEF Asking
  <2>2. /\ Requested(e)'
        /\ \/ req'[v] = <<Add(<<"expense-approval-required", e>>)>>
           \/ /\ e \in suspicious'
              /\ req'[v] = <<Add(<<"suspicious-expense", e>>), Add(<<"expense-approval-required", e>>)>>
    BY <2>1
  <2>3. Asking(v)'
    BY <2>2 DEF Asking, Add
  <2> QED BY <2>3
<1>3. CASE Blocking(v)
  BY <1>3 DEF Blocking, Add
<1>4. CASE Warning(v)
  BY <1>4 DEF Warning, Add
<1>5. CASE Reporting(v)
  <2>1. PICK c \in Completions : Fresh(c) /\ req[v] = <<Add(<<"mechanic-efficiency", c>>)>>
    BY <1>5 DEF Reporting
  <2>2. /\ Fresh(c)' /\ req'[v] = <<Add(<<"mechanic-efficiency", c>>)>>
        /\ \A u \in Workers : req'[u] = <<Add(<<"mechanic-efficiency", c>>)>> => u = v
    BY <2>1
  <2>3. Reporting(v)'
    BY <2>2 DEF Reporting, Add
  <2> QED BY <2>3
<1> QED BY <1>1, <1>2, <1>3, <1>4, <1>5 DEF CallsAreTrue

\* A handler has written its row and leaves the calls cs.
LEMMA LeaveKeeps ==
    ASSUME AlertsInv, NEW w \in Workers, NEW cs \in Seq(Call), Leave(w, cs),
           expense' \in [Expenses -> {"none", "small", "pending"}],
           suspicious' \in SUBSET Expenses, blocked' = blocked,
           stock' \in [Items -> 0..MaxStock], completed' \in SUBSET Completions,
           working' \in SUBSET Orders, completing' \in [Orders -> 0..MaxCompletions], warned' = warned,
           \A e \in Expenses : Requested(e) => Requested(e)',
           suspicious \subseteq suspicious', completed \subseteq completed',
           (req[w] = <<>> \/ Asking(w) \/ Blocking(w) \/ Warning(w) \/ Reporting(w))',
           \A c \in completed : cs # <<Add(<<"mechanic-efficiency", c>>)>>
    PROVE  AlertsInv'
<1>1. /\ req \in [Workers -> Seq(Call)] /\ AlertsTypeOK
      /\ req' = [v \in Workers |-> IF v = w THEN cs ELSE req[v]]
      /\ UNCHANGED <<job, stalled, told, trail, lost>>
  BY DEF Leave, AlertsInv, AlertsTypeOK, queues
<1>2. AlertsTypeOK'
  BY <1>1 DEF AlertsTypeOK
<1>3. ASSUME NEW v \in Workers
      PROVE  (req[v] = <<>> \/ Asking(v) \/ Blocking(v) \/ Warning(v) \/ Reporting(v))'
  <2>1. CASE v = w
    BY <2>1
  <2>2. CASE v # w
    <3>1. req'[v] = req[v]
      BY <1>1, <2>2
    <3>2. ASSUME NEW c \in Completions, Fresh(c), req[v] = <<Add(<<"mechanic-efficiency", c>>)>>
          PROVE  /\ Fresh(c)'
                 /\ \A u \in Workers : req'[u] = <<Add(<<"mechanic-efficiency", c>>)>> => u = v
      <4>1. Fresh(c)' /\ c \in completed
        BY <1>1, <3>2 DEF Fresh
      <4>2. \A u \in Workers : req[u] = <<Add(<<"mechanic-efficiency", c>>)>> => u = v
        BY <3>2, OneReport DEF AlertsInv
      <4> QED BY <1>1, <4>1, <4>2
    <3> QED BY <1>1, <3>1, <3>2, CallsStay DEF AlertsInv
  <2> QED BY <2>1, <2>2
<1>4. CallsAreTrue'
  BY <1>3 DEF CallsAreTrue
<1>5. JobsAreTrue'
  BY <1>1 DEF AlertsInv, JobsAreTrue
<1>6. BlockedIsTold'
  BY <1>1 DEF AlertsInv, BlockedIsTold
<1>7. ToldIsTrue'
  BY <1>1 DEF AlertsInv, ToldIsTrue, Requested
<1> QED BY <1>2, <1>4, <1>5, <1>6, <1>7 DEF AlertsInv

\* The calls each handler leaves are calls.
LEMMA CallsAre ==
    /\ \A j \in Job \cup UnknownJob : Add(j) \in Call
    /\ \A s \in Tills : [do |-> "emit", s |-> s] \in Call /\ [do |-> "block", s |-> s] \in Call
    /\ <<>> \in Seq(Call)
    /\ \A a \in Call : <<a>> \in Seq(Call)
    /\ \A a, b \in Call : <<a, b>> \in Seq(Call)
    /\ \A a, b, c \in Call : <<a, b, c>> \in Seq(Call)
BY DEF Call, Add

\* What tells the report of a completion from any other list of calls.
LEMMA ReportIs ==
    ASSUME NEW c, NEW cs, cs = <<Add(<<"mechanic-efficiency", c>>)>>
    PROVE  Len(cs) = 1 /\ cs[1].do = "add" /\ cs[1].job[1] = "mechanic-efficiency" /\ cs[1].job[2] = c
BY DEF Add

LEMMA CreateExpenseKeeps ==
    ASSUME AlertsInv, NEW w \in Workers, NEW e \in Expenses,
           NEW small \in BOOLEAN, NEW isSuspicious \in BOOLEAN,
           CreateExpense(w, e, small, isSuspicious)
    PROVE  AlertsInv'
<1> DEFINE ask == Add(<<"expense-approval-required", e>>)
           warn == Add(<<"suspicious-expense", e>>)
<1>1. /\ expense' = [expense EXCEPT ![e] = IF small THEN "small" ELSE "pending"]
      /\ expense' \in [Expenses -> {"none", "small", "pending"}]
      /\ suspicious' = IF isSuspicious THEN suspicious \cup {e} ELSE suspicious
      /\ UNCHANGED <<blocked, stock, working, completing, completed, warned>>
      /\ expense[e] = "none"
  BY DEF CreateExpense, AlertsInv, AlertsTypeOK, work
<1>2. PICK cs : /\ Leave(w, cs)
                /\ cs = IF small THEN <<>>
                        ELSE IF isSuspicious THEN <<warn, ask>> ELSE <<ask>>
  BY DEF CreateExpense
<1>3. ask \in Call /\ warn \in Call
  BY CallsAre, JobsDiffer
<1>4. \/ small /\ cs = <<>>
      \/ ~small /\ isSuspicious /\ cs = <<warn, ask>>
      \/ ~small /\ ~isSuspicious /\ cs = <<ask>>
  BY <1>2
<1>5. cs \in Seq(Call)
  <2> HIDE DEF ask, warn
  <2> QED BY <1>3, <1>4, CallsAre
<1>6. \A q \in Expenses : Requested(q) => Requested(q)'
  BY <1>1 DEF Requested, AlertsInv, AlertsTypeOK
<1>7. req' = [req EXCEPT ![w] = cs] /\ req'[w] = cs
  BY <1>2 DEF Leave, AlertsInv, AlertsTypeOK
<1>8. (req[w] = <<>> \/ Asking(w))'
  <2>1. ~small => Requested(e)'
    BY <1>1 DEF Requested, AlertsInv, AlertsTypeOK
  <2>2. isSuspicious => e \in suspicious'
    BY <1>1
  <2>3. CASE small
    BY <1>4, <1>7, <2>3
  <2>4. CASE ~small
    <3>1. req'[w] = <<ask>> \/ (e \in suspicious' /\ req'[w] = <<warn, ask>>)
      BY <1>4, <1>7, <2>2, <2>4
    <3>2. Asking(w)'
      BY <2>1, <2>4, <3>1 DEF Asking, Add
    <3> QED BY <3>2
  <2> QED BY <2>3, <2>4
<1>9. \A c \in Completions : cs # <<Add(<<"mechanic-efficiency", c>>)>>
  <2>1. Len(cs) = 0 \/ cs[1].job[1] \in {"expense-approval-required", "suspicious-expense"}
    BY <1>4 DEF Add
  <2> QED BY <2>1, ReportIs
<1>10. suspicious' \in SUBSET Expenses /\ suspicious \subseteq suspicious'
  BY <1>1 DEF AlertsInv, AlertsTypeOK
<1>11. /\ stock' \in [Items -> 0..MaxStock] /\ completed' \in SUBSET Completions /\ completed \subseteq Completions
       /\ working' \in SUBSET Orders /\ completing' \in [Orders -> 0..MaxCompletions]
  BY <1>1 DEF AlertsInv, AlertsTypeOK
<1> QED BY <1>1, <1>2, <1>5, <1>6, <1>8, <1>9, <1>10, <1>11, LeaveKeeps

LEMMA BlockSessionKeeps ==
    ASSUME AlertsInv, NEW w \in Workers, NEW s \in Tills, BlockSession(w, s)
    PROVE  AlertsInv'
<1> DEFINE cs == <<Add(<<"cashbox-blocked", s>>), [do |-> "emit", s |-> s],
                   [do |-> "block", s |-> s]>>
<1>1. cs \in Seq(Call)
  <2>1. Add(<<"cashbox-blocked", s>>) \in Call
    BY CallsAre, JobsDiffer
  <2> QED BY <2>1, CallsAre
<1>2. /\ Leave(w, cs)
      /\ UNCHANGED <<expense, suspicious, blocked, stock, working, completing, completed, warned>>
  BY DEF BlockSession, money, work
<1>3. req'[w] = cs
  BY <1>2 DEF Leave, AlertsInv, AlertsTypeOK
<1>4. Blocking(w)'
  BY <1>3 DEF Blocking, Add
<1>5. \A c \in Completions : cs # <<Add(<<"mechanic-efficiency", c>>)>>
  <2>1. Len(cs) = 3
    OBVIOUS
  <2> QED BY <2>1, ReportIs
<1> HIDE DEF cs
<1>6. \A q \in Expenses : Requested(q) => Requested(q)'
  BY <1>2 DEF Requested
<1>7. /\ expense' \in [Expenses -> {"none", "small", "pending"}]
      /\ suspicious' \in SUBSET Expenses /\ blocked' = blocked
      /\ stock' \in [Items -> 0..MaxStock] /\ completed' \in SUBSET Completions
      /\ suspicious \subseteq suspicious' /\ completed \subseteq completed'
      /\ completed \subseteq Completions
      /\ working' \in SUBSET Orders /\ completing' \in [Orders -> 0..MaxCompletions]
  BY <1>2 DEF AlertsInv, AlertsTypeOK
<1> QED BY <1>1, <1>2, <1>4, <1>5, <1>6, <1>7, LeaveKeeps

LEMMA DispatchKeeps ==
    ASSUME AlertsInv, NEW w \in Workers, NEW i \in Items, Dispatch(w, i)
    PROVE  AlertsInv'
<1>1. PICK cs \in {<<>>, <<Add(<<"low-stock-alert", i>>)>>} : Leave(w, cs)
  BY DEF Dispatch
<1>2. cs \in Seq(Call)
  BY CallsAre, JobsDiffer
<1>3. req'[w] = cs
  BY <1>1 DEF Leave, AlertsInv, AlertsTypeOK
<1>4. (req[w] = <<>> \/ Warning(w))'
  BY <1>3 DEF Warning, Add
<1>5. \A c \in Completions : cs # <<Add(<<"mechanic-efficiency", c>>)>>
  <2>1. Len(cs) = 0 \/ cs[1].job[1] = "low-stock-alert"
    BY DEF Add
  <2> QED BY <2>1, ReportIs
<1>6. UNCHANGED <<expense, suspicious, blocked, working, completing, completed, warned>>
  BY DEF Dispatch, money, work
<1>7. stock' \in [Items -> 0..MaxStock]
  BY BoundsAssumption DEF Dispatch, AlertsInv, AlertsTypeOK
<1>8. \A q \in Expenses : Requested(q) => Requested(q)'
  BY <1>6 DEF Requested
<1>9. /\ expense' \in [Expenses -> {"none", "small", "pending"}]
      /\ suspicious' \in SUBSET Expenses /\ completed' \in SUBSET Completions /\ completed \subseteq Completions
      /\ working' \in SUBSET Orders /\ completing' \in [Orders -> 0..MaxCompletions]
  BY <1>6 DEF AlertsInv, AlertsTypeOK
<1> QED BY <1>1, <1>2, <1>4, <1>5, <1>6, <1>7, <1>8, <1>9, LeaveKeeps

\* The completion is a new one: nobody has begun its job, and one request will.
LEMMA CommitCompleteKeeps ==
    ASSUME AlertsInv, NEW w \in Workers, NEW o \in Orders, CommitComplete(w, o)
    PROVE  AlertsInv'
<1>0. PICK n \in 1..MaxCompletions :
        /\ <<o, n>> \notin completed /\ completed' = completed \cup {<<o, n>>}
        /\ Leave(w, <<Add(<<"mechanic-efficiency", <<o, n>> >>)>>)
  BY DEF CommitComplete
<1> DEFINE c == <<o, n>>
           cs == <<Add(<<"mechanic-efficiency", c>>)>>
<1>a. c \in Completions
  BY DEF Completions
<1>1. cs \in Seq(Call)
  BY <1>a, CallsAre, JobsDiffer
<1>2. /\ Leave(w, cs) /\ c \notin completed /\ completed' = completed \cup {c}
      /\ UNCHANGED <<expense, suspicious, blocked, stock, warned>>
  BY <1>0 DEF CommitComplete, money
<1>b. working' \in SUBSET Orders /\ completing' \in [Orders -> 0..MaxCompletions]
  <2>1. completing \in [Orders -> 0..MaxCompletions] /\ working \in SUBSET Orders
    BY DEF AlertsInv, AlertsTypeOK
  <2>2. completing[o] - 1 \in 0..MaxCompletions
    BY <2>1, BoundsAssumption DEF CommitComplete
  <2> QED BY <2>1, <2>2 DEF CommitComplete
<1> HIDE DEF c
<1>3. req' = [v \in Workers |-> IF v = w THEN cs ELSE req[v]]
  BY <1>2 DEF Leave, AlertsInv, AlertsTypeOK
<1>4. \A v \in Workers : req[v] # cs
  BY <1>a, <1>2, OneReport DEF Fresh, AlertsInv
<1>5. Fresh(c)'
  <2>1. trail[c] = 0
    <3>1. trail \in [Completions -> 0..2]
      BY DEF AlertsInv, AlertsTypeOK
    <3>2. ~(trail[c] > 0)
      BY <1>a, <1>2 DEF AlertsInv, ToldIsTrue
    <3> QED BY <1>a, <3>1, <3>2
  <2>2. job[<<"mechanic-efficiency", c>>] = "none"
    BY <1>a, <1>2 DEF AlertsInv, JobsAreTrue
  <2>3. <<"mechanic-efficiency", c>> \notin stalled
    BY <1>a, <1>2 DEF AlertsInv, JobsAreTrue
  <2> QED BY <1>2, <2>1, <2>2, <2>3 DEF Fresh, Leave, queues
<1>6. Reporting(w)'
  BY <1>a, <1>3, <1>4, <1>5 DEF Reporting, Add
<1>7. \A q \in completed : cs # <<Add(<<"mechanic-efficiency", q>>)>>
  <2>1. cs[1].job[2] = c
    BY DEF Add
  <2> QED BY <1>2, <2>1, ReportIs
<1> HIDE DEF cs
<1>8. \A q \in Expenses : Requested(q) => Requested(q)'
  BY <1>2 DEF Requested
<1>9. /\ expense' \in [Expenses -> {"none", "small", "pending"}]
      /\ suspicious' \in SUBSET Expenses /\ completed' \in SUBSET Completions
      /\ stock' \in [Items -> 0..MaxStock]
  BY <1>a, <1>2 DEF AlertsInv, AlertsTypeOK
<1> QED BY <1>1, <1>2, <1>b, <1>6, <1>7, <1>8, <1>9, LeaveKeeps

\* The lists of calls, with the first call and what is left after it.
AskLeft(w, e) == Requested(e) /\ First(w) = Add(<<"expense-approval-required", e>>)
                     /\ Tail(req[w]) = <<>>
WarnLeft(w, e) == Requested(e) /\ e \in suspicious
                     /\ First(w) = Add(<<"suspicious-expense", e>>)
                     /\ Tail(req[w]) = <<Add(<<"expense-approval-required", e>>)>>
QueueLeft(w, s) == First(w) = Add(<<"cashbox-blocked", s>>)
                     /\ Tail(req[w]) = <<[do |-> "emit", s |-> s], [do |-> "block", s |-> s]>>
EmitLeft(w, s) == First(w) = [do |-> "emit", s |-> s]
                     /\ Tail(req[w]) = <<[do |-> "block", s |-> s]>>
BlockLeft(w, s) == <<"anomaly:detected", s>> \in told
                     /\ First(w) = [do |-> "block", s |-> s] /\ Tail(req[w]) = <<>>
WarningLeft(w, i) == First(w) = Add(<<"low-stock-alert", i>>) /\ Tail(req[w]) = <<>>
ReportLeft(w, c) == /\ Fresh(c) /\ First(w) = Add(<<"mechanic-efficiency", c>>)
                    /\ Tail(req[w]) = <<>>
                    /\ req[w] = <<Add(<<"mechanic-efficiency", c>>)>>

LEMMA FirstLeft ==
    ASSUME CallsAreTrue, NEW w \in Workers, req[w] # <<>>
    PROVE  \/ \E e \in Expenses : AskLeft(w, e) \/ WarnLeft(w, e)
           \/ \E s \in Tills : QueueLeft(w, s) \/ EmitLeft(w, s) \/ BlockLeft(w, s)
           \/ \E i \in Items : WarningLeft(w, i)
           \/ \E c \in Completions : ReportLeft(w, c)
<1>0. /\ \A a : Head(<<a>>) = a /\ Tail(<<a>>) = <<>>
      /\ \A a, b : Head(<<a, b>>) = a /\ Tail(<<a, b>>) = <<b>>
      /\ \A a, b, c : Head(<<a, b, c>>) = a /\ Tail(<<a, b, c>>) = <<b, c>>
  OBVIOUS
<1>1. CASE Asking(w)
  <2>1. PICK e \in Expenses :
          /\ Requested(e)
          /\ \/ req[w] = <<Add(<<"expense-approval-required", e>>)>>
             \/ /\ e \in suspicious
                /\ req[w] = <<Add(<<"suspicious-expense", e>>), Add(<<"expense-approval-required", e>>)>>
    BY <1>1 DEF Asking
  <2>2. AskLeft(w, e) \/ WarnLeft(w, e)
    BY <1>0, <2>1 DEF AskLeft, WarnLeft, First
  <2> QED BY <2>2
<1>2. CASE Blocking(w)
  <2>1. PICK s \in Tills :
          \/ req[w] = <<Add(<<"cashbox-blocked", s>>), [do |-> "emit", s |-> s], [do |-> "block", s |-> s]>>
          \/ req[w] = <<[do |-> "emit", s |-> s], [do |-> "block", s |-> s]>>
          \/ <<"anomaly:detected", s>> \in told /\ req[w] = <<[do |-> "block", s |-> s]>>
    BY <1>2 DEF Blocking
  <2>2. QueueLeft(w, s) \/ EmitLeft(w, s) \/ BlockLeft(w, s)
    <3>1. CASE req[w] = <<Add(<<"cashbox-blocked", s>>), [do |-> "emit", s |-> s], [do |-> "block", s |-> s]>>
      BY <1>0, <3>1 DEF QueueLeft, First
    <3>2. CASE req[w] = <<[do |-> "emit", s |-> s], [do |-> "block", s |-> s]>>
      BY <1>0, <3>2 DEF EmitLeft, First
    <3>3. CASE <<"anomaly:detected", s>> \in told /\ req[w] = <<[do |-> "block", s |-> s]>>
      BY <1>0, <3>3 DEF BlockLeft, First
    <3> QED BY <2>1, <3>1, <3>2, <3>3
  <2> QED BY <2>2
<1>3. CASE Warning(w)
  BY <1>0, <1>3 DEF Warning, WarningLeft, First
<1>4. CASE Reporting(w)
  BY <1>0, <1>4 DEF Reporting, ReportLeft, First
<1> QED BY <1>1, <1>2, <1>3, <1>4 DEF CallsAreTrue

\* The first call is made: what is left of the request, and of the others, is true.
LEMMA DoneKeepsCalls ==
    ASSUME AlertsInv, NEW w \in Workers, req[w] # <<>>, Done(w),
           UNCHANGED <<expense, suspicious, completed, stalled, trail>>,
           told \subseteq told',
           \A s \in Tills : First(w) = [do |-> "emit", s |-> s] =>
               <<"anomaly:detected", s>> \in told',
           \A j \in Job : job'[j] = job[j] \/ First(w) = Add(j)
    PROVE  CallsAreTrue' /\ req' \in [Workers -> Seq(Call)]
<1>1. /\ req \in [Workers -> Seq(Call)]
      /\ req' = [v \in Workers |-> IF v = w THEN Tail(req[w]) ELSE req[v]]
  BY DEF Done, AlertsInv, AlertsTypeOK
<1>2. req'[w] = Tail(req[w])
  BY <1>1
<1>3. (req[w] = <<>> \/ Asking(w) \/ Blocking(w))'
  <2>1. ASSUME NEW e \in Expenses, AskLeft(w, e) \/ WarnLeft(w, e)
        PROVE  (req[w] = <<>> \/ Asking(w))'
    <3>1. Requested(e)'
      BY <2>1 DEF AskLeft, WarnLeft, Requested
    <3>2. req'[w] \in {<<>>, <<Add(<<"expense-approval-required", e>>)>>}
      BY <1>2, <2>1 DEF AskLeft, WarnLeft
    <3>3. CASE req'[w] # <<>>
      <4>1. Asking(w)'
        BY <3>1, <3>2, <3>3 DEF Asking, Add
      <4> QED BY <4>1
    <3> QED BY <3>3
  <2>2. ASSUME NEW s \in Tills, QueueLeft(w, s) \/ EmitLeft(w, s) \/ BlockLeft(w, s)
        PROVE  (req[w] = <<>> \/ Blocking(w))'
    <3>1. CASE QueueLeft(w, s)
      <4>1. Blocking(w)'
        BY <1>2, <3>1 DEF QueueLeft, Blocking, Add
      <4> QED BY <4>1
    <3>2. CASE EmitLeft(w, s)
      <4>1. Blocking(w)'
        BY <1>2, <3>2 DEF EmitLeft, Blocking, Add
      <4> QED BY <4>1
    <3>3. CASE BlockLeft(w, s)
      BY <1>2, <3>3 DEF BlockLeft
    <3> QED BY <2>2, <3>1, <3>2, <3>3
  <2>3. ASSUME NEW i \in Items, WarningLeft(w, i) PROVE req'[w] = <<>>
    BY <1>2, <2>3 DEF WarningLeft
  <2>4. ASSUME NEW c \in Completions, ReportLeft(w, c) PROVE req'[w] = <<>>
    BY <1>2, <2>4 DEF ReportLeft
  <2> QED BY <2>1, <2>2, <2>3, <2>4, FirstLeft DEF AlertsInv
<1>4. ASSUME NEW v \in Workers, v # w
      PROVE  (req[v] = <<>> \/ Asking(v) \/ Blocking(v) \/ Warning(v) \/ Reporting(v))'
  <2>1. req'[v] = req[v]
    BY <1>1, <1>4
  <2>2. \A e \in Expenses : Requested(e) => Requested(e)'
    BY DEF Requested
  <2>3. ASSUME NEW c \in Completions, Fresh(c), req[v] = <<Add(<<"mechanic-efficiency", c>>)>>
        PROVE  /\ Fresh(c)'
               /\ \A u \in Workers : req'[u] = <<Add(<<"mechanic-efficiency", c>>)>> => u = v
    <3>1. \A u \in Workers : req[u] = <<Add(<<"mechanic-efficiency", c>>)>> => u = v
      BY <2>3, OneReport DEF AlertsInv
    <3>2. First(w) # Add(<<"mechanic-efficiency", c>>)
      <4>1. SUFFICES ASSUME First(w) = Add(<<"mechanic-efficiency", c>>) PROVE FALSE
        OBVIOUS
      <4>2. First(w).do = "add" /\ First(w).job[1] = "mechanic-efficiency" /\ First(w).job[2] = c
        BY <4>1 DEF Add
      <4>3. PICK q \in Completions : ReportLeft(w, q)
        <5>1. \A e \in Expenses : ~AskLeft(w, e) /\ ~WarnLeft(w, e)
          BY <4>2 DEF AskLeft, WarnLeft, Add
        <5>2. \A s \in Tills : ~QueueLeft(w, s)
          BY <4>2 DEF QueueLeft, Add
        <5>4. \A s \in Tills : ~EmitLeft(w, s) /\ ~BlockLeft(w, s)
          <6> SUFFICES ASSUME NEW s \in Tills, EmitLeft(w, s) \/ BlockLeft(w, s) PROVE FALSE
            OBVIOUS
          <6>1. First(w).do \in {"emit", "block"}
            BY DEF EmitLeft, BlockLeft
          <6> QED BY <4>2, <6>1
        <5>3. \A i \in Items : ~WarningLeft(w, i)
          BY <4>2 DEF WarningLeft, Add
        <5> QED BY <5>1, <5>2, <5>3, <5>4, FirstLeft DEF AlertsInv
      <4>4. req[w] = <<Add(<<"mechanic-efficiency", c>>)>>
        BY <4>2, <4>3 DEF ReportLeft, Add
      <4> QED BY <1>4, <3>1, <4>4
    <3>3. job'[<<"mechanic-efficiency", c>>] = job[<<"mechanic-efficiency", c>>]
      BY <3>2, JobsDiffer
    <3>4. Fresh(c)'
      BY <2>3, <3>3 DEF Fresh
    <3>5. req'[w] # <<Add(<<"mechanic-efficiency", c>>)>>
      <4>1. Len(req'[w]) # 1 \/ req'[w][1].do = "block" \/ req'[w][1].job[1] = "expense-approval-required"
        <5>1. ASSUME NEW e \in Expenses, AskLeft(w, e) \/ WarnLeft(w, e)
              PROVE  Len(req'[w]) # 1 \/ req'[w][1].job[1] = "expense-approval-required"
          <6>1. req'[w] \in {<<>>, <<Add(<<"expense-approval-required", e>>)>>}
            BY <1>2, <5>1 DEF AskLeft, WarnLeft
          <6> QED BY <6>1 DEF Add
        <5>2. ASSUME NEW s \in Tills, QueueLeft(w, s) \/ EmitLeft(w, s) \/ BlockLeft(w, s)
              PROVE  Len(req'[w]) # 1 \/ req'[w][1].do = "block"
          <6>1. req'[w] \in {<<>>, <<[do |-> "block", s |-> s]>>,
                             <<[do |-> "emit", s |-> s], [do |-> "block", s |-> s]>>}
            BY <1>2, <5>2 DEF QueueLeft, EmitLeft, BlockLeft
          <6>2. CASE req'[w] = <<>>
            BY <6>2
          <6>3. CASE req'[w] = <<[do |-> "block", s |-> s]>>
            BY <6>3
          <6>4. CASE req'[w] = <<[do |-> "emit", s |-> s], [do |-> "block", s |-> s]>>
            BY <6>4
          <6> QED BY <6>1, <6>2, <6>3, <6>4
        <5>3. ASSUME NEW i \in Items, WarningLeft(w, i) PROVE Len(req'[w]) # 1
          <6>1. req'[w] = <<>>
            BY <1>2, <5>3 DEF WarningLeft
          <6> QED BY <6>1
        <5>4. ASSUME NEW q \in Completions, ReportLeft(w, q) PROVE Len(req'[w]) # 1
          BY <1>2, <5>4 DEF ReportLeft
        <5> QED BY <5>1, <5>2, <5>3, <5>4, FirstLeft DEF AlertsInv
      <4> QED BY <4>1, ReportIs
    <3> QED BY <1>1, <3>1, <3>4, <3>5
  <2> QED BY <2>1, <2>2, <2>3, CallsStay DEF AlertsInv
<1>5. req' \in [Workers -> Seq(Call)]
  BY <1>1
<1>6. CallsAreTrue'
  BY <1>3, <1>4 DEF CallsAreTrue
<1> QED BY <1>5, <1>6

LEMMA AddJobKeeps ==
    ASSUME AlertsInv, NEW w \in Workers, AddJob(w)
    PROVE  AlertsInv'
<1>1. /\ req[w] # <<>> /\ First(w).do = "add" /\ Done(w)
      /\ job' = [j \in Job |-> IF j = First(w).job THEN "waiting" ELSE job[j]]
      /\ UNCHANGED <<expense, suspicious, blocked, stock, working, completing, completed, stalled,
                     told, warned, trail, lost>>
  BY DEF AddJob, money, work, emitted
<1>2. job \in [Job -> {"none", "waiting", "active", "handled"}]
  BY DEF AlertsInv, AlertsTypeOK
<1>3. job' \in [Job -> {"none", "waiting", "active", "handled"}]
  BY <1>1, <1>2
<1>4. ASSUME NEW e \in Expenses, AskLeft(w, e) \/ WarnLeft(w, e)
      PROVE  \/ /\ First(w) = Add(<<"expense-approval-required", e>>) /\ Requested(e)
             \/ /\ First(w) = Add(<<"suspicious-expense", e>>) /\ e \in suspicious
  BY <1>4 DEF AskLeft, WarnLeft
<1>5. \/ \E e \in Expenses :
            /\ First(w) \in {Add(<<"expense-approval-required", e>>), Add(<<"suspicious-expense", e>>)}
            /\ First(w).job[1] = "expense-approval-required" => Requested(e)
            /\ First(w).job[1] = "suspicious-expense" => e \in suspicious
      \/ \E s \in Tills : First(w) = Add(<<"cashbox-blocked", s>>)
      \/ \E i \in Items : First(w) = Add(<<"low-stock-alert", i>>)
      \/ \E c \in Completions : First(w) = Add(<<"mechanic-efficiency", c>>) /\ Fresh(c)
  <2>1. ASSUME NEW s \in Tills PROVE ~EmitLeft(w, s) /\ ~BlockLeft(w, s)
    <3>1. EmitLeft(w, s) \/ BlockLeft(w, s) => First(w).do \in {"emit", "block"}
      BY DEF EmitLeft, BlockLeft
    <3> QED BY <1>1, <3>1
  <2>2. ASSUME NEW e \in Expenses, AskLeft(w, e) \/ WarnLeft(w, e)
        PROVE  /\ First(w) \in {Add(<<"expense-approval-required", e>>), Add(<<"suspicious-expense", e>>)}
               /\ First(w).job[1] = "expense-approval-required" => Requested(e)
               /\ First(w).job[1] = "suspicious-expense" => e \in suspicious
    BY <1>4, <2>2 DEF Add
  <2>3. ASSUME NEW s \in Tills, QueueLeft(w, s) PROVE First(w) = Add(<<"cashbox-blocked", s>>)
    BY <2>3 DEF QueueLeft
  <2>4. ASSUME NEW i \in Items, WarningLeft(w, i) PROVE First(w) = Add(<<"low-stock-alert", i>>)
    BY <2>4 DEF WarningLeft
  <2>5. ASSUME NEW c \in Completions, ReportLeft(w, c)
        PROVE  First(w) = Add(<<"mechanic-efficiency", c>>) /\ Fresh(c)
    BY <2>5 DEF ReportLeft
  <2> QED BY <1>1, <2>1, <2>2, <2>3, <2>4, <2>5, FirstLeft DEF AlertsInv
<1>6. PICK j \in Job \cup UnknownJob : First(w) = Add(j)
  BY <1>5, JobsDiffer
<1>7. First(w).job = j
  BY <1>6 DEF Add
<1>8. \A k \in Job : job'[k] = job[k] \/ k = j
  BY <1>1, <1>7
<1>9. CallsAreTrue' /\ req' \in [Workers -> Seq(Call)]
  <2>1. \A s \in Tills : First(w) # [do |-> "emit", s |-> s]
    BY <1>1
  <2>2. \A k \in Job : job'[k] = job[k] \/ First(w) = Add(k)
    BY <1>6, <1>8
  <2> QED BY <1>1, <2>1, <2>2, DoneKeepsCalls
<1>10. AlertsTypeOK'
  BY <1>1, <1>3, <1>9 DEF AlertsInv, AlertsTypeOK
<1>11. JobsAreTrue'
  <2>1. ASSUME NEW e \in Expenses
        PROVE  /\ job'[<<"expense-approval-required", e>>] # "none" => Requested(e)
               /\ job'[<<"suspicious-expense", e>>] # "none" => e \in suspicious
    <3>1. <<"expense-approval-required", e>> = j => Requested(e)
      BY <1>5, <1>7 DEF Add
    <3>2. <<"suspicious-expense", e>> = j => e \in suspicious
      BY <1>5, <1>7 DEF Add
    <3> QED BY <1>8, <3>1, <3>2, JobsDiffer DEF AlertsInv, JobsAreTrue
  <2>2. ASSUME NEW c \in Completions, <<"mechanic-efficiency", c>> = j
        PROVE  Fresh(c) /\ job'[j] = "waiting"
    <3>1. Fresh(c)
      BY <1>5, <1>7, <2>2 DEF Add
    <3> QED BY <1>1, <1>7, <2>2, <3>1, JobsDiffer DEF Fresh
  <2>3. ASSUME NEW c \in Completions
        PROVE  LET k == <<"mechanic-efficiency", c>>
                   dead == IF k \in stalled THEN 1 ELSE 0
               IN /\ job'[k] # "none" \/ k \in stalled => c \in completed
                  /\ job'[k] \in {"waiting", "active"} => trail[c] <= dead
                  /\ job'[k] = "handled" => trail[c] <= dead + 1
    BY <1>8, <2>2, JobsDiffer DEF AlertsInv, JobsAreTrue, Fresh
  <2> QED BY <1>1, <2>1, <2>3 DEF JobsAreTrue, Requested
<1>12. BlockedIsTold' /\ ToldIsTrue'
  BY <1>1 DEF AlertsInv, BlockedIsTold, ToldIsTrue
<1> QED BY <1>9, <1>10, <1>11, <1>12 DEF AlertsInv

LEMMA EmitBlockedKeeps ==
    ASSUME AlertsInv, NEW w \in Workers, EmitBlocked(w)
    PROVE  AlertsInv'
<1>1. /\ req[w] # <<>> /\ First(w).do = "emit" /\ Done(w)
      /\ told' = told \cup {<<"anomaly:detected", First(w).s>>}
      /\ UNCHANGED <<expense, suspicious, blocked, stock, working, completing, completed, job, stalled,
                     warned, trail, lost>>
  BY DEF EmitBlocked, money, work, queues
<1>2. First(w).s \in Tills
  <2>1. PICK s \in Tills : EmitLeft(w, s)
    <3>1. \A e \in Expenses : AskLeft(w, e) \/ WarnLeft(w, e) => First(w).do = "add"
      BY DEF AskLeft, WarnLeft, Add
    <3>2. \A s \in Tills : /\ QueueLeft(w, s) => First(w).do = "add"
                           /\ BlockLeft(w, s) => First(w).do = "block"
      BY DEF QueueLeft, BlockLeft, Add
    <3>3. \A i \in Items : WarningLeft(w, i) => First(w).do = "add"
      BY DEF WarningLeft, Add
    <3>4. \A c \in Completions : ReportLeft(w, c) => First(w).do = "add"
      BY DEF ReportLeft, Add
    <3> QED BY <1>1, <3>1, <3>2, <3>3, <3>4, FirstLeft DEF AlertsInv
  <2> QED BY <2>1 DEF EmitLeft
<1>3. told' \in SUBSET Event
  BY <1>1, <1>2 DEF AlertsInv, AlertsTypeOK, Event
<1>4. \A s \in Tills : First(w) = [do |-> "emit", s |-> s] => <<"anomaly:detected", s>> \in told'
  BY <1>1
<1>5. CallsAreTrue' /\ req' \in [Workers -> Seq(Call)]
  BY <1>1, <1>4, DoneKeepsCalls
<1>6. AlertsTypeOK'
  BY <1>1, <1>3, <1>5 DEF AlertsInv, AlertsTypeOK
<1>7. JobsAreTrue'
  BY <1>1 DEF AlertsInv, JobsAreTrue, Requested
<1>8. BlockedIsTold' /\ ToldIsTrue'
  BY <1>1 DEF AlertsInv, BlockedIsTold, ToldIsTrue
<1> QED BY <1>5, <1>6, <1>7, <1>8 DEF AlertsInv

\* The session is blocked last: the dashboards have been told.
LEMMA CommitBlockedKeeps ==
    ASSUME AlertsInv, NEW w \in Workers, CommitBlocked(w)
    PROVE  AlertsInv'
<1>1. /\ req[w] # <<>> /\ First(w).do = "block" /\ Done(w)
      /\ blocked' = blocked \cup {First(w).s}
      /\ UNCHANGED <<expense, suspicious, stock, working, completing, completed, job, stalled, told,
                     warned, trail, lost>>
  BY DEF CommitBlocked, work, queues, emitted
<1>2. First(w).s \in Tills /\ <<"anomaly:detected", First(w).s>> \in told
  <2>1. PICK s \in Tills : BlockLeft(w, s)
    <3>1. \A e \in Expenses : AskLeft(w, e) \/ WarnLeft(w, e) => First(w).do = "add"
      BY DEF AskLeft, WarnLeft, Add
    <3>2. \A s \in Tills : /\ QueueLeft(w, s) => First(w).do = "add"
                           /\ EmitLeft(w, s) => First(w).do = "emit"
      BY DEF QueueLeft, EmitLeft, Add
    <3>3. \A i \in Items : WarningLeft(w, i) => First(w).do = "add"
      BY DEF WarningLeft, Add
    <3>4. \A c \in Completions : ReportLeft(w, c) => First(w).do = "add"
      BY DEF ReportLeft, Add
    <3> QED BY <1>1, <3>1, <3>2, <3>3, <3>4, FirstLeft DEF AlertsInv
  <2> QED BY <2>1 DEF BlockLeft
<1>3. CallsAreTrue' /\ req' \in [Workers -> Seq(Call)]
  <2>1. \A s \in Tills : First(w) # [do |-> "emit", s |-> s]
    BY <1>1
  <2> QED BY <1>1, <2>1, DoneKeepsCalls
<1>4. AlertsTypeOK'
  BY <1>1, <1>2, <1>3 DEF AlertsInv, AlertsTypeOK
<1>5. JobsAreTrue'
  BY <1>1 DEF AlertsInv, JobsAreTrue, Requested
<1>6. BlockedIsTold' /\ ToldIsTrue'
  BY <1>1, <1>2 DEF AlertsInv, BlockedIsTold, ToldIsTrue
<1> QED BY <1>3, <1>4, <1>5, <1>6 DEF AlertsInv

\* A step that leaves the handlers' rows and lists alone.
LEMMA QuietKeepsCalls ==
    ASSUME AlertsInv, UNCHANGED <<suspicious, completed, req>>, told \subseteq told',
           \A e \in Expenses : Requested(e) => Requested(e)',
           \A c \in Completions : Fresh(c) => Fresh(c)'
    PROVE  CallsAreTrue'
<1> SUFFICES ASSUME NEW v \in Workers
             PROVE  (req[v] = <<>> \/ Asking(v) \/ Blocking(v) \/ Warning(v) \/ Reporting(v))'
  BY DEF CallsAreTrue
<1>1. \A c \in Completions : Fresh(c) /\ req[v] = <<Add(<<"mechanic-efficiency", c>>)>> =>
        /\ Fresh(c)'
        /\ \A u \in Workers : req'[u] = <<Add(<<"mechanic-efficiency", c>>)>> => u = v
  BY OneReport DEF AlertsInv
<1> QED BY <1>1, CallsStay DEF AlertsInv

\* The jobs that are followed, by their names.
LEMMA JobParts ==
    ASSUME NEW j \in Job
    PROVE  /\ j[1] = "expense-approval-required" => j[2] \in Expenses
           /\ j[1] = "suspicious-expense" => j[2] \in Expenses
           /\ j[1] = "mechanic-efficiency" => j[2] \in Completions
           /\ j = <<j[1], j[2]>>
           /\ j[2] \in Expenses \cup Completions
BY DEF Job, ApprovalJob, EfficiencyJob

LEMMA AlertsFailKeeps ==
    ASSUME AlertsInv, NEW w \in Workers, AlertsFail(w)
    PROVE  AlertsInv'
<1>1. /\ req' = [v \in Workers |-> IF v = w THEN <<>> ELSE req[v]]
      /\ req \in [Workers -> Seq(Call)]
      /\ lost' = lost \cup Subjects(req[w])
      /\ UNCHANGED <<expense, suspicious, blocked, stock, working, completing, completed, job, stalled,
                     told, warned, trail>>
  BY DEF AlertsFail, money, work, queues, emitted, AlertsInv, AlertsTypeOK
<1>2. lost' \in SUBSET (Expenses \cup Completions)
  <2>1. \A j \in Job : j[2] \in Expenses \cup Completions
    BY JobParts
  <2>2. Subjects(req[w]) \subseteq Expenses \cup Completions
    BY <2>1 DEF Subjects
  <2> QED BY <1>1, <2>2 DEF AlertsInv, AlertsTypeOK
<1>3. AlertsTypeOK'
  BY <1>1, <1>2 DEF AlertsInv, AlertsTypeOK
<1>4. ASSUME NEW v \in Workers
      PROVE  (req[v] = <<>> \/ Asking(v) \/ Blocking(v) \/ Warning(v) \/ Reporting(v))'
  <2>1. CASE v = w
    BY <1>1, <2>1
  <2>2. CASE v # w
    <3>1. req'[v] = req[v]
      BY <1>1, <2>2
    <3>2. \A e \in Expenses : Requested(e) => Requested(e)'
      BY <1>1 DEF Requested
    <3>3. ASSUME NEW c \in Completions, Fresh(c), req[v] = <<Add(<<"mechanic-efficiency", c>>)>>
          PROVE  /\ Fresh(c)'
                 /\ \A u \in Workers : req'[u] = <<Add(<<"mechanic-efficiency", c>>)>> => u = v
      <4>1. Fresh(c)'
        BY <1>1, <3>3 DEF Fresh
      <4>2. \A u \in Workers : req[u] = <<Add(<<"mechanic-efficiency", c>>)>> => u = v
        BY <3>3, OneReport DEF AlertsInv
      <4>3. <<>> # <<Add(<<"mechanic-efficiency", c>>)>>
        OBVIOUS
      <4> QED BY <1>1, <4>1, <4>2, <4>3
    <3> QED BY <1>1, <3>1, <3>2, <3>3, CallsStay DEF AlertsInv
  <2> QED BY <2>1, <2>2
<1>5. CallsAreTrue'
  BY <1>4 DEF CallsAreTrue
<1>6. JobsAreTrue'
  BY <1>1 DEF AlertsInv, JobsAreTrue, Requested
<1>7. BlockedIsTold' /\ ToldIsTrue'
  BY <1>1 DEF AlertsInv, BlockedIsTold, ToldIsTrue
<1> QED BY <1>3, <1>5, <1>6, <1>7 DEF AlertsInv

\* A job that is under way moves on, and nothing else does.
LEMMA JobMovesKeepsCalls ==
    ASSUME AlertsInv, NEW j \in Job, job[j] # "none",
           UNCHANGED <<expense, suspicious, completed, req>>, told \subseteq told',
           \A k \in Job : k # j => job'[k] = job[k] /\ (k \in stalled' <=> k \in stalled),
           \A c \in Completions : <<"mechanic-efficiency", c>> # j => trail'[c] = trail[c]
    PROVE  CallsAreTrue'
<1>1. ASSUME NEW c \in Completions, Fresh(c) PROVE Fresh(c)'
  <2>1. <<"mechanic-efficiency", c>> \in Job /\ <<"mechanic-efficiency", c>> # j
    BY <1>1, JobsDiffer DEF Fresh
  <2> QED BY <1>1, <2>1 DEF Fresh
<1>2. \A e \in Expenses : Requested(e) => Requested(e)'
  BY DEF Requested
<1> QED BY <1>1, <1>2, QuietKeepsCalls

\* What happens to an order or an item between the handlers is nobody's news yet.
LEMMA QuietKeeps ==
    ASSUME AlertsInv,
           UNCHANGED <<expense, suspicious, blocked, completed, job, stalled, told, trail, lost, req>>,
           stock' \in [Items -> 0..MaxStock], working' \in SUBSET Orders,
           completing' \in [Orders -> 0..MaxCompletions], warned' \in SUBSET Items
    PROVE  AlertsInv'
<1>1. CallsAreTrue'
  BY QuietKeepsCalls DEF Requested, Fresh
<1>2. AlertsTypeOK'
  BY DEF AlertsInv, AlertsTypeOK
<1>3. JobsAreTrue' /\ BlockedIsTold' /\ ToldIsTrue'
  BY DEF AlertsInv, JobsAreTrue, BlockedIsTold, ToldIsTrue, Requested
<1> QED BY <1>1, <1>2, <1>3 DEF AlertsInv

LEMMA RestockKeeps ==
    ASSUME AlertsInv, NEW i \in Items, Restock(i)
    PROVE  AlertsInv'
<1>1. /\ stock \in [Items -> 0..MaxStock] /\ warned \in SUBSET Items
      /\ working \in SUBSET Orders /\ completing \in [Orders -> 0..MaxCompletions]
  BY DEF AlertsInv, AlertsTypeOK
<1>2. stock[i] + 1 \in 0..MaxStock
  BY <1>1, BoundsAssumption DEF Restock
<1>3. stock' \in [Items -> 0..MaxStock] /\ warned' \in SUBSET Items
  BY <1>1, <1>2 DEF Restock
<1>4. UNCHANGED <<expense, suspicious, blocked, working, completing, completed, job, stalled, told,
                  trail, lost, req>>
  BY DEF Restock, money, work, queues
<1> QED BY <1>1, <1>3, <1>4, QuietKeeps

LEMMA OrderKeeps ==
    ASSUME AlertsInv, NEW o \in Orders, SetStatus(o) \/ BeginComplete(o) \/ AbandonComplete(o)
    PROVE  AlertsInv'
<1>1. /\ stock \in [Items -> 0..MaxStock] /\ warned \in SUBSET Items
      /\ working \in SUBSET Orders /\ completing \in [Orders -> 0..MaxCompletions]
  BY DEF AlertsInv, AlertsTypeOK
<1>2. UNCHANGED <<expense, suspicious, blocked, stock, completed, job, stalled, told, warned, trail,
                  lost, req>>
  BY DEF SetStatus, BeginComplete, AbandonComplete, money, queues, emitted
<1>3. completing' \in [Orders -> 0..MaxCompletions]
  <2>1. CASE SetStatus(o)
    BY <1>1, <2>1 DEF SetStatus
  <2>2. CASE BeginComplete(o)
    <3>1. completing[o] + 1 \in 0..MaxCompletions
      BY <1>1, <2>2, BoundsAssumption DEF BeginComplete, Room
    <3> QED BY <1>1, <2>2, <3>1 DEF BeginComplete
  <2>3. CASE AbandonComplete(o)
    <3>1. completing[o] - 1 \in 0..MaxCompletions
      BY <1>1, <2>3, BoundsAssumption DEF AbandonComplete
    <3> QED BY <1>1, <2>3, <3>1 DEF AbandonComplete
  <2> QED BY <2>1, <2>2, <2>3
<1>4. working' \in SUBSET Orders
  BY <1>1 DEF SetStatus, BeginComplete, AbandonComplete
<1> QED BY <1>1, <1>2, <1>3, <1>4, QuietKeeps

LEMMA CheckInventoryLevelsKeeps ==
    ASSUME AlertsInv, CheckInventoryLevels
    PROVE  AlertsInv'
<1>1. /\ stock \in [Items -> 0..MaxStock] /\ warned \in SUBSET Items
      /\ working \in SUBSET Orders /\ completing \in [Orders -> 0..MaxCompletions]
  BY DEF AlertsInv, AlertsTypeOK
<1>2. warned' \in SUBSET Items
  BY <1>1, BoundsAssumption DEF CheckInventoryLevels
<1>3. UNCHANGED <<expense, suspicious, blocked, stock, working, completing, completed, job, stalled,
                  told, trail, lost, req>>
  BY DEF CheckInventoryLevels, money, work, queues
<1> QED BY <1>1, <1>2, <1>3, QuietKeeps

LEMMA TakeKeeps ==
    ASSUME AlertsInv, NEW j \in Job, Take(j)
    PROVE  AlertsInv'
<1>1. /\ job \in [Job -> {"none", "waiting", "active", "handled"}]
      /\ job[j] = "waiting" /\ job' = [job EXCEPT ![j] = "active"]
      /\ UNCHANGED <<expense, suspicious, blocked, stock, working, completing, completed, stalled, told,
                     warned, trail, lost, req>>
  BY DEF Take, money, work, emitted, AlertsInv, AlertsTypeOK
<1>2. CallsAreTrue'
  BY <1>1, JobMovesKeepsCalls
<1>3. AlertsTypeOK'
  BY <1>1 DEF AlertsInv, AlertsTypeOK
<1>4. JobsAreTrue'
  BY <1>1, JobsDiffer DEF AlertsInv, JobsAreTrue, Requested
<1>5. BlockedIsTold' /\ ToldIsTrue'
  BY <1>1 DEF AlertsInv, BlockedIsTold, ToldIsTrue
<1> QED BY <1>2, <1>3, <1>4, <1>5 DEF AlertsInv

\* The processor emits for a job what its request was about.
LEMMA ProcessKeeps ==
    ASSUME AlertsInv, NEW j \in Job, Process(j)
    PROVE  AlertsInv'
<1>1. /\ job \in [Job -> {"none", "waiting", "active", "handled"}]
      /\ trail \in [Completions -> 0..2]
      /\ job[j] = "active" /\ job' = [job EXCEPT ![j] = "handled"]
      /\ told' = told \cup Emits(j)
      /\ trail' = IF j[1] = "mechanic-efficiency" THEN [trail EXCEPT ![j[2]] = @ + 1] ELSE trail
      /\ UNCHANGED <<expense, suspicious, blocked, stock, working, completing, completed, stalled,
                     warned, lost, req>>
  BY DEF Process, money, work, AlertsInv, AlertsTypeOK
<1>2. ASSUME NEW c \in Completions, <<"mechanic-efficiency", c>> # j PROVE trail'[c] = trail[c]
  <2>1. j[1] = "mechanic-efficiency" => j[2] # c
    BY <1>2, JobParts
  <2> QED BY <1>1, <2>1
<1>3. CallsAreTrue'
  BY <1>1, <1>2, JobMovesKeepsCalls
<1>4. /\ Emits(j) \in SUBSET Event
      /\ \A e \in Expenses :
           /\ <<"approval:requested", e>> \in Emits(j) => j = <<"expense-approval-required", e>>
           /\ <<"alert:security", e>> \in Emits(j) => j = <<"suspicious-expense", e>>
  <2>1. CASE j[1] = "expense-approval-required"
    <3>1. Emits(j) = {<<"approval:requested", j[2]>>} /\ j[2] \in Expenses
      BY <2>1, JobParts DEF Emits
    <3> QED BY <2>1, <3>1, JobParts DEF Event
  <2>2. CASE j[1] = "suspicious-expense"
    <3>1. Emits(j) = {<<"alert:security", j[2]>>} /\ j[2] \in Expenses
      BY <2>2, JobParts DEF Emits
    <3> QED BY <2>2, <3>1, JobParts DEF Event
  <2>3. CASE ~(j[1] = "expense-approval-required") /\ ~(j[1] = "suspicious-expense")
    <3>1. Emits(j) = {}
      BY <2>3 DEF Emits
    <3> QED BY <3>1
  <2> QED BY <2>1, <2>2, <2>3
<1>5. ASSUME NEW c \in Completions, <<"mechanic-efficiency", c>> = j
      PROVE  /\ trail'[c] = trail[c] + 1 /\ job'[j] = "handled" /\ c \in completed
             /\ trail[c] <= (IF j \in stalled THEN 1 ELSE 0)
  <2>1. j[1] = "mechanic-efficiency" /\ j[2] = c
    BY <1>5
  <2> QED BY <1>1, <1>5, <2>1 DEF AlertsInv, JobsAreTrue
<1>6. trail' \in [Completions -> 0..2]
  <2>1. \A c \in Completions : trail'[c] \in 0..2
    BY <1>1, <1>2, <1>5
  <2>2. trail' \in [Completions -> Nat]
    <3>1. j[1] = "mechanic-efficiency" => j[2] \in Completions
      BY JobParts
    <3> QED BY <1>1, <3>1
  <2> QED BY <2>1, <2>2
<1>7. AlertsTypeOK'
  BY <1>1, <1>4, <1>6 DEF AlertsInv, AlertsTypeOK
<1>8. JobsAreTrue'
  <2>1. \A e \in Expenses :
          /\ job'[<<"expense-approval-required", e>>] # "none" => Requested(e)
          /\ job'[<<"suspicious-expense", e>>] # "none" => e \in suspicious
    BY <1>1, JobsDiffer DEF AlertsInv, JobsAreTrue
  <2>2. ASSUME NEW c \in Completions
        PROVE  LET k == <<"mechanic-efficiency", c>>
                   dead == IF k \in stalled THEN 1 ELSE 0
               IN /\ job'[k] # "none" \/ k \in stalled => c \in completed
                  /\ job'[k] \in {"waiting", "active"} => trail'[c] <= dead
                  /\ job'[k] = "handled" => trail'[c] <= dead + 1
    <3>1. CASE <<"mechanic-efficiency", c>> = j
      BY <1>1, <1>5, <3>1
    <3>2. CASE <<"mechanic-efficiency", c>> # j
      <4>1. job'[<<"mechanic-efficiency", c>>] = job[<<"mechanic-efficiency", c>>]
        BY <1>1, <3>2, JobsDiffer
      <4> QED BY <1>2, <3>2, <4>1 DEF AlertsInv, JobsAreTrue
    <3> QED BY <3>1, <3>2
  <2> QED BY <1>1, <2>1, <2>2 DEF JobsAreTrue, Requested
<1>9. BlockedIsTold'
  BY <1>1 DEF AlertsInv, BlockedIsTold
<1>10. ToldIsTrue'
  <2>1. ASSUME NEW e \in Expenses
        PROVE  /\ <<"approval:requested", e>> \in told' => Requested(e)
               /\ <<"alert:security", e>> \in told' => e \in suspicious
    BY <1>1, <1>4 DEF AlertsInv, JobsAreTrue, ToldIsTrue, Requested
  <2>2. ASSUME NEW c \in Completions
        PROVE  /\ trail'[c] > 0 => c \in completed
               /\ trail'[c] > 1 => <<"mechanic-efficiency", c>> \in stalled
    <3>1. CASE <<"mechanic-efficiency", c>> = j
      BY <1>1, <1>5, <3>1
    <3>2. CASE <<"mechanic-efficiency", c>> # j
      BY <1>2, <3>2 DEF AlertsInv, ToldIsTrue
    <3> QED BY <3>1, <3>2
  <2> QED BY <1>1, <2>1, <2>2 DEF ToldIsTrue, Requested
<1> QED BY <1>3, <1>7, <1>8, <1>9, <1>10 DEF AlertsInv

\* A job that is over, done or failed.
LEMMA JobEndsKeeps ==
    ASSUME AlertsInv, NEW j \in Job, Finish(j) \/ FailJob(j)
    PROVE  AlertsInv'
<1>1. /\ job \in [Job -> {"none", "waiting", "active", "handled"}]
      /\ job[j] # "none" /\ job' = [job EXCEPT ![j] = "none"]
      /\ UNCHANGED <<expense, suspicious, blocked, stock, working, completing, completed, stalled, told,
                     warned, trail, req>>
  BY DEF Finish, FailJob, money, work, emitted, AlertsInv, AlertsTypeOK
<1>2. lost' \in SUBSET (Expenses \cup Completions)
  BY JobParts DEF Finish, FailJob, AlertsInv, AlertsTypeOK
<1>3. CallsAreTrue'
  BY <1>1, JobMovesKeepsCalls
<1>4. AlertsTypeOK'
  BY <1>1, <1>2 DEF AlertsInv, AlertsTypeOK
<1>5. JobsAreTrue'
  BY <1>1, JobsDiffer DEF AlertsInv, JobsAreTrue, Requested
<1>6. BlockedIsTold' /\ ToldIsTrue'
  BY <1>1 DEF AlertsInv, BlockedIsTold, ToldIsTrue
<1> QED BY <1>3, <1>4, <1>5, <1>6 DEF AlertsInv

\* A job whose worker died once waits again; a second time it is over.
LEMMA StallKeeps ==
    ASSUME AlertsInv, NEW j \in Job, Stall(j)
    PROVE  AlertsInv'
<1>1. /\ job \in [Job -> {"none", "waiting", "active", "handled"}]
      /\ job[j] \in {"active", "handled"}
      /\ job' = [job EXCEPT ![j] = IF j \in stalled THEN "none" ELSE "waiting"]
      /\ stalled' = stalled \cup {j}
      /\ UNCHANGED <<expense, suspicious, blocked, stock, working, completing, completed, told, warned,
                     trail, req>>
  BY DEF Stall, money, work, emitted, AlertsInv, AlertsTypeOK
<1>2. lost' \in SUBSET (Expenses \cup Completions)
  BY JobParts DEF Stall, AlertsInv, AlertsTypeOK
<1>3. CallsAreTrue'
  BY <1>1, JobMovesKeepsCalls
<1>4. AlertsTypeOK'
  BY <1>1, <1>2 DEF AlertsInv, AlertsTypeOK
<1>5. JobsAreTrue'
  <2>1. \A e \in Expenses :
          /\ job'[<<"expense-approval-required", e>>] # "none" => Requested(e)
          /\ job'[<<"suspicious-expense", e>>] # "none" => e \in suspicious
    BY <1>1, JobsDiffer DEF AlertsInv, JobsAreTrue
  <2>2. ASSUME NEW c \in Completions
        PROVE  LET k == <<"mechanic-efficiency", c>>
                   dead == IF k \in stalled' THEN 1 ELSE 0
               IN /\ job'[k] # "none" \/ k \in stalled' => c \in completed
                  /\ job'[k] \in {"waiting", "active"} => trail[c] <= dead
                  /\ job'[k] = "handled" => trail[c] <= dead + 1
    <3>0. trail[c] \in Nat
      <4>1. trail \in [Completions -> 0..2]
        BY DEF AlertsInv, AlertsTypeOK
      <4> QED BY <4>1
    <3>1. CASE <<"mechanic-efficiency", c>> = j
      BY <1>1, <3>0, <3>1 DEF AlertsInv, JobsAreTrue
    <3>2. CASE <<"mechanic-efficiency", c>> # j
      BY <1>1, <3>2, JobsDiffer DEF AlertsInv, JobsAreTrue
    <3> QED BY <3>1, <3>2
  <2> QED BY <1>1, <2>1, <2>2 DEF JobsAreTrue, Requested
<1>6. BlockedIsTold' /\ ToldIsTrue'
  BY <1>1 DEF AlertsInv, BlockedIsTold, ToldIsTrue
<1> QED BY <1>3, <1>4, <1>5, <1>6 DEF AlertsInv

LEMMA AlertsStart == AlertsInit => AlertsInv
<1> SUFFICES ASSUME AlertsInit PROVE AlertsInv
  OBVIOUS
<1>1. AlertsTypeOK
  BY BoundsAssumption DEF AlertsInit, AlertsTypeOK
<1>2. CallsAreTrue
  BY DEF AlertsInit, CallsAreTrue
<1>3. JobsAreTrue
  BY JobsDiffer DEF AlertsInit, JobsAreTrue
<1>4. BlockedIsTold /\ ToldIsTrue
  BY DEF AlertsInit, BlockedIsTold, ToldIsTrue
<1> QED BY <1>1, <1>2, <1>3, <1>4 DEF AlertsInv

LEMMA AlertsStep == AlertsInv /\ [AlertsNext]_alertsVars => AlertsInv'
<1> SUFFICES ASSUME AlertsInv, [AlertsNext]_alertsVars PROVE AlertsInv'
  OBVIOUS
<1>1. ASSUME NEW w \in Workers, NEW e \in Expenses, NEW small \in BOOLEAN,
             NEW isSuspicious \in BOOLEAN, CreateExpense(w, e, small, isSuspicious)
      PROVE  AlertsInv'
  BY <1>1, CreateExpenseKeeps
<1>2. ASSUME NEW w \in Workers, Handler(w) PROVE AlertsInv'
  BY <1>1, <1>2, BlockSessionKeeps, DispatchKeeps, CommitCompleteKeeps DEF Handler
<1>3. ASSUME NEW w \in Workers, Continue(w) \/ AlertsFail(w) PROVE AlertsInv'
  BY <1>3, AddJobKeeps, EmitBlockedKeeps, CommitBlockedKeeps, AlertsFailKeeps DEF Continue
<1>4. ASSUME NEW j \in Job, Take(j) \/ Process(j) \/ Finish(j) \/ FailJob(j) \/ Stall(j)
      PROVE  AlertsInv'
  BY <1>4, TakeKeeps, ProcessKeeps, JobEndsKeeps, StallKeeps
<1>5. CASE Processor(ApprovalJob) \/ Processor(EfficiencyJob)
  BY <1>4, <1>5 DEF Processor, Job
<1>6. CASE UNCHANGED alertsVars
  BY <1>6, QuietKeeps DEF alertsVars, AlertsInv, AlertsTypeOK
<1> QED BY <1>2, <1>3, <1>4, <1>5, <1>6, RestockKeeps, OrderKeeps, CheckInventoryLevelsKeeps
        DEF AlertsNext

\* Whatever fails, stalls or is repeated, what is left to do, what is queued and what
\* has been told agree with the rows.
THEOREM AlertsInvariant == AlertsSpec => []AlertsInv
BY AlertsStart, AlertsStep, PTL DEF AlertsSpec

\* No session is BLOCKED before the dashboards have been told.
THEOREM NobodyBlockedUntold == AlertsSpec => []BlockedIsTold
<1>1. AlertsInv => BlockedIsTold
  BY DEF AlertsInv
<1> QED BY <1>1, AlertsInvariant, PTL

\* What people are told, and the worker's audit rows, are true of the rows.
THEOREM NothingFalseIsTold == AlertsSpec => []ToldIsTrue
<1>1. AlertsInv => ToldIsTrue
  BY DEF AlertsInv
<1> QED BY <1>1, AlertsInvariant, PTL
=============================================================================
