------------------------------- MODULE Cashbox -------------------------------
(***************************************************************************)
(* Cash sessions: opening, movements, the delivery desk's payment, closing *)
(* with its three levels of discrepancy, and the owner's override.         *)
(*                                                                         *)
(* As everywhere in this backend a handler reads, decides and writes by id *)
(* later; no constraint of the database keeps a second OPEN row out.  A    *)
(* request is a slot in req, as in WorkOrders.                             *)
(***************************************************************************)
EXTENDS Integers, Overlaps

CONSTANTS
    Sessions,   \* rows of cashbox_sessions
    Opening,    \* opening balances a request may carry, in soles
    Amounts,    \* transaction amounts
    Cash,       \* counted cash a closing request may carry
    MaxTx       \* bound: transactions of one session

ASSUME MoneyAssumption == Opening \cup Amounts \cup Cash \subseteq Nat

ASSUME MaxTxAssumption == MaxTx \in Nat

VARIABLES
    st,         \* CashboxSession.status, "NONE" before the row exists
    today,      \* sessions whose openedAt is today
    expected,   \* openingBalance + PAYMENT rows - EXPENSE rows of the session
    txs,        \* how many FinancialTransaction rows it has
    closing,    \* .closingBalance
    diff,       \* .discrepancy
    justified,  \* .justificationText is not blank
    audit,      \* AuditLog rows about it: CASHBOX_BLOCKED_MAJOR_DISCREPANCY
                \* ("BLOCKED"), CASHBOX_OVERRIDE_TOTP ("OVERRIDE")
    overridden  \* sessions an owner has overridden (the note on the row)

session == <<st, today, expected, txs, closing, diff, justified, audit, overridden>>
vars == <<st, today, expected, txs, closing, diff, justified, audit, overridden, overlap, req>>

-----------------------------------------------------------------------------
DISCREPANCY_MINOR == 5
DISCREPANCY_MAJOR == 50

Closed == {"CLOSED_NORMAL", "CLOSED_WITH_DISCREPANCY"}

CashboxStatus == Closed \cup {"OPEN", "BLOCKED"}

TransactionType == {"PAYMENT", "EXPENSE", "REFUND", "ADJUSTMENT"}

Abs(n) == IF n < 0 THEN -n ELSE n

OpenRequest == [op : {"open"}]
TxRequest == [op : {"tx"}, s : Sessions, type : TransactionType, amount : Nat]
CloseRequest == [op : {"blockAudit", "close"}, s : Sessions,
                 to : Closed \cup {"BLOCKED"}, expected : Int, diff : Int,
                 justified : BOOLEAN]
OverrideRequest == [op : {"override", "overrideAudit"}, s : Sessions]

Request == OpenRequest \cup TxRequest \cup CloseRequest \cup OverrideRequest


ColumnsOK ==
    /\ st         \in [Sessions -> CashboxStatus \cup {"NONE"}]
    /\ today      \in SUBSET Sessions
    /\ expected   \in [Sessions -> Int]
    /\ txs        \in [Sessions -> 0..MaxTx]
    /\ closing    \in [Sessions -> Int]
    /\ diff       \in [Sessions -> Int]
    /\ justified  \in [Sessions -> BOOLEAN]
    /\ audit      \in [Sessions -> SUBSET {"BLOCKED", "OVERRIDE"}]
    /\ overridden \in SUBSET Sessions
    /\ req        \in [Workers -> Request \cup {Idle}]

TypeOK == ColumnsOK /\ overlap \in BOOLEAN

Init ==
    /\ st         = [s \in Sessions |-> "NONE"]
    /\ today      = {}
    /\ expected   = [s \in Sessions |-> 0]
    /\ txs        = [s \in Sessions |-> 0]
    /\ closing    = [s \in Sessions |-> 0]
    /\ diff       = [s \in Sessions |-> 0]
    /\ justified  = [s \in Sessions |-> FALSE]
    /\ audit      = [s \in Sessions |-> {}]
    /\ overridden = {}
    /\ overlap    = FALSE
    /\ req        = [w \in Workers |-> Idle]

-----------------------------------------------------------------------------
Open == {s \in Sessions : st[s] = "OPEN"}

\* The snapshot was good: worker w keeps the request r.
Park(w, r) ==
    /\ req[w] = Idle
    /\ req' = [req EXCEPT ![w] = r]
    /\ UNCHANGED session

-----------------------------------------------------------------------------
(* POST /finance/cashbox/open *)

\* Mutant: only a session opened today counts, as before the fix the comment in
\* openCashbox tells of.
BeginOpenToday(w) ==
    /\ Open \cap today = {}
    /\ Park(w, [op |-> "open"])

BeginOpen(w) ==
    /\ Open = {}
    /\ Park(w, [op |-> "open"])

CommitOpen(w, s, balance) ==
    /\ Takes(w, "open")
    /\ st[s] = "NONE"
    /\ st' = [st EXCEPT ![s] = "OPEN"]
    /\ today' = today \cup {s}
    /\ expected' = [expected EXCEPT ![s] = balance]
    /\ UNCHANGED <<txs, closing, diff, justified, audit, overridden>>

-----------------------------------------------------------------------------
(* POST /finance/cashbox/transactions and the delivery desk *)

BeginTransaction(w, s, type, amount) ==
    /\ s \in Open
    /\ Park(w, [op |-> "tx", s |-> s, type |-> type, amount |-> amount])

\* The desk insists on a session opened today.
BeginDesk(w, s, amount) ==
    /\ s \in Open \cap today
    /\ Park(w, [op |-> "tx", s |-> s, type |-> "PAYMENT", amount |-> amount])

\* What closing will make of a row: refunds and adjustments do not count.
Signed(type, amount) ==
    CASE type = "PAYMENT" -> amount
      [] type = "EXPENSE" -> -amount
      [] OTHER -> 0

CommitTransaction(w) ==
    /\ Takes(w, "tx")
    /\ txs[req[w].s] < MaxTx
    /\ txs' = [txs EXCEPT ![req[w].s] = @ + 1]
    /\ expected' = [expected EXCEPT ![req[w].s] =
                      @ + Signed(req[w].type, req[w].amount)]
    /\ UNCHANGED <<st, today, closing, diff, justified, audit, overridden>>

-----------------------------------------------------------------------------
(* POST /finance/cashbox/close *)

\* The three levels; none for a middling discrepancy without justification.
CloseLevel(d, just) ==
    CASE Abs(d) < DISCREPANCY_MINOR -> {"CLOSED_NORMAL"}
      [] Abs(d) >= DISCREPANCY_MINOR /\ Abs(d) <= DISCREPANCY_MAJOR ->
           IF just THEN {"CLOSED_WITH_DISCREPANCY"} ELSE {}
      [] Abs(d) > DISCREPANCY_MAJOR -> {"BLOCKED"}

\* Mutant: a blocked session may be counted again.
BeginCloseAgain(w, s, cash, just) ==
    /\ st[s] \in {"OPEN", "BLOCKED"}
    /\ \E to \in CloseLevel(cash - expected[s], just) :
         Park(w, [op |-> IF to = "BLOCKED" THEN "blockAudit" ELSE "close",
                  s |-> s, to |-> to, expected |-> expected[s],
                  diff |-> cash - expected[s], justified |-> just])

\* Mutant: the row is blocked without the audit row.
BeginCloseSilently(w, s, cash, just) ==
    /\ s \in Open
    /\ \E to \in CloseLevel(cash - expected[s], just) :
         Park(w, [op |-> "close", s |-> s, to |-> to, expected |-> expected[s],
                  diff |-> cash - expected[s], justified |-> just])

BeginClose(w, s, cash, just) ==
    /\ s \in Open
    /\ \E to \in CloseLevel(cash - expected[s], just) :
         Park(w, [op |-> IF to = "BLOCKED" THEN "blockAudit" ELSE "close",
                  s |-> s, to |-> to, expected |-> expected[s],
                  diff |-> cash - expected[s], justified |-> just])

\* The CRITICAL audit row comes first, in a write of its own.
CommitBlockAudit(w) ==
    /\ req[w].op = "blockAudit"
    /\ audit' = [audit EXCEPT ![req[w].s] = @ \cup {"BLOCKED"}]
    /\ req' = [req EXCEPT ![w].op = "close"]
    /\ UNCHANGED <<st, today, expected, txs, closing, diff, justified, overridden>>

CommitClose(w) ==
    /\ Takes(w, "close")
    /\ st' = [st EXCEPT ![req[w].s] = req[w].to]
    /\ closing' = [closing EXCEPT ![req[w].s] = req[w].expected]
    /\ diff' = [diff EXCEPT ![req[w].s] = req[w].diff]
    /\ justified' = [justified EXCEPT ![req[w].s] = req[w].justified]
    /\ UNCHANGED <<today, expected, txs, audit, overridden>>

-----------------------------------------------------------------------------
(* POST /finance/cashbox/override, by an owner with a valid TOTP code *)

BeginOverride(w, s) ==
    /\ st[s] = "BLOCKED"
    /\ Park(w, [op |-> "override", s |-> s])

CommitOverride(w) ==
    /\ req[w].op = "override"
    /\ req' = [req EXCEPT ![w].op = "overrideAudit"]
    /\ st' = [st EXCEPT ![req[w].s] = "CLOSED_WITH_DISCREPANCY"]
    /\ overridden' = overridden \cup {req[w].s}
    /\ UNCHANGED <<today, expected, txs, closing, diff, justified, audit>>

\* The WARNING audit row comes after, in a write of its own.
CommitOverrideAudit(w) ==
    /\ Takes(w, "overrideAudit")
    /\ audit' = [audit EXCEPT ![req[w].s] = @ \cup {"OVERRIDE"}]
    /\ UNCHANGED <<st, today, expected, txs, closing, diff, justified, overridden>>

-----------------------------------------------------------------------------
\* Midnight passes.
NewDay ==
    /\ today # {}
    /\ today' = {}
    /\ UNCHANGED <<st, expected, txs, closing, diff, justified, audit, overridden, req>>

\* A guard or a write of the request fails, or the process dies.
Fail(w) ==
    /\ req[w] # Idle
    /\ req' = [req EXCEPT ![w] = Idle]
    /\ UNCHANGED session

Begin(w) ==
    \/ BeginOpen(w)
    \/ \E s \in Sessions, type \in TransactionType, a \in Amounts :
         BeginTransaction(w, s, type, a)
    \/ \E s \in Sessions, a \in Amounts : BeginDesk(w, s, a)
    \/ \E s \in Sessions, cash \in Cash, just \in BOOLEAN : BeginClose(w, s, cash, just)
    \/ \E s \in Sessions : BeginOverride(w, s)

Commit(w) ==
    \/ \E s \in Sessions, b \in Opening : CommitOpen(w, s, b)
    \/ CommitTransaction(w)
    \/ CommitBlockAudit(w)
    \/ CommitClose(w)
    \/ CommitOverride(w)
    \/ CommitOverrideAudit(w)

Act == NewDay \/ \E w \in Workers : Begin(w) \/ Commit(w) \/ Fail(w)

Next == Act /\ overlap' = (overlap \/ ~Alone')

Spec == Init /\ [][Next]_vars

-----------------------------------------------------------------------------
(* What holds however the requests interleave *)

\* The three-level control: the status of a session that left OPEN agrees with
\* the discrepancy and justification on its row, even when two closings
\* overwrite each other; only an owner's override excuses a mismatch.
StatusExplained ==
    \A s \in Sessions :
        /\ st[s] = "CLOSED_NORMAL" => Abs(diff[s]) < DISCREPANCY_MINOR
        /\ st[s] = "BLOCKED" => Abs(diff[s]) > DISCREPANCY_MAJOR
        /\ st[s] = "CLOSED_WITH_DISCREPANCY" =>
             \/ s \in overridden
             \/ /\ justified[s]
                /\ Abs(diff[s]) \in DISCREPANCY_MINOR..DISCREPANCY_MAJOR

\* The audit log: no session is blocked, or was until an owner overrode it,
\* without the CRITICAL row, and none claims an override that did not happen,
\* wherever a closing or an override crashes.
AuditTrail ==
    \A s \in Sessions :
        /\ st[s] = "BLOCKED" \/ s \in overridden => "BLOCKED" \in audit[s]
        /\ "OVERRIDE" \in audit[s] => s \in overridden

\* How a session ended is explained by its own row and by the audit log.
OutcomeOnRecord == StatusExplained /\ AuditTrail

\* The inductive invariant behind both: what a row, or a request about to be
\* written over it, records is explained.
Explained(to, d, just) ==
    /\ to = "CLOSED_NORMAL" => Abs(d) < DISCREPANCY_MINOR
    /\ to = "BLOCKED" => Abs(d) > DISCREPANCY_MAJOR
    /\ to = "CLOSED_WITH_DISCREPANCY" =>
         just /\ Abs(d) \in DISCREPANCY_MINOR..DISCREPANCY_MAJOR

SessionOK(s) ==
    /\ s \in overridden \/ Explained(st[s], diff[s], justified[s])
    /\ st[s] \in {"CLOSED_NORMAL", "BLOCKED"} => Explained(st[s], diff[s], justified[s])
    /\ st[s] = "BLOCKED" \/ s \in overridden => "BLOCKED" \in audit[s]
    /\ "OVERRIDE" \in audit[s] => s \in overridden

ReqOK(r) ==
    /\ r.op \in {"blockAudit", "close"} => Explained(r.to, r.diff, r.justified)
    /\ r.op = "blockAudit" => r.to = "BLOCKED"
    /\ r.op = "close" /\ r.to = "BLOCKED" => "BLOCKED" \in audit[r.s]
    /\ r.op = "override" => "BLOCKED" \in audit[r.s]
    /\ r.op = "overrideAudit" => r.s \in overridden

CashInv ==
    /\ ColumnsOK
    /\ \A s \in Sessions : SessionOK(s)
    /\ \A w \in Workers : ReqOK(req[w])

-----------------------------------------------------------------------------
(* What holds as long as no two requests have overlapped *)

OneIsOpen == \A s, t \in Open : s = t

Books == \A s \in Sessions : st[s] \in Closed \cup {"BLOCKED"} => closing[s] = expected[s]

\* "a lo sumo una sesion OPEN a la vez": at most one session is open.
OneOpen == ~overlap => OneIsOpen

\* The books of a session that left OPEN account for every transaction
\* recorded in it: nothing slipped in after the cash was counted.
ClosedBooksComplete == ~overlap => Books

\* Every sol of a day is counted in one session, the one that was open.
DayCountedOnce == OneOpen /\ ClosedBooksComplete

\* What a request that is alone still knows when it writes: nothing has moved.
SnapshotOK(r) ==
    /\ r.op = "open" => Open = {}
    /\ r.op = "tx" => st[r.s] = "OPEN"
    /\ r.op \in {"blockAudit", "close"} => st[r.s] = "OPEN" /\ r.expected = expected[r.s]
    /\ r.op = "override" => st[r.s] = "BLOCKED"

SerialState ==
    /\ ColumnsOK
    /\ OneIsOpen
    /\ Books
    /\ \A w \in Workers : SnapshotOK(req[w])

SerialInv == TypeOK /\ (~overlap => Alone /\ SerialState)

\* "Requiere override del OWNER": a blocked session leaves that state only
\* through an owner's override.
OnlyOwnerUnblocks ==
    [][~overlap' => \A s \in Sessions : st[s] = "BLOCKED" /\ st'[s] # "BLOCKED" =>
         s \in overridden' /\ st'[s] = "CLOSED_WITH_DISCREPANCY"]_vars

=============================================================================
