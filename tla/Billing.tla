------------------------------- MODULE Billing -------------------------------
(***************************************************************************)
(* The money side of one work order: its invoice, the payments registered  *)
(* against it, the column paymentStatus of the order, and the payment QR   *)
(* with the webhook that confirms it.                                      *)
(*                                                                         *)
(* Registering a payment is four writes in a row and none of them locks:   *)
(* the payment, a sum over all payments, the invoice, the order.  A        *)
(* request is a slot in req, as in Cashbox; overlap remembers whether two  *)
(* requests were ever under way together.                                  *)
(***************************************************************************)
EXTENDS Integers, Overlaps

CONSTANTS
    Payments,   \* rows of payments; their number bounds the payments made
    Tokens,     \* QR tokens
    Amounts,    \* amounts of a payment
    Totals      \* totals an invoice may be given, tax included

ASSUME MoneyAssumption == Amounts \subseteq Nat \ {0} /\ Totals \subseteq Nat

VARIABLES
    status,     \* Invoice.status, "NONE" before the row exists
    total,      \* Invoice.total
    paid,       \* Invoice.paidAmount
    due,        \* Invoice.dueAmount
    mirror,     \* WorkOrder.paymentStatus
    rows,       \* of each payment: no row, registered, or verified (verifiedBy)
    collected,  \* the sum of the payments of the invoice
    qr,         \* the key qr:payment:<token>: not made, live, or gone
    processed,  \* tokens with a key payment:processed:<token>
    recorded,   \* how many payments each token has become
    totals,     \* observer: totals the invoice has had
    requoted,   \* observer: its total changed after the last payment
    delivered,  \* observer: the desk has delivered the vehicle
    half        \* observer: a payment died before the invoice and the order
                \* knew, and none has been registered since

invoice == <<status, total, paid, due, totals, requoted>>
order == <<mirror, delivered, half>>
money == <<rows, collected>>
webhook == <<qr, processed, recorded>>
vars == <<status, total, paid, due, totals, requoted, mirror, delivered, half,
          rows, collected, qr, processed, recorded, overlap, req>>

-----------------------------------------------------------------------------
\* OVERDUE is in the enum too, but no handler writes it.
InvoiceStatus == {"DRAFT", "ISSUED", "PARTIALLY_PAID", "PAID", "CANCELLED"}

Plus(n) == IF n > 0 THEN n ELSE 0

\* updateInvoicePaymentStatus: what a sum of payments makes of a total.
Level(t, sum) ==
    IF sum >= t THEN "PAID" ELSE IF sum > 0 THEN "PARTIALLY_PAID" ELSE "ISSUED"

Request ==
    [op : {"pay"}, amount : Amounts, onInvoice : BOOLEAN]
      \cup [op : {"sum", "issue", "cancel", "deliver", "generate"}]
      \cup [op : {"settle"}, total : Totals, sum : Nat]
      \cup [op : {"mirror"}, to : InvoiceStatus]
      \cup [op : {"create", "draft"}, total : Totals]
      \cup [op : {"verify"}, p : Payments]
      \cup [op : {"mark", "insert", "forget"}, t : Tokens, known : BOOLEAN]


TypeOK ==
    /\ status    \in InvoiceStatus \cup {"NONE"}
    /\ {total, paid, due, collected} \subseteq Nat
    /\ mirror    \in InvoiceStatus
    /\ rows      \in [Payments -> {"none", "made", "verified"}]
    /\ qr        \in [Tokens -> {"none", "live", "gone"}]
    /\ processed \subseteq Tokens
    /\ recorded  \in [Tokens -> Nat]
    /\ totals    \subseteq Totals
    /\ {requoted, delivered, half, overlap} \subseteq BOOLEAN
    /\ req       \in [Workers -> Request \cup {Idle}]

Init ==
    /\ status = "NONE" /\ mirror = "DRAFT"
    /\ total = 0 /\ paid = 0 /\ due = 0 /\ collected = 0
    /\ rows = [p \in Payments |-> "none"]
    /\ qr = [t \in Tokens |-> "none"]
    /\ recorded = [t \in Tokens |-> 0]
    /\ processed = {} /\ totals = {}
    /\ requoted = FALSE /\ delivered = FALSE /\ half = FALSE /\ overlap = FALSE
    /\ req = [w \in Workers |-> Idle]

-----------------------------------------------------------------------------
(* A request starts, goes on and ends *)

Park(w, r) ==
    /\ req[w] = Idle
    /\ req' = [req EXCEPT ![w] = r]
    /\ UNCHANGED <<invoice, order, money, webhook>>

\* The op step of w, after which r is left of the request.
Step(w, op, r) == req[w].op = op /\ req' = [req EXCEPT ![w] = r]

\* The invoice's amounts become those of a new total; the paid amount stays.
SetTotal(t) ==
    /\ total' = t
    /\ due' = t
    /\ totals' = totals \cup {t}
    /\ UNCHANGED paid

-----------------------------------------------------------------------------
(* POST /payments *)

\* The invoice or the order exists, and the method has what it needs; a
\* payment into an unofficial Yape leaves its alert here.
BeginPay(w, a, onInvoice) ==
    /\ onInvoice => status # "NONE"
    /\ Park(w, [op |-> "pay", amount |-> a, onInvoice |-> onInvoice])

CommitPay(w, p) ==
    /\ Step(w, "pay", IF req[w].onInvoice THEN [op |-> "sum"] ELSE Idle)
    /\ rows[p] = "none"
    /\ rows' = [rows EXCEPT ![p] = "made"]
    /\ collected' = IF req[w].onInvoice THEN collected + req[w].amount ELSE collected
    /\ UNCHANGED <<invoice, order, webhook>>

\* updateInvoicePaymentStatus reads the invoice with all its payments.
Sum(w) ==
    /\ Step(w, "sum", [op |-> "settle", total |-> total, sum |-> collected])
    /\ UNCHANGED <<invoice, order, money, webhook>>

\* Mutant: the new payment is added to the amount on the invoice.
SettleAdding(w) ==
    /\ Step(w, "settle", [op |-> "mirror", to |-> Level(req[w].total, req[w].sum)])
    /\ status' = Level(req[w].total, req[w].sum)
    /\ paid' = paid + req[w].sum
    /\ due' = Plus(req[w].total - req[w].sum)
    /\ requoted' = FALSE
    /\ UNCHANGED <<total, totals, order, money, webhook>>

\* ... and writes what it makes of them, whatever the status has become.
Settle(w) ==
    /\ Step(w, "settle", [op |-> "mirror", to |-> Level(req[w].total, req[w].sum)])
    /\ status' = Level(req[w].total, req[w].sum)
    /\ paid' = req[w].sum
    /\ due' = Plus(req[w].total - req[w].sum)
    /\ requoted' = FALSE
    /\ UNCHANGED <<total, totals, order, money, webhook>>

\* The order's column follows, in a write of its own.
Mirror(w) ==
    /\ Step(w, "mirror", Idle)
    /\ mirror' = req[w].to
    /\ half' = (half /\ req[w].to = "DRAFT")
    /\ UNCHANGED <<invoice, delivered, money, webhook>>

-----------------------------------------------------------------------------
(* POST /payments/:id/verify *)

BeginVerify(w, p) ==
    /\ rows[p] = "made"
    /\ Park(w, [op |-> "verify", p |-> p])

\* verifiedBy is written by id: a second verifier in flight replaces the first.
CommitVerify(w) ==
    /\ Step(w, "verify", Idle)
    /\ rows' = [rows EXCEPT ![req[w].p] = "verified"]
    /\ UNCHANGED <<collected, invoice, order, webhook>>

-----------------------------------------------------------------------------
(* Invoices: /invoices, and the draft that sending a quote makes *)

BeginCreate(w, t) ==
    /\ status = "NONE"
    /\ Park(w, [op |-> "create", total |-> t])

\* The unique column workOrderId lets one invoice in.
CommitCreate(w) ==
    /\ Step(w, "create", [op |-> "mirror", to |-> "DRAFT"])
    /\ status = "NONE"
    /\ status' = "DRAFT"
    /\ SetTotal(req[w].total)
    /\ UNCHANGED <<requoted, order, money, webhook>>

\* createInvoiceDraft: an upsert, whose update leaves status and paid amount.
BeginDraft(w, t) == Park(w, [op |-> "draft", total |-> t])

CommitDraft(w) ==
    /\ Step(w, "draft", Idle)
    /\ status' = IF status = "NONE" THEN "DRAFT" ELSE status
    /\ SetTotal(req[w].total)
    /\ requoted' = (collected > 0)
    /\ UNCHANGED <<order, money, webhook>>

\* Mutant: an invoice in any status may be issued.
BeginIssueAny(w) ==
    /\ status # "NONE"
    /\ Park(w, [op |-> "issue"])

BeginIssue(w) ==
    /\ status = "DRAFT"
    /\ Park(w, [op |-> "issue"])

CommitIssue(w) ==
    /\ Step(w, "issue", Idle)
    /\ status' = "ISSUED"
    /\ mirror' = "ISSUED"
    /\ UNCHANGED <<total, paid, due, totals, requoted, delivered, half, money, webhook>>

BeginCancel(w) ==
    /\ status \notin {"NONE", "CANCELLED", "PAID"}
    /\ Park(w, [op |-> "cancel"])

\* The order's column keeps what it said.
CommitCancel(w) ==
    /\ Step(w, "cancel", Idle)
    /\ status' = "CANCELLED"
    /\ UNCHANGED <<total, paid, due, totals, requoted, order, money, webhook>>

\* POST /orders/:id/deliver: the part of its transaction that is about money
\* owed; the guards are in WorkOrders, the cash session in Cashbox.
BeginDeliver(w) == Park(w, [op |-> "deliver"])

CommitDeliver(w) ==
    /\ Step(w, "deliver", Idle)
    /\ mirror' = "PAID"
    /\ delivered' = TRUE
    /\ UNCHANGED <<half, invoice, money, webhook>>

-----------------------------------------------------------------------------
(* POST /finance/orders/:id/qr and the webhook of the payment gateway *)

BeginGenerate(w) ==
    /\ mirror # "PAID"
    /\ Park(w, [op |-> "generate"])

CommitGenerate(w, t) ==
    /\ Step(w, "generate", Idle)
    /\ qr[t] = "none"
    /\ qr' = [qr EXCEPT ![t] = "live"]
    /\ UNCHANGED <<processed, recorded, invoice, order, money>>

\* Mutant: the key payment:processed:<token> is not looked at.
BeginConfirmBlind(w, t, known) ==
    /\ qr[t] = "live"
    /\ Park(w, [op |-> "mark", t |-> t, known |-> known])

\* known: the method of the request is one the column has.  Without one the
\* controller passes DYNAMIC_QR, which it has not.
BeginConfirm(w, t, known) ==
    /\ t \notin processed
    /\ qr[t] = "live"
    /\ Park(w, [op |-> "mark", t |-> t, known |-> known])

\* The token is spent before there is a payment.
MarkProcessed(w) ==
    /\ Step(w, "mark", [req[w] EXCEPT !.op = "insert"])
    /\ processed' = processed \cup {req[w].t}
    /\ UNCHANGED <<qr, recorded, invoice, order, money>>

\* A payment of the order, not of the invoice.
RecordConfirmed(w, p) ==
    /\ Step(w, "insert", [req[w] EXCEPT !.op = "forget"])
    /\ req[w].known
    /\ rows[p] = "none"
    /\ rows' = [rows EXCEPT ![p] = "made"]
    /\ recorded' = [recorded EXCEPT ![req[w].t] = @ + 1]
    /\ UNCHANGED <<collected, qr, processed, invoice, order>>

ForgetQR(w) ==
    /\ Step(w, "forget", Idle)
    /\ qr' = [qr EXCEPT ![req[w].t] = "gone"]
    /\ UNCHANGED <<processed, recorded, invoice, order, money>>

\* Seven minutes, against a day: the mark outlives the token.
ExpireQR(t) ==
    /\ qr[t] = "live"
    /\ qr' = [qr EXCEPT ![t] = "gone"]
    /\ UNCHANGED <<processed, recorded, invoice, order, money, req>>

ExpireMark(t) ==
    /\ t \in processed
    /\ qr[t] = "gone"
    /\ processed' = processed \ {t}
    /\ UNCHANGED <<qr, recorded, invoice, order, money, req>>

-----------------------------------------------------------------------------
\* A statement of the request fails, or the process dies.
Fail(w) ==
    /\ req[w] # Idle
    /\ half' = (half \/ req[w].op \in {"sum", "settle", "mirror"})
    /\ req' = [req EXCEPT ![w] = Idle]
    /\ UNCHANGED <<mirror, delivered, invoice, money, webhook>>

Begin(w) ==
    \/ \E a \in Amounts, onInvoice \in BOOLEAN : BeginPay(w, a, onInvoice)
    \/ \E p \in Payments : BeginVerify(w, p)
    \/ \E t \in Totals : BeginCreate(w, t) \/ BeginDraft(w, t)
    \/ BeginIssue(w) \/ BeginCancel(w) \/ BeginDeliver(w) \/ BeginGenerate(w)
    \/ \E t \in Tokens, known \in BOOLEAN : BeginConfirm(w, t, known)

Continue(w) ==
    \/ \E p \in Payments : CommitPay(w, p) \/ RecordConfirmed(w, p)
    \/ Sum(w) \/ Settle(w) \/ Mirror(w)
    \/ CommitVerify(w) \/ CommitCreate(w) \/ CommitDraft(w) \/ CommitIssue(w)
    \/ CommitCancel(w) \/ CommitDeliver(w)
    \/ \E t \in Tokens : CommitGenerate(w, t)
    \/ MarkProcessed(w) \/ ForgetQR(w)

Act ==
    \/ \E w \in Workers : Begin(w) \/ Continue(w) \/ Fail(w)
    \/ \E t \in Tokens : ExpireQR(t) \/ ExpireMark(t)

\* Two requests are under way after the step.
Observe == overlap' = (overlap \/ \E v, w \in Busy' : v # w)

Next == Act /\ Observe

Spec == Init /\ [][Next]_vars

-----------------------------------------------------------------------------
(* What holds however the requests interleave *)

\* Payments whose sums overwrite each other may understate what came in, never
\* overstate it: PAID and PARTIALLY_PAID, on the invoice and on the order, rest
\* on money that was there and a total the invoice has had; an order may also
\* be PAID because the desk delivered it.
PaidIsBacked ==
    /\ paid <= collected
    /\ status = "PAID" => \E t \in totals : t <= paid
    /\ status = "PARTIALLY_PAID" => paid > 0 /\ \E t \in totals : paid < t
    /\ mirror = "PAID" => delivered \/ \E t \in totals : t <= collected
    /\ mirror = "PARTIALLY_PAID" => collected > 0

-----------------------------------------------------------------------------
(* What holds as long as no two requests have overlapped *)

\* No request is between a payment and the writes that follow it.
Settled == ~half /\ \A w \in Workers : req[w].op \notin {"sum", "settle", "mirror"}

\* The books of an invoice at rest: the paid amount is the sum of its payments,
\* the status and the amount due follow from it unless the total was changed
\* since, and the order says the same unless the invoice was cancelled or the
\* vehicle delivered.
BooksAgree ==
    ~overlap /\ Settled =>
        /\ paid = collected
        /\ ~requoted => due = Plus(total - paid)
        /\ ~requoted /\ status \notin {"NONE", "CANCELLED"} =>
             IF collected = 0 THEN status \in {"DRAFT", "ISSUED"}
             ELSE status = Level(total, collected)
        /\ status \in {"NONE", "CANCELLED"} \/ delivered \/ mirror = status

\* "Idempotente por qrToken": deliveries of a webhook, crashes between its
\* steps and the expiry of its keys never make two payments of one token.
TokenPaidOnce == ~overlap => \A t \in Tokens : recorded[t] <= 1

-----------------------------------------------------------------------------
(* The inductive invariants *)

\* What a request under way knows, whatever overlaps it: an invoice it found is
\* still there, the sum it read is not more than what has come in.
RequestOK(r) ==
    /\ r.op = "pay" /\ r.onInvoice => status # "NONE"
    /\ r.op \in {"sum", "settle", "issue", "cancel"} => status # "NONE"
    /\ r.op = "settle" => r.total \in totals /\ r.sum <= collected
    /\ r.op = "mirror" /\ r.to = "PAID" => \E t \in totals : t <= collected
    /\ r.op = "mirror" /\ r.to = "PARTIALLY_PAID" => collected > 0

BackedInv ==
    /\ TypeOK
    /\ PaidIsBacked
    /\ status # "NONE" => total \in totals
    /\ \A w \in Workers : RequestOK(req[w])

LevelOK ==
    ~requoted /\ status \notin {"NONE", "CANCELLED"} =>
        IF collected = 0 THEN status \in {"DRAFT", "ISSUED"} ELSE status = Level(total, collected)

\* What a request knows as long as it is alone: what it read is still so.
SnapshotOK(r) ==
    /\ r.op = "settle" => r.sum = collected /\ r.total = total
    /\ r.op \in {"sum", "settle"} => collected > 0
    /\ r.op = "issue" => status = "DRAFT"
    /\ r.op = "mirror" => r.to = status /\ (r.to # "DRAFT" => paid = collected /\ LevelOK)
    /\ r.op \in {"mark", "insert"} => recorded[r.t] = 0 /\ qr[r.t] # "none"
    /\ r.op = "insert" => r.t \in processed \/ qr[r.t] # "live"

Pending(ops) == \E w \in Workers : req[w].op \in ops

\* The books between the writes of a payment, and after one that stopped half way.
LedgerOK ==
    /\ status = "NONE" => collected = 0 /\ (mirror = "DRAFT" \/ delivered)
    /\ IF requoted THEN collected > 0 ELSE due = Plus(total - paid)
    /\ half \/ Pending({"sum", "settle"}) \/ (paid = collected /\ LevelOK)
    /\ \/ half \/ Pending({"sum", "settle", "mirror"})
       \/ status \in {"NONE", "CANCELLED"} \/ delivered \/ mirror = status

\* A token that has become a payment is marked, or can be confirmed no more.
TokensOK ==
    \A t \in Tokens :
        /\ recorded[t] <= 1
        /\ qr[t] = "none" => recorded[t] = 0
        /\ qr[t] = "live" /\ recorded[t] = 1 => t \in processed

SerialInv ==
    ~overlap =>
        /\ \A v, w \in Busy : v = w
        /\ LedgerOK
        /\ TokensOK
        /\ \A w \in Workers : SnapshotOK(req[w])

=============================================================================
