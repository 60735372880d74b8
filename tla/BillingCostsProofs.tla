-------------------------- MODULE BillingCostsProofs --------------------------
(***************************************************************************)
(* The money behind the statuses of Billing, for every number of requests, *)
(* payments, tokens and amounts.  BackedInv is inductive by itself, however*)
(* the requests overlap: what has come in only grows and an invoice has    *)
(* had every total it was given.  SerialInv is inductive together with it: *)
(* a request that is alone finds what it read unchanged when it writes.    *)
(***************************************************************************)
EXTENDS Billing, Costs, TLAPS

\* What the fields of a request under way are.
LEMMA RequestShape ==
    ASSUME TypeOK, NEW w \in Workers
    PROVE  /\ req[w].op = "pay" => req[w].amount \in Amounts /\ req[w].onInvoice \in BOOLEAN
           /\ req[w].op = "settle" => req[w].total \in Totals /\ req[w].sum \in Nat
           /\ req[w].op = "mirror" => req[w].to \in InvoiceStatus
           /\ req[w].op \in {"create", "draft"} => req[w].total \in Totals
           /\ req[w].op = "verify" => req[w].p \in Payments
           /\ req[w].op \in {"mark", "insert", "forget"} =>
                req[w].t \in Tokens /\ req[w].known \in BOOLEAN
BY DEF TypeOK, Request, Idle

\* The status follows the sum of the payments.
LEMMA LevelIs ==
    ASSUME NEW t \in Nat, NEW n \in Nat
    PROVE  /\ Level(t, n) \in {"PAID", "PARTIALLY_PAID", "ISSUED"}
           /\ Level(t, n) = "PAID" <=> t <= n
           /\ Level(t, n) = "PARTIALLY_PAID" <=> 0 < n /\ n < t
BY DEF Level

LEMMA PlusNat == \A n \in Int : Plus(n) \in Nat /\ (n \in Nat => Plus(n) = n)
BY DEF Plus

\* The numbers of the model are numbers.
LEMMA Numbers ==
    TypeOK => /\ total \in Nat /\ paid \in Nat /\ due \in Nat /\ collected \in Nat
              /\ Totals \subseteq Nat
              /\ \A a \in Amounts : a \in Nat /\ a > 0
BY MoneyAssumption DEF TypeOK

-----------------------------------------------------------------------------
(* However the requests overlap *)

\* What one request does leaves the others right, as long as money and totals
\* only accrue and the invoice stays.
LEMMA SlotStep ==
    ASSUME BackedInv, NEW w \in Workers,
           req' = [req EXCEPT ![w] = req'[w]],
           req'[w] \in Request \cup {Idle},
           RequestOK(req[w])',
           totals \subseteq totals',
           collected' \in Nat, collected <= collected',
           status # "NONE" => status' # "NONE"
    PROVE  /\ req' \in [Workers -> Request \cup {Idle}]
           /\ \A v \in Workers : RequestOK(req[v])'
<1>1. req \in [Workers -> Request \cup {Idle}] /\ TypeOK /\ \A v \in Workers : RequestOK(req[v])
  BY DEF BackedInv, TypeOK
<1>2. req' \in [Workers -> Request \cup {Idle}]
  BY <1>1
<1>3. ASSUME NEW v \in Workers \ {w} PROVE RequestOK(req[v])'
  <2>1. req'[v] = req[v] /\ RequestOK(req[v])
    BY <1>1
  <2>2. req[v].op = "settle" => req[v].sum \in Nat /\ req[v].sum <= collected'
    BY <1>1, <2>1, RequestShape, Numbers DEF RequestOK
  <2>3. \A t \in totals : t <= collected => t \in totals' /\ t <= collected'
    BY <1>1, Numbers DEF TypeOK
  <2>4. collected > 0 => collected' > 0
    BY <1>1, Numbers
  <2> QED BY <2>1, <2>2, <2>3, <2>4 DEF RequestOK
<1> QED BY <1>2, <1>3

\* A step that leaves the money alone: a request that starts or is given up.
LEMMA QuietStep ==
    ASSUME BackedInv, NEW w \in Workers,
           req' = [req EXCEPT ![w] = req'[w]],
           req'[w] \in Request \cup {Idle},
           RequestOK(req[w])',
           UNCHANGED <<invoice, mirror, delivered, money, webhook>>,
           half' \in BOOLEAN, overlap' \in BOOLEAN
    PROVE  BackedInv'
<1>1. UNCHANGED <<status, total, paid, due, totals, requoted, mirror, delivered,
                  rows, collected, qr, processed, recorded>>
  BY DEF invoice, money, webhook
<1>2. collected \in Nat /\ collected <= collected'
  BY <1>1, Numbers DEF BackedInv
<1>3. req' \in [Workers -> Request \cup {Idle}] /\ \A v \in Workers : RequestOK(req[v])'
  BY <1>1, <1>2, SlotStep
<1>4. TypeOK'
  BY <1>1, <1>3 DEF BackedInv, TypeOK
<1>5. PaidIsBacked'
  BY <1>1 DEF BackedInv, PaidIsBacked
<1> QED BY <1>1, <1>3, <1>4, <1>5 DEF BackedInv

LEMMA BeginStep ==
    ASSUME BackedInv, NEW w \in Workers, Begin(w), overlap' \in BOOLEAN
    PROVE  BackedInv'
<1>1. ASSUME NEW r \in Request, Park(w, r), RequestOK(r)' PROVE BackedInv'
  <2>1. req'[w] = r /\ req' = [req EXCEPT ![w] = r]
    BY <1>1 DEF Park, BackedInv, TypeOK
  <2>2. RequestOK(req[w])'
    BY <1>1, <2>1
  <2>3. half' \in BOOLEAN /\ UNCHANGED <<invoice, mirror, delivered, money, webhook>>
    BY <1>1 DEF Park, order, BackedInv, TypeOK
  <2> QED BY <2>1, <2>2, <2>3, QuietStep
<1>2. ASSUME NEW a \in Amounts, NEW b \in BOOLEAN, BeginPay(w, a, b) PROVE BackedInv'
  <2> DEFINE r == [op |-> "pay", amount |-> a, onInvoice |-> b]
  <2>1. r \in Request /\ Park(w, r)
    BY <1>2 DEF BeginPay, Request
  <2>2. RequestOK(r)'
    BY <1>2 DEF BeginPay, Park, invoice, RequestOK
  <2> HIDE DEF r
  <2> QED BY <2>1, <2>2, <1>1
<1>3. ASSUME NEW p \in Payments, BeginVerify(w, p) PROVE BackedInv'
  BY <1>1, <1>3 DEF BeginVerify, Request, RequestOK
<1>4. ASSUME NEW t \in Totals, BeginCreate(w, t) \/ BeginDraft(w, t) PROVE BackedInv'
  BY <1>1, <1>4 DEF BeginCreate, BeginDraft, Request, RequestOK
<1>5. ASSUME BeginIssue(w) \/ BeginCancel(w) \/ BeginDeliver(w) \/ BeginGenerate(w)
      PROVE  BackedInv'
  <2>1. CASE BeginIssue(w) \/ BeginCancel(w)
    BY <1>1, <2>1 DEF BeginIssue, BeginCancel, Park, invoice, Request, RequestOK
  <2>2. CASE BeginDeliver(w) \/ BeginGenerate(w)
    BY <1>1, <2>2 DEF BeginDeliver, BeginGenerate, Request, RequestOK
  <2> QED BY <1>5, <2>1, <2>2
<1>6. ASSUME NEW t \in Tokens, NEW b \in BOOLEAN, BeginConfirm(w, t, b) PROVE BackedInv'
  BY <1>1, <1>6 DEF BeginConfirm, Request, RequestOK
<1> QED BY <1>2, <1>3, <1>4, <1>5, <1>6 DEF Begin

LEMMA FailStep ==
    ASSUME BackedInv, NEW w \in Workers, Fail(w), overlap' \in BOOLEAN PROVE BackedInv'
<1>1. /\ req' = [req EXCEPT ![w] = Idle] /\ req'[w] = Idle
      /\ half' \in BOOLEAN
      /\ UNCHANGED <<invoice, mirror, delivered, money, webhook>>
  BY DEF Fail, BackedInv, TypeOK
<1>2. RequestOK(req[w])'
  BY <1>1 DEF RequestOK, Idle
<1> QED BY <1>1, <1>2, QuietStep

LEMMA CommitPayStep ==
    ASSUME BackedInv, NEW w \in Workers, NEW p \in Payments, CommitPay(w, p),
           overlap' \in BOOLEAN
    PROVE  BackedInv'
<1>1. /\ req[w].op = "pay"
      /\ req' = [req EXCEPT ![w] = req'[w]]
      /\ req'[w] = IF req[w].onInvoice THEN [op |-> "sum"] ELSE Idle
  BY DEF CommitPay, Step, BackedInv, TypeOK
<1>2. /\ UNCHANGED <<status, total, paid, due, totals, requoted, mirror, delivered, half,
                     qr, processed, recorded>>
      /\ rows' = [rows EXCEPT ![p] = "made"]
      /\ collected' = IF req[w].onInvoice THEN collected + req[w].amount ELSE collected
  BY DEF CommitPay, invoice, order, webhook
<1>3. /\ TypeOK /\ RequestOK(req[w])
      /\ collected \in Nat /\ collected' \in Nat /\ collected <= collected'
      /\ paid \in Nat /\ \A t \in totals : t \in Nat
  BY <1>1, <1>2, RequestShape, Numbers DEF BackedInv, TypeOK
<1>4. req'[w] \in Request \cup {Idle} /\ RequestOK(req[w])'
  BY <1>1, <1>2, <1>3 DEF Request, RequestOK, Idle
<1>5. req' \in [Workers -> Request \cup {Idle}] /\ \A v \in Workers : RequestOK(req[v])'
  BY <1>1, <1>2, <1>3, <1>4, SlotStep
<1>6. TypeOK'
  <2>1. rows' \in [Payments -> {"none", "made", "verified"}]
    BY <1>2, <1>3 DEF TypeOK
  <2>2. {total, paid, due, collected}' \subseteq Nat
    BY <1>2, <1>3 DEF TypeOK
  <2> QED BY <1>2, <1>3, <1>5, <2>1, <2>2 DEF TypeOK
<1>7. PaidIsBacked'
  <2>1. PaidIsBacked
    BY DEF BackedInv
  <2>2. paid' <= collected' /\ (mirror' = "PARTIALLY_PAID" => collected' > 0)
    BY <1>2, <1>3, <2>1 DEF PaidIsBacked
  <2>3. mirror' = "PAID" => delivered' \/ \E t \in totals' : t <= collected'
    BY <1>2, <1>3, <2>1 DEF PaidIsBacked
  <2> QED BY <1>2, <2>1, <2>2, <2>3 DEF PaidIsBacked
<1> QED BY <1>2, <1>5, <1>6, <1>7 DEF BackedInv

\* The sum is taken of the payments there are, of a total the invoice has.
LEMMA SumStep ==
    ASSUME BackedInv, NEW w \in Workers, Sum(w), overlap' \in BOOLEAN PROVE BackedInv'
<1>1. /\ req[w].op = "sum"
      /\ req' = [req EXCEPT ![w] = req'[w]]
      /\ req'[w] = [op |-> "settle", total |-> total, sum |-> collected]
      /\ UNCHANGED <<invoice, mirror, delivered, money, webhook>>
      /\ half' \in BOOLEAN
  BY DEF Sum, Step, order, BackedInv, TypeOK
<1>2. RequestOK(req[w]) /\ TypeOK
  BY DEF BackedInv
<1>3. total \in totals /\ total \in Totals /\ collected \in Nat
  BY <1>1, <1>2 DEF RequestOK, BackedInv, TypeOK
<1>4. req'[w] \in Request \cup {Idle}
  BY <1>1, <1>3 DEF Request
<1>5. RequestOK(req[w])'
  <2>1. /\ req'[w].op = "settle" /\ req'[w].total = total /\ req'[w].sum = collected
        /\ totals' = totals /\ collected' = collected /\ status' = status
    BY <1>1 DEF invoice, money
  <2> QED BY <1>1, <1>2, <1>3, <2>1 DEF RequestOK
<1> QED BY <1>1, <1>4, <1>5, QuietStep

LEMMA SettleStep ==
    ASSUME BackedInv, NEW w \in Workers, Settle(w), overlap' \in BOOLEAN PROVE BackedInv'
<1> DEFINE n == req[w].sum
           t == req[w].total
<1>1. /\ req[w].op = "settle"
      /\ req' = [req EXCEPT ![w] = req'[w]]
      /\ req'[w] = [op |-> "mirror", to |-> Level(t, n)]
      /\ status' = Level(t, n) /\ paid' = n /\ due' = Plus(t - n) /\ requoted' = FALSE
      /\ UNCHANGED <<total, totals, mirror, delivered, half, rows, collected, qr, processed, recorded>>
  BY DEF Settle, Step, order, money, webhook, BackedInv, TypeOK
<1>2. /\ TypeOK /\ RequestOK(req[w]) /\ PaidIsBacked
      /\ t \in Nat /\ n \in Nat /\ t \in totals /\ n <= collected /\ collected \in Nat
  BY <1>1, RequestShape, Numbers DEF BackedInv, RequestOK
<1>3. /\ Level(t, n) \in {"PAID", "PARTIALLY_PAID", "ISSUED"}
      /\ Level(t, n) = "PAID" <=> t <= n
      /\ Level(t, n) = "PARTIALLY_PAID" <=> 0 < n /\ n < t
      /\ Plus(t - n) \in Nat
  BY <1>2, LevelIs, PlusNat
<1>4. req'[w] \in Request \cup {Idle}
  BY <1>1, <1>3 DEF Request, InvoiceStatus
<1>5. RequestOK(req[w])'
  BY <1>1, <1>2, <1>3 DEF RequestOK
<1> HIDE DEF n, t
<1>6. req' \in [Workers -> Request \cup {Idle}] /\ \A v \in Workers : RequestOK(req[v])'
  BY <1>1, <1>2, <1>3, <1>4, <1>5, SlotStep
<1>7. TypeOK'
  <2>1. {total, paid, due, collected}' \subseteq Nat /\ status' \in InvoiceStatus \cup {"NONE"}
    BY <1>1, <1>2, <1>3 DEF TypeOK, InvoiceStatus
  <2> QED BY <1>1, <1>2, <1>6, <2>1 DEF TypeOK
<1>8. PaidIsBacked'
  <2>1. paid' <= collected' /\ paid' = n /\ t \in totals'
    BY <1>1, <1>2
  <2>2. status' = "PAID" => \E x \in totals' : x <= paid'
    BY <1>1, <1>3, <2>1
  <2>3. status' = "PARTIALLY_PAID" => paid' > 0 /\ \E x \in totals' : paid' < x
    BY <1>1, <1>2, <1>3, <2>1
  <2>4. /\ mirror' = "PAID" => delivered' \/ \E x \in totals' : x <= collected'
        /\ mirror' = "PARTIALLY_PAID" => collected' > 0
    BY <1>1, <1>2 DEF PaidIsBacked
  <2> QED BY <2>1, <2>2, <2>3, <2>4 DEF PaidIsBacked
<1>9. (status # "NONE" => total \in totals)'
  BY <1>1, <1>2 DEF RequestOK, BackedInv
<1> QED BY <1>6, <1>7, <1>8, <1>9 DEF BackedInv

\* The order gets the status the invoice had, from its own write or a step
\* that needs no money: the payments and the invoice stay as they are.
LEMMA MirrorStep ==
    ASSUME BackedInv, NEW w \in Workers, Mirror(w), overlap' \in BOOLEAN PROVE BackedInv'
<1>1. /\ req[w].op = "mirror" /\ mirror' = req[w].to
      /\ req' = [req EXCEPT ![w] = req'[w]] /\ req'[w] = Idle
      /\ UNCHANGED <<status, total, paid, due, totals, requoted, delivered, rows, collected,
                     qr, processed, recorded>>
      /\ half' \in BOOLEAN
  BY DEF Mirror, Step, invoice, money, webhook, BackedInv, TypeOK
<1>2. TypeOK /\ RequestOK(req[w]) /\ PaidIsBacked /\ collected \in Nat
  BY Numbers DEF BackedInv
<1>3. mirror' \in InvoiceStatus
  BY <1>1, <1>2, RequestShape
<1>4. RequestOK(req[w])' /\ req'[w] \in Request \cup {Idle}
  BY <1>1 DEF RequestOK, Idle
<1>5. req' \in [Workers -> Request \cup {Idle}] /\ \A v \in Workers : RequestOK(req[v])'
  BY <1>1, <1>2, <1>4, SlotStep
<1>6. TypeOK'
  BY <1>1, <1>2, <1>3, <1>5 DEF TypeOK
<1>7. PaidIsBacked'
  BY <1>1, <1>2 DEF PaidIsBacked, RequestOK
<1> QED BY <1>1, <1>5, <1>6, <1>7 DEF BackedInv

\* The invoice is given a total: one more it has had, and no more money.
LEMMA TotalStep ==
    ASSUME BackedInv, NEW w \in Workers, CommitCreate(w) \/ CommitDraft(w), overlap' \in BOOLEAN
    PROVE  BackedInv'
<1> DEFINE t == req[w].total
<1>1. /\ req[w].op \in {"create", "draft"}
      /\ req' = [req EXCEPT ![w] = req'[w]]
      /\ req'[w] \in {[op |-> "mirror", to |-> "DRAFT"], Idle}
      /\ status' = IF status = "NONE" THEN "DRAFT" ELSE status
      /\ total' = t /\ due' = t /\ totals' = totals \cup {t} /\ paid' = paid
      /\ UNCHANGED <<mirror, delivered, half, rows, collected, qr, processed, recorded>>
      /\ requoted' \in BOOLEAN
  <2>1. CASE CommitCreate(w)
    BY <2>1 DEF CommitCreate, Step, SetTotal, order, money, webhook, BackedInv, TypeOK
  <2>2. CASE CommitDraft(w)
    BY <2>2 DEF CommitDraft, Step, SetTotal, order, money, webhook, BackedInv, TypeOK
  <2> QED BY <2>1, <2>2
<1>2. TypeOK /\ PaidIsBacked /\ t \in Totals /\ t \in Nat /\ collected \in Nat
  BY <1>1, RequestShape, Numbers DEF BackedInv
<1>3. RequestOK(req[w])' /\ req'[w] \in Request \cup {Idle}
  BY <1>1 DEF RequestOK, Idle, Request, InvoiceStatus
<1> HIDE DEF t
<1>4. req' \in [Workers -> Request \cup {Idle}] /\ \A v \in Workers : RequestOK(req[v])'
  BY <1>1, <1>2, <1>3, SlotStep
<1>5. TypeOK'
  <2>1. {total, paid, due, collected}' \subseteq Nat
    BY <1>1, <1>2 DEF TypeOK
  <2>2. status' \in InvoiceStatus \cup {"NONE"} /\ totals' \subseteq Totals
    BY <1>1, <1>2 DEF TypeOK, InvoiceStatus
  <2> QED BY <1>1, <1>2, <1>4, <2>1, <2>2 DEF TypeOK
<1>6. PaidIsBacked'
  BY <1>1, <1>2 DEF PaidIsBacked
<1> QED BY <1>1, <1>4, <1>5, <1>6 DEF BackedInv

LEMMA IssueCancelDeliverStep ==
    ASSUME BackedInv, NEW w \in Workers, CommitIssue(w) \/ CommitCancel(w) \/ CommitDeliver(w),
           overlap' \in BOOLEAN
    PROVE  BackedInv'
<1>1. /\ req' = [req EXCEPT ![w] = req'[w]] /\ req'[w] = Idle
      /\ UNCHANGED <<total, paid, due, totals, requoted, half, rows, collected, qr, processed, recorded>>
      /\ \/ status' = "ISSUED" /\ mirror' = "ISSUED" /\ delivered' = delivered
         \/ status' = "CANCELLED" /\ mirror' = mirror /\ delivered' = delivered
         \/ status' = status /\ mirror' = "PAID" /\ delivered' = TRUE
      /\ status' = status \/ req[w].op \in {"issue", "cancel"}
  <2>1. CASE CommitIssue(w)
    BY <2>1 DEF CommitIssue, Step, money, webhook, BackedInv, TypeOK
  <2>2. CASE CommitCancel(w)
    BY <2>2 DEF CommitCancel, Step, order, money, webhook, BackedInv, TypeOK
  <2>3. CASE CommitDeliver(w)
    BY <2>3 DEF CommitDeliver, Step, invoice, money, webhook, BackedInv, TypeOK
  <2> QED BY <2>1, <2>2, <2>3
<1>2. /\ TypeOK /\ PaidIsBacked /\ collected \in Nat
      /\ status' # "NONE" => status # "NONE"
  BY <1>1, Numbers DEF BackedInv, RequestOK
<1>3. RequestOK(req[w])' /\ req'[w] \in Request \cup {Idle}
  BY <1>1 DEF RequestOK, Idle
<1>4. req' \in [Workers -> Request \cup {Idle}] /\ \A v \in Workers : RequestOK(req[v])'
  BY <1>1, <1>2, <1>3, SlotStep
<1>5. TypeOK'
  BY <1>1, <1>2, <1>4 DEF TypeOK, InvoiceStatus
<1>6. PaidIsBacked'
  BY <1>1, <1>2 DEF PaidIsBacked
<1> QED BY <1>1, <1>2, <1>4, <1>5, <1>6 DEF BackedInv

\* A step that touches neither the invoice nor the sum of its payments.
LEMMA TokenStep ==
    ASSUME BackedInv, NEW w \in Workers,
           req' = [req EXCEPT ![w] = req'[w]],
           req'[w] \in Request \cup {Idle},
           req'[w].op \in {"insert", "forget", "idle"},
           UNCHANGED <<collected, invoice, order>>,
           rows' \in [Payments -> {"none", "made", "verified"}],
           qr' \in [Tokens -> {"none", "live", "gone"}],
           processed' \subseteq Tokens,
           recorded' \in [Tokens -> Nat],
           overlap' \in BOOLEAN
    PROVE  BackedInv'
<1>1. UNCHANGED <<status, total, paid, due, totals, requoted, mirror, delivered, half, collected>>
  BY DEF invoice, order
<1>2. TypeOK /\ PaidIsBacked /\ collected \in Nat /\ RequestOK(req[w])'
  BY Numbers DEF BackedInv, RequestOK
<1>3. req' \in [Workers -> Request \cup {Idle}] /\ \A v \in Workers : RequestOK(req[v])'
  BY <1>1, <1>2, SlotStep
<1>4. TypeOK'
  BY <1>1, <1>2, <1>3 DEF TypeOK
<1>5. PaidIsBacked'
  BY <1>1, <1>2 DEF PaidIsBacked
<1> QED BY <1>1, <1>3, <1>4, <1>5 DEF BackedInv

\* Verifying a payment and the steps of a QR token.
LEMMA WebhookStep ==
    ASSUME BackedInv, NEW w \in Workers,
           \/ CommitVerify(w) \/ MarkProcessed(w) \/ ForgetQR(w)
           \/ \E t \in Tokens : CommitGenerate(w, t)
           \/ \E p \in Payments : RecordConfirmed(w, p),
           overlap' \in BOOLEAN
    PROVE  BackedInv'
<1>0. /\ TypeOK
      /\ req \in [Workers -> Request \cup {Idle}]
      /\ rows \in [Payments -> {"none", "made", "verified"}]
      /\ qr \in [Tokens -> {"none", "live", "gone"}]
      /\ recorded \in [Tokens -> Nat]
      /\ processed \subseteq Tokens
  BY DEF BackedInv, TypeOK
<1>1. ASSUME CommitVerify(w) PROVE BackedInv'
  BY <1>0, <1>1, TokenStep DEF CommitVerify, Step, webhook, Idle
<1>2. ASSUME NEW op, op \in {"insert", "forget"}, req[w].op \in {"mark", "insert", "forget"},
             req' = [req EXCEPT ![w] = [req[w] EXCEPT !.op = op]]
      PROVE  /\ req' = [req EXCEPT ![w] = req'[w]]
             /\ req'[w] \in Request \cup {Idle}
             /\ req'[w].op \in {"insert", "forget", "idle"}
  BY <1>0, <1>2 DEF Request, Idle
<1>3. ASSUME MarkProcessed(w) PROVE BackedInv'
  <2>1. req[w].op = "mark" /\ req' = [req EXCEPT ![w] = [req[w] EXCEPT !.op = "insert"]]
    BY <1>3 DEF MarkProcessed, Step
  <2>2. /\ UNCHANGED <<collected, invoice, order, rows, qr, recorded>>
        /\ processed' \subseteq Tokens
    BY <1>0, <1>3, <2>1, RequestShape DEF MarkProcessed, money
  <2> QED BY <1>0, <1>2, <2>1, <2>2, TokenStep
<1>4. ASSUME NEW p \in Payments, RecordConfirmed(w, p) PROVE BackedInv'
  <2>1. req[w].op = "insert" /\ req' = [req EXCEPT ![w] = [req[w] EXCEPT !.op = "forget"]]
    BY <1>4 DEF RecordConfirmed, Step
  <2>2. /\ UNCHANGED <<collected, invoice, order, qr, processed>>
        /\ rows' \in [Payments -> {"none", "made", "verified"}]
        /\ recorded' \in [Tokens -> Nat]
    BY <1>0, <1>4, <2>1, RequestShape DEF RecordConfirmed
  <2> QED BY <1>0, <1>2, <2>1, <2>2, TokenStep
<1>5. ASSUME ForgetQR(w) PROVE BackedInv'
  <2>1. /\ req' = [req EXCEPT ![w] = req'[w]] /\ req'[w] = Idle
        /\ UNCHANGED <<collected, invoice, order, rows, processed, recorded>>
        /\ qr' \in [Tokens -> {"none", "live", "gone"}]
    BY <1>0, <1>5 DEF ForgetQR, Step, money
  <2> QED BY <1>0, <2>1, TokenStep DEF Idle
<1>6. ASSUME NEW t \in Tokens, CommitGenerate(w, t) PROVE BackedInv'
  <2>1. /\ req' = [req EXCEPT ![w] = req'[w]] /\ req'[w] = Idle
        /\ UNCHANGED <<collected, invoice, order, rows, processed, recorded>>
        /\ qr' \in [Tokens -> {"none", "live", "gone"}]
    BY <1>0, <1>6 DEF CommitGenerate, Step, money
  <2> QED BY <1>0, <2>1, TokenStep DEF Idle
<1> QED BY <1>1, <1>3, <1>4, <1>5, <1>6

LEMMA ExpiryStep ==
    ASSUME BackedInv, NEW t \in Tokens, ExpireQR(t) \/ ExpireMark(t), overlap' \in BOOLEAN
    PROVE  BackedInv'
<1>1. /\ UNCHANGED <<status, total, paid, due, totals, requoted, mirror, delivered, half,
                     rows, collected, recorded, req>>
      /\ qr' \in [Tokens -> {"none", "live", "gone"}]
      /\ processed' \subseteq Tokens
  BY DEF ExpireQR, ExpireMark, invoice, order, money, BackedInv, TypeOK
<1> QED BY <1>1 DEF BackedInv, TypeOK, PaidIsBacked, RequestOK

LEMMA BackedInit == Init => BackedInv
<1> SUFFICES ASSUME Init PROVE BackedInv
  OBVIOUS
<1>1. TypeOK
  <2>1. {total, paid, due, collected} \subseteq Nat
    BY DEF Init
  <2>4. {requoted, delivered, half, overlap} \subseteq BOOLEAN
    <3>1. requoted = FALSE /\ delivered = FALSE /\ half = FALSE /\ overlap = FALSE
      BY DEF Init
    <3> QED BY <3>1
  <2>2. /\ status \in InvoiceStatus \cup {"NONE"} /\ mirror \in InvoiceStatus
        /\ processed \subseteq Tokens /\ totals \subseteq Totals
    BY DEF Init, InvoiceStatus
  <2>3. /\ rows \in [Payments -> {"none", "made", "verified"}]
        /\ qr \in [Tokens -> {"none", "live", "gone"}]
        /\ recorded \in [Tokens -> Nat]
        /\ req \in [Workers -> Request \cup {Idle}]
    BY DEF Init
  <2> QED BY <2>1, <2>2, <2>3, <2>4 DEF TypeOK
<1>2. PaidIsBacked
  BY DEF Init, PaidIsBacked
<1> QED BY <1>1, <1>2 DEF Init, BackedInv, RequestOK, Idle

LEMMA BackedStep == BackedInv /\ [Next]_vars => BackedInv'
<1> SUFFICES ASSUME BackedInv, [Next]_vars PROVE BackedInv'
  OBVIOUS
<1>1. CASE Next
  <2>1. overlap' \in BOOLEAN
    BY <1>1 DEF Next, Observe
  <2>2. ASSUME NEW w \in Workers, Continue(w) PROVE BackedInv'
    BY <2>1, <2>2, CommitPayStep, SumStep, SettleStep, MirrorStep, TotalStep,
       IssueCancelDeliverStep, WebhookStep DEF Continue
  <2> QED BY <1>1, <2>1, <2>2, BeginStep, FailStep, ExpiryStep DEF Next, Act
<1>2. CASE UNCHANGED vars
  BY <1>2 DEF vars, BackedInv, TypeOK, PaidIsBacked, RequestOK
<1> QED BY <1>1, <1>2

\* What the requests under way know, and that the statuses rest on money, at
\* every interleaving of payments, quotes, deliveries, webhooks and crashes.
THEOREM BackedInvariant == Spec => []BackedInv
BY BackedInit, BackedStep, PTL DEF Spec

\* Every column keeps a value it may have, a sum of money included.
THEOREM BillingTypeCorrect == Spec => []TypeOK
<1>1. BackedInv => TypeOK
  BY DEF BackedInv
<1> QED BY <1>1, BackedInvariant, PTL

\* updateInvoicePaymentStatus never overstates what came in, although its sum
\* may be old when it is written.
THEOREM StatusIsBacked == Spec => []PaidIsBacked
<1>1. BackedInv => PaidIsBacked
  BY DEF BackedInv
<1> QED BY <1>1, BackedInvariant, PTL

-----------------------------------------------------------------------------
(* As long as no two requests have overlapped *)

\* A request that has been alone so far is alone in the step it takes.
LEMMA OneRequest ==
    ASSUME BackedInv, SerialInv, Observe, ~overlap', NEW w \in Workers,
           req' = [req EXCEPT ![w] = req'[w]],
           req[w] # Idle \/ req'[w] # Idle
    PROVE  /\ ~overlap /\ LedgerOK /\ TokensOK /\ SnapshotOK(req[w])
           /\ \A v \in Workers \ {w} : req[v] = Idle /\ req'[v] = Idle
<1>1. ~overlap /\ \A u, v \in Busy' : u = v
  BY DEF Observe
<1>2. /\ \A u, v \in Busy : u = v
      /\ LedgerOK /\ TokensOK /\ SnapshotOK(req[w])
  BY <1>1 DEF SerialInv
<1>3. \A v \in Workers \ {w} : req'[v] = req[v]
  BY DEF BackedInv, TypeOK
<1>4. ASSUME NEW v \in Workers \ {w} PROVE req[v] = Idle
  BY <1>1, <1>2, <1>3, <1>4 DEF Busy
<1> QED BY <1>1, <1>2, <1>3, <1>4

\* What is left to show of a step: the ledger, the tokens, and what the
\* request itself has read.
LEMMA SerialSlot ==
    ASSUME BackedInv, SerialInv, Observe, NEW w \in Workers,
           req' = [req EXCEPT ![w] = req'[w]],
           req[w] # Idle \/ req'[w] # Idle,
           ~overlap' => LedgerOK' /\ TokensOK' /\ SnapshotOK(req[w])'
    PROVE  SerialInv'
<1> SUFFICES ASSUME ~overlap'
             PROVE  /\ \A u, v \in Busy' : u = v
                    /\ \A v \in Workers : SnapshotOK(req[v])'
  BY DEF SerialInv
<1>1. \A u, v \in Busy' : u = v
  BY DEF Observe
<1>2. ASSUME NEW v \in Workers \ {w} PROVE SnapshotOK(req[v])'
  <2>1. req'[v] = Idle
    BY OneRequest
  <2> QED BY <2>1 DEF SnapshotOK, Idle
<1> QED BY <1>1, <1>2

\* When a request is alone, something is pending if it is what it has to do.
LEMMA PendingIs ==
    ASSUME NEW w \in Workers, NEW ops, "idle" \notin ops,
           \A v \in Workers \ {w} : req[v] = Idle /\ req'[v] = Idle
    PROVE  /\ Pending(ops) <=> req[w].op \in ops
           /\ Pending(ops)' <=> req'[w].op \in ops
BY DEF Pending, Idle

\* A step between two states in which no payment is on its way.
LEMMA LedgerStays ==
    ASSUME BackedInv, NEW w \in Workers, LedgerOK,
           \A v \in Workers \ {w} : req[v] = Idle /\ req'[v] = Idle,
           req[w].op \notin {"sum", "settle", "mirror"},
           UNCHANGED <<status, total, paid, due, requoted, mirror, delivered, collected>>,
           half => half'
    PROVE  LedgerOK'
<1>1. ~Pending({"sum", "settle"}) /\ ~Pending({"sum", "settle", "mirror"})
  BY PendingIs
<1> QED BY <1>1 DEF LedgerOK, LevelOK

LEMMA BeginSerial ==
    ASSUME BackedInv, SerialInv, Observe, NEW w \in Workers, Begin(w)
    PROVE  SerialInv'
<1>1. ASSUME NEW r, r # Idle, Park(w, r), ~overlap' => SnapshotOK(r)' PROVE SerialInv'
  <2>1. /\ req[w] = Idle /\ req'[w] = r /\ req' = [req EXCEPT ![w] = req'[w]]
        /\ UNCHANGED <<status, total, paid, due, requoted, mirror, delivered, half, collected,
                       qr, processed, recorded>>
    BY <1>1 DEF Park, invoice, order, money, webhook, BackedInv, TypeOK
  <2>2. ASSUME ~overlap' PROVE LedgerOK' /\ TokensOK' /\ SnapshotOK(req[w])'
    <3>1. /\ LedgerOK /\ TokensOK
          /\ \A v \in Workers \ {w} : req[v] = Idle /\ req'[v] = Idle
      BY <1>1, <2>1, <2>2, OneRequest
    <3>2. LedgerOK'
      BY <2>1, <3>1, LedgerStays DEF Idle
    <3>3. TokensOK'
      BY <2>1, <3>1 DEF TokensOK
    <3> QED BY <1>1, <2>1, <2>2, <3>2, <3>3
  <2> QED BY <1>1, <2>1, <2>2, SerialSlot
<1>2. ASSUME NEW r \in Request, Park(w, r), r.op \notin {"settle", "sum", "issue", "mirror", "mark", "insert"}
      PROVE  SerialInv'
  <2>1. r # Idle
    BY <1>2 DEF Request, Idle
  <2>2. SnapshotOK(r)'
    BY <1>2 DEF SnapshotOK
  <2> QED BY <1>1, <1>2, <2>1, <2>2
<1>3. ASSUME NEW a \in Amounts, NEW b \in BOOLEAN, BeginPay(w, a, b) PROVE SerialInv'
  BY <1>2, <1>3 DEF BeginPay, Request
<1>4. ASSUME NEW p \in Payments, BeginVerify(w, p) PROVE SerialInv'
  BY <1>2, <1>4 DEF BeginVerify, Request
<1>5. ASSUME NEW t \in Totals, BeginCreate(w, t) \/ BeginDraft(w, t) PROVE SerialInv'
  BY <1>2, <1>5 DEF BeginCreate, BeginDraft, Request
<1>6. ASSUME BeginCancel(w) \/ BeginDeliver(w) \/ BeginGenerate(w) PROVE SerialInv'
  BY <1>2, <1>6 DEF BeginCancel, BeginDeliver, BeginGenerate, Request
<1>7. ASSUME BeginIssue(w) PROVE SerialInv'
  <2>1. SnapshotOK([op |-> "issue"])'
    BY <1>7 DEF BeginIssue, Park, invoice, SnapshotOK
  <2> QED BY <1>1, <1>7, <2>1 DEF BeginIssue, Idle
<1>8. ASSUME NEW t \in Tokens, NEW b \in BOOLEAN, BeginConfirm(w, t, b) PROVE SerialInv'
  <2> DEFINE r == [op |-> "mark", t |-> t, known |-> b]
  <2>1. t \notin processed /\ qr[t] = "live" /\ Park(w, r) /\ r # Idle
    BY <1>8 DEF BeginConfirm, Idle
  <2>2. /\ req[w] = Idle /\ req'[w] = r /\ req' = [req EXCEPT ![w] = req'[w]]
        /\ UNCHANGED <<qr, processed, recorded>>
    BY <2>1 DEF Park, webhook, BackedInv, TypeOK
  <2>3. ASSUME ~overlap' PROVE SnapshotOK(r)'
    <3>1. TokensOK
      BY <2>1, <2>2, <2>3, OneRequest
    <3>2. recorded[t] \in Nat
      BY DEF BackedInv, TypeOK
    <3>3. recorded[t] = 0
      BY <2>1, <3>1, <3>2 DEF TokensOK
    <3> QED BY <2>1, <2>2, <3>3 DEF SnapshotOK
  <2> HIDE DEF r
  <2> QED BY <1>1, <2>1, <2>3
<1> QED BY <1>3, <1>4, <1>5, <1>6, <1>7, <1>8 DEF Begin

\* A request that dies leaves half a payment only if it had made one.
LEMMA FailSerial ==
    ASSUME BackedInv, SerialInv, Observe, NEW w \in Workers, Fail(w) PROVE SerialInv'
<1>1. /\ req[w] # Idle /\ req'[w] = Idle /\ req' = [req EXCEPT ![w] = req'[w]]
      /\ half' = (half \/ req[w].op \in {"sum", "settle", "mirror"})
      /\ UNCHANGED <<status, total, paid, due, requoted, mirror, delivered, collected,
                     qr, processed, recorded>>
  BY DEF Fail, invoice, money, webhook, BackedInv, TypeOK
<1>2. ASSUME ~overlap' PROVE LedgerOK' /\ TokensOK' /\ SnapshotOK(req[w])'
  <2>1. /\ LedgerOK /\ TokensOK
        /\ \A v \in Workers \ {w} : req[v] = Idle /\ req'[v] = Idle
    BY <1>1, <1>2, OneRequest
  <2>2. /\ Pending({"sum", "settle"}) => half'
        /\ Pending({"sum", "settle", "mirror"}) => half'
    <3>1. half' <=> half \/ req[w].op \in {"sum", "settle", "mirror"}
      BY <1>1
    <3> QED BY <2>1, <3>1, PendingIs
  <2>3. LedgerOK'
    <3>1. half => half'
      BY <1>1
    <3>2. LevelOK' = LevelOK
      BY <1>1 DEF LevelOK
    <3>3. half' \/ (paid' = collected' /\ LevelOK')
      BY <1>1, <2>1, <2>2, <3>1, <3>2 DEF LedgerOK
    <3>4. half' \/ status \in {"NONE", "CANCELLED"} \/ delivered \/ mirror = status
      BY <2>1, <2>2, <3>1, Zenon DEF LedgerOK
    <3> QED BY <1>1, <2>1, <3>3, <3>4 DEF LedgerOK
  <2>4. TokensOK' /\ SnapshotOK(req[w])'
    BY <1>1, <2>1 DEF TokensOK, SnapshotOK, Idle
  <2> QED BY <2>3, <2>4
<1> QED BY <1>1, <1>2, SerialSlot

LEMMA CommitPaySerial ==
    ASSUME BackedInv, SerialInv, Observe, NEW w \in Workers, NEW p \in Payments, CommitPay(w, p)
    PROVE  SerialInv'
<1>1. /\ req[w].op = "pay" /\ req[w] # Idle
      /\ req' = [req EXCEPT ![w] = req'[w]]
      /\ req'[w] = IF req[w].onInvoice THEN [op |-> "sum"] ELSE Idle
      /\ collected' = IF req[w].onInvoice THEN collected + req[w].amount ELSE collected
      /\ UNCHANGED <<status, total, paid, due, requoted, mirror, delivered, half,
                     qr, processed, recorded>>
  BY DEF CommitPay, Step, invoice, order, webhook, Idle, BackedInv, TypeOK
<1>2. ASSUME ~overlap' PROVE LedgerOK' /\ TokensOK' /\ SnapshotOK(req[w])'
  <2>1. /\ LedgerOK /\ TokensOK
        /\ \A v \in Workers \ {w} : req[v] = Idle /\ req'[v] = Idle
    BY <1>1, <1>2, OneRequest
  <2>2. TokensOK'
    BY <1>1, <2>1 DEF TokensOK
  <2>3. CASE req[w].onInvoice
    <3>1. /\ status # "NONE" /\ req[w].amount \in Nat /\ req[w].amount > 0 /\ collected \in Nat
      BY <1>1, <2>3, RequestShape, Numbers DEF BackedInv, RequestOK
    <3>2. collected' > 0 /\ req'[w].op = "sum"
      BY <1>1, <2>3, <3>1
    <3>3. Pending({"sum", "settle"})' /\ Pending({"sum", "settle", "mirror"})'
      BY <2>1, <3>2, PendingIs
    <3>4. LedgerOK'
      BY <1>1, <2>1, <3>1, <3>2, <3>3 DEF LedgerOK
    <3>5. SnapshotOK(req[w])'
      BY <3>2 DEF SnapshotOK
    <3> QED BY <2>2, <3>4, <3>5
  <2>4. CASE ~req[w].onInvoice
    <3>1. LedgerOK'
      BY <1>1, <2>1, <2>4, LedgerStays
    <3>2. SnapshotOK(req[w])'
      BY <1>1, <2>4 DEF SnapshotOK, Idle
    <3> QED BY <2>2, <3>1, <3>2
  <2> QED BY <2>3, <2>4
<1> QED BY <1>1, <1>2, SerialSlot

LEMMA SumSerial ==
    ASSUME BackedInv, SerialInv, Observe, NEW w \in Workers, Sum(w) PROVE SerialInv'
<1>1. /\ req[w].op = "sum" /\ req[w] # Idle
      /\ req' = [req EXCEPT ![w] = req'[w]]
      /\ req'[w] = [op |-> "settle", total |-> total, sum |-> collected]
      /\ UNCHANGED <<status, total, paid, due, requoted, mirror, delivered, half, collected,
                     qr, processed, recorded>>
  BY DEF Sum, Step, invoice, order, money, webhook, Idle, BackedInv, TypeOK
<1>2. ASSUME ~overlap' PROVE LedgerOK' /\ TokensOK' /\ SnapshotOK(req[w])'
  <2>1. /\ LedgerOK /\ TokensOK /\ SnapshotOK(req[w])
        /\ \A v \in Workers \ {w} : req[v] = Idle /\ req'[v] = Idle
    BY <1>1, <1>2, OneRequest
  <2>2. Pending({"sum", "settle"})' /\ Pending({"sum", "settle", "mirror"})'
    BY <1>1, <2>1, PendingIs
  <2>3. LedgerOK'
    BY <1>1, <2>1, <2>2 DEF LedgerOK
  <2>4. TokensOK'
    BY <1>1, <2>1 DEF TokensOK
  <2>5. SnapshotOK(req[w])'
    <3>1. collected > 0
      BY <1>1, <2>1 DEF SnapshotOK
    <3>2. /\ req'[w].op = "settle" /\ req'[w].sum = collected' /\ req'[w].total = total'
          /\ collected' > 0
      BY <1>1, <3>1
    <3> QED BY <3>2 DEF SnapshotOK
  <2> QED BY <2>3, <2>4, <2>5
<1> QED BY <1>1, <1>2, SerialSlot

\* The sum and the total are still what was read: the books agree again.
LEMMA SettleSerial ==
    ASSUME BackedInv, SerialInv, Observe, NEW w \in Workers, Settle(w) PROVE SerialInv'
<1>1. /\ req[w].op = "settle" /\ req[w] # Idle
      /\ req' = [req EXCEPT ![w] = req'[w]]
      /\ req'[w] = [op |-> "mirror", to |-> Level(req[w].total, req[w].sum)]
      /\ status' = Level(req[w].total, req[w].sum)
      /\ paid' = req[w].sum /\ due' = Plus(req[w].total - req[w].sum) /\ requoted' = FALSE
      /\ UNCHANGED <<total, mirror, delivered, half, collected, qr, processed, recorded>>
  BY DEF Settle, Step, order, money, webhook, Idle, BackedInv, TypeOK
<1>2. ASSUME ~overlap' PROVE LedgerOK' /\ TokensOK' /\ SnapshotOK(req[w])'
  <2>1. /\ LedgerOK /\ TokensOK /\ SnapshotOK(req[w])
        /\ \A v \in Workers \ {w} : req[v] = Idle /\ req'[v] = Idle
    BY <1>1, <1>2, OneRequest
  <2>2. /\ req[w].sum = collected /\ req[w].total = total /\ collected > 0
        /\ collected \in Nat /\ total \in Nat
    BY <1>1, <2>1, Numbers DEF SnapshotOK, BackedInv
  <2>3. /\ status' = Level(total', collected') /\ paid' = collected' /\ collected' > 0
        /\ due' = Plus(total' - paid') /\ ~requoted'
        /\ req'[w].op = "mirror" /\ req'[w].to = status'
    BY <1>1, <2>2
  <2>4. status' # "NONE"
    BY <1>1, <2>2, LevelIs
  <2>5. LevelOK'
    BY <2>3 DEF LevelOK
  <2>6. Pending({"sum", "settle", "mirror"})'
    BY <2>1, <2>3, PendingIs
  <2>7. LedgerOK'
    BY <2>3, <2>4, <2>5, <2>6 DEF LedgerOK
  <2>8. TokensOK'
    BY <1>1, <2>1 DEF TokensOK
  <2>9. SnapshotOK(req[w])'
    BY <2>3, <2>5 DEF SnapshotOK
  <2> QED BY <2>7, <2>8, <2>9
<1> QED BY <1>1, <1>2, SerialSlot

LEMMA MirrorSerial ==
    ASSUME BackedInv, SerialInv, Observe, NEW w \in Workers, Mirror(w) PROVE SerialInv'
<1>1. /\ req[w].op = "mirror" /\ req[w] # Idle /\ mirror' = req[w].to
      /\ req' = [req EXCEPT ![w] = req'[w]] /\ req'[w] = Idle
      /\ half' = (half /\ req[w].to = "DRAFT")
      /\ UNCHANGED <<status, total, paid, due, requoted, delivered, collected, qr, processed, recorded>>
  BY DEF Mirror, Step, invoice, money, webhook, Idle, BackedInv, TypeOK
<1>2. ASSUME ~overlap' PROVE LedgerOK' /\ TokensOK' /\ SnapshotOK(req[w])'
  <2>1. /\ LedgerOK /\ TokensOK /\ SnapshotOK(req[w])
        /\ \A v \in Workers \ {w} : req[v] = Idle /\ req'[v] = Idle
    BY <1>1, <1>2, OneRequest
  <2>2. /\ mirror' = status /\ status # "NONE"
        /\ req[w].to # "DRAFT" => paid = collected /\ LevelOK
    BY <1>1, <2>1, RequestShape DEF SnapshotOK, BackedInv, InvoiceStatus
  <2>3. ~Pending({"sum", "settle"})
    BY <1>1, <2>1, PendingIs
  <2>4. half' \/ (paid = collected /\ LevelOK)
    BY <1>1, <2>1, <2>2, <2>3 DEF LedgerOK
  <2>5. LedgerOK'
    BY <1>1, <2>1, <2>2, <2>4 DEF LedgerOK, LevelOK
  <2>6. TokensOK' /\ SnapshotOK(req[w])'
    BY <1>1, <2>1 DEF TokensOK, SnapshotOK, Idle
  <2> QED BY <2>5, <2>6
<1> QED BY <1>1, <1>2, SerialSlot

\* A new total: the amount due is the whole of it, and so it stays marked as
\* requoted when there have been payments.
LEMMA TotalSerial ==
    ASSUME BackedInv, SerialInv, Observe, NEW w \in Workers, CommitCreate(w) \/ CommitDraft(w)
    PROVE  SerialInv'
<1>1. /\ req[w].op \in {"create", "draft"} /\ req[w] # Idle
      /\ req' = [req EXCEPT ![w] = req'[w]]
      /\ total' = req[w].total /\ due' = req[w].total
      /\ UNCHANGED <<paid, mirror, delivered, half, collected, qr, processed, recorded>>
      /\ \/ /\ status = "NONE" /\ status' = "DRAFT" /\ requoted' = requoted
            /\ req'[w] = [op |-> "mirror", to |-> "DRAFT"]
         \/ /\ status' = IF status = "NONE" THEN "DRAFT" ELSE status
            /\ requoted' = (collected > 0)
            /\ req'[w] = Idle
  <2>1. CASE CommitCreate(w)
    BY <2>1 DEF CommitCreate, Step, SetTotal, order, money, webhook, Idle, BackedInv, TypeOK
  <2>2. CASE CommitDraft(w)
    BY <2>2 DEF CommitDraft, Step, SetTotal, order, money, webhook, Idle, BackedInv, TypeOK
  <2> QED BY <2>1, <2>2
<1>2. /\ req[w].total \in Nat /\ collected \in Nat /\ paid \in Nat /\ paid <= collected
      /\ {requoted, half, delivered} \subseteq BOOLEAN
  BY <1>1, RequestShape, Numbers DEF BackedInv, PaidIsBacked, TypeOK
<1>3. ASSUME ~overlap' PROVE LedgerOK' /\ TokensOK' /\ SnapshotOK(req[w])'
  <2>1. /\ LedgerOK /\ TokensOK
        /\ \A v \in Workers \ {w} : req[v] = Idle /\ req'[v] = Idle
    BY <1>1, <1>3, OneRequest
  <2>2. ~Pending({"sum", "settle"}) /\ ~Pending({"sum", "settle", "mirror"})
    BY <1>1, <2>1, PendingIs
  <2>3. half \/ (paid = collected /\ LevelOK)
    BY <2>1, <2>2 DEF LedgerOK
  <2>4. status = "NONE" => collected = 0 /\ ~requoted
    BY <1>2, <2>1 DEF LedgerOK
  <2>5. ~requoted' => collected = 0 /\ ~requoted /\ due' = Plus(total' - paid')
    <3>0. requoted => collected > 0
      BY <2>1 DEF LedgerOK
    <3>1. ~requoted' => collected = 0 /\ ~requoted
      <4>1. CASE status = "NONE" /\ requoted' = requoted
        BY <2>4, <4>1
      <4>2. CASE requoted' = (collected > 0)
        <5>1. requoted' <=> collected > 0
          BY <4>2
        <5> QED BY <1>2, <3>0, <5>1
      <4> QED BY <1>1, <4>1, <4>2
    <3>2. collected = 0 => total' - paid' = req[w].total
      BY <1>1, <1>2
    <3> QED BY <1>1, <1>2, <3>1, <3>2, PlusNat
  <2>6. half' \/ (paid' = collected' /\ LevelOK')
    BY <1>1, <2>3, <2>4, <2>5 DEF LevelOK
  <2>7. requoted' => collected' > 0
    BY <1>1, <2>4
  <2>8. \/ half' \/ Pending({"sum", "settle", "mirror"})'
        \/ status' \in {"NONE", "CANCELLED"} \/ delivered' \/ mirror' = status'
    <3>1. \/ half \/ status \in {"NONE", "CANCELLED"} \/ delivered \/ mirror = status
      BY <2>1, <2>2, Zenon DEF LedgerOK
    <3>2. status = "NONE" => mirror = "DRAFT" \/ delivered
      BY <2>1 DEF LedgerOK
    <3> QED BY <1>1, <3>1, <3>2
  <2>9. LedgerOK'
    BY <1>1, <2>5, <2>6, <2>7, <2>8 DEF LedgerOK
  <2>10. TokensOK'
    BY <1>1, <2>1 DEF TokensOK
  <2>11. SnapshotOK(req[w])'
    BY <1>1 DEF SnapshotOK, Idle
  <2> QED BY <2>9, <2>10, <2>11
<1> QED BY <1>1, <1>3, SerialSlot

LEMMA IssueCancelDeliverSerial ==
    ASSUME BackedInv, SerialInv, Observe, NEW w \in Workers,
           CommitIssue(w) \/ CommitCancel(w) \/ CommitDeliver(w)
    PROVE  SerialInv'
<1>1. /\ req[w].op \in {"issue", "cancel", "deliver"} /\ req[w] # Idle
      /\ req' = [req EXCEPT ![w] = req'[w]] /\ req'[w] = Idle
      /\ UNCHANGED <<total, paid, due, requoted, half, collected, qr, processed, recorded>>
      /\ \/ /\ req[w].op = "issue"
            /\ status' = "ISSUED" /\ mirror' = "ISSUED" /\ delivered' = delivered
         \/ req[w].op = "cancel" /\ status' = "CANCELLED" /\ UNCHANGED <<mirror, delivered>>
         \/ status' = status /\ mirror' = "PAID" /\ delivered' = TRUE
  <2>1. CASE CommitIssue(w)
    BY <2>1 DEF CommitIssue, Step, money, webhook, Idle, BackedInv, TypeOK
  <2>2. CASE CommitCancel(w)
    BY <2>2 DEF CommitCancel, Step, order, money, webhook, Idle, BackedInv, TypeOK
  <2>3. CASE CommitDeliver(w)
    BY <2>3 DEF CommitDeliver, Step, invoice, money, webhook, Idle, BackedInv, TypeOK
  <2> QED BY <2>1, <2>2, <2>3
<1>2. ASSUME ~overlap' PROVE LedgerOK' /\ TokensOK' /\ SnapshotOK(req[w])'
  <2>1. /\ LedgerOK /\ TokensOK /\ SnapshotOK(req[w])
        /\ \A v \in Workers \ {w} : req[v] = Idle /\ req'[v] = Idle
    BY <1>1, <1>2, OneRequest
  <2>2. ~Pending({"sum", "settle"}) /\ ~Pending({"sum", "settle", "mirror"})
    BY <1>1, <2>1, PendingIs
  <2>3. half \/ (paid = collected /\ LevelOK)
    BY <2>1, <2>2 DEF LedgerOK
  <2>4. req[w].op = "issue" => status = "DRAFT"
    BY <2>1 DEF SnapshotOK
  <2>5. half' \/ (paid' = collected' /\ LevelOK')
    <3>1. total \in Nat /\ collected \in Nat
      BY Numbers DEF BackedInv
    <3>2. Level(total, collected) # "DRAFT"
      BY <3>1, LevelIs
    <3>3. LevelOK => LevelOK'
      BY <1>1, <2>4, <3>2 DEF LevelOK
    <3> QED BY <1>1, <2>3, <3>3
  <2>6. /\ status' \in {"NONE", "CANCELLED"} \/ delivered' \/ mirror' = status' \/ half'
        /\ status' = "NONE" => collected' = 0 /\ (mirror' = "DRAFT" \/ delivered')
    <3>1. /\ status \in {"NONE", "CANCELLED"} \/ delivered \/ mirror = status \/ half
          /\ status = "NONE" => collected = 0 /\ (mirror = "DRAFT" \/ delivered)
      BY <2>1, <2>2, Zenon DEF LedgerOK
    <3> QED BY <1>1, <3>1
  <2>7. LedgerOK'
    BY <1>1, <2>1, <2>5, <2>6 DEF LedgerOK
  <2>8. TokensOK' /\ SnapshotOK(req[w])'
    BY <1>1, <2>1 DEF TokensOK, SnapshotOK, Idle
  <2> QED BY <2>7, <2>8
<1> QED BY <1>1, <1>2, SerialSlot

\* A step that leaves the books alone and keeps the tokens right.
LEMMA TokenSerial ==
    ASSUME BackedInv, SerialInv, Observe, NEW w \in Workers,
           req[w].op \in {"verify", "generate", "mark", "insert", "forget"},
           req' = [req EXCEPT ![w] = req'[w]],
           UNCHANGED <<collected, invoice, order>>,
           LedgerOK /\ TokensOK /\ SnapshotOK(req[w]) => TokensOK' /\ SnapshotOK(req[w])'
    PROVE  SerialInv'
<1>1. req[w] # Idle /\ req[w].op \notin {"sum", "settle", "mirror"}
  BY DEF Idle
<1>2. UNCHANGED <<status, total, paid, due, requoted, mirror, delivered, half, collected>>
  BY DEF invoice, order
<1>3. ASSUME ~overlap' PROVE LedgerOK' /\ TokensOK' /\ SnapshotOK(req[w])'
  <2>1. /\ LedgerOK /\ TokensOK /\ SnapshotOK(req[w])
        /\ \A v \in Workers \ {w} : req[v] = Idle /\ req'[v] = Idle
    BY <1>1, <1>3, OneRequest
  <2>2. LedgerOK'
    BY <1>1, <1>2, <2>1, LedgerStays
  <2> QED BY <2>1, <2>2
<1> QED BY <1>1, <1>3, SerialSlot

\* A token that could be confirmed has not become a payment; it is marked
\* before it does.
LEMMA WebhookSerial ==
    ASSUME BackedInv, SerialInv, Observe, NEW w \in Workers,
           \/ CommitVerify(w) \/ MarkProcessed(w) \/ ForgetQR(w)
           \/ \E t \in Tokens : CommitGenerate(w, t)
           \/ \E p \in Payments : RecordConfirmed(w, p)
    PROVE  SerialInv'
<1>0. /\ TypeOK
      /\ req \in [Workers -> Request \cup {Idle}]
      /\ qr \in [Tokens -> {"none", "live", "gone"}]
      /\ recorded \in [Tokens -> Nat]
  BY DEF BackedInv, TypeOK
<1>1. ASSUME CommitVerify(w) PROVE SerialInv'
  <2>1. /\ req[w].op = "verify" /\ req' = [req EXCEPT ![w] = req'[w]] /\ req'[w] = Idle
        /\ UNCHANGED <<collected, invoice, order, qr, processed, recorded>>
    BY <1>0, <1>1 DEF CommitVerify, Step, webhook
  <2>2. TokensOK => TokensOK' /\ SnapshotOK(req[w])'
    BY <2>1 DEF TokensOK, SnapshotOK, Idle
  <2> QED BY <2>1, <2>2, TokenSerial
<1>2. ASSUME MarkProcessed(w) PROVE SerialInv'
  <2> DEFINE t == req[w].t
  <2>1. /\ req[w].op = "mark" /\ t \in Tokens
        /\ req' = [req EXCEPT ![w] = req'[w]]
        /\ req'[w].op = "insert" /\ req'[w].t = t
        /\ UNCHANGED <<collected, invoice, order, qr, recorded>>
        /\ processed' = processed \cup {t}
    BY <1>0, <1>2, RequestShape DEF MarkProcessed, Step, money, Request, Idle
  <2>2. SnapshotOK(req[w]) => recorded[t] = 0 /\ qr[t] # "none"
    BY <2>1 DEF SnapshotOK
  <2> HIDE DEF t
  <2>3. TokensOK /\ SnapshotOK(req[w]) => TokensOK' /\ SnapshotOK(req[w])'
    BY <2>1, <2>2 DEF TokensOK, SnapshotOK
  <2> QED BY <2>1, <2>3, TokenSerial
<1>3. ASSUME NEW p \in Payments, RecordConfirmed(w, p) PROVE SerialInv'
  <2> DEFINE t == req[w].t
  <2>1. /\ req[w].op = "insert" /\ t \in Tokens
        /\ req' = [req EXCEPT ![w] = req'[w]]
        /\ req'[w].op = "forget"
        /\ UNCHANGED <<collected, invoice, order, qr, processed>>
        /\ recorded' = [recorded EXCEPT ![t] = @ + 1]
    BY <1>0, <1>3, RequestShape DEF RecordConfirmed, Step, Request, Idle
  <2>2. SnapshotOK(req[w]) =>
          recorded[t] = 0 /\ qr[t] # "none" /\ (t \in processed \/ qr[t] # "live")
    BY <2>1 DEF SnapshotOK
  <2> HIDE DEF t
  <2>3. TokensOK /\ SnapshotOK(req[w]) => TokensOK'
    <3> SUFFICES ASSUME TokensOK, SnapshotOK(req[w]), NEW u \in Tokens
                 PROVE  /\ recorded'[u] <= 1
                        /\ qr'[u] = "none" => recorded'[u] = 0
                        /\ qr'[u] = "live" /\ recorded'[u] = 1 => u \in processed'
      BY DEF TokensOK
    <3>1. CASE u = t
      BY <1>0, <2>1, <2>2, <3>1
    <3>2. CASE u # t
      BY <1>0, <2>1, <3>2 DEF TokensOK
    <3> QED BY <3>1, <3>2
  <2>4. SnapshotOK(req[w])'
    BY <2>1 DEF SnapshotOK
  <2> QED BY <2>1, <2>3, <2>4, TokenSerial
<1>4. ASSUME ForgetQR(w) PROVE SerialInv'
  <2>1. /\ req[w].op = "forget" /\ req[w].t \in Tokens
        /\ req' = [req EXCEPT ![w] = req'[w]] /\ req'[w] = Idle
        /\ UNCHANGED <<collected, invoice, order, processed, recorded>>
        /\ qr' = [qr EXCEPT ![req[w].t] = "gone"]
    BY <1>0, <1>4, RequestShape DEF ForgetQR, Step, money
  <2>2. TokensOK => TokensOK' /\ SnapshotOK(req[w])'
    BY <1>0, <2>1 DEF TokensOK, SnapshotOK, Idle
  <2> QED BY <2>1, <2>2, TokenSerial
<1>5. ASSUME NEW t \in Tokens, CommitGenerate(w, t) PROVE SerialInv'
  <2>1. /\ req[w].op = "generate" /\ qr[t] = "none"
        /\ req' = [req EXCEPT ![w] = req'[w]] /\ req'[w] = Idle
        /\ UNCHANGED <<collected, invoice, order, processed, recorded>>
        /\ qr' = [qr EXCEPT ![t] = "live"]
    BY <1>0, <1>5 DEF CommitGenerate, Step, money
  <2>2. TokensOK => TokensOK' /\ SnapshotOK(req[w])'
    BY <1>0, <2>1 DEF TokensOK, SnapshotOK, Idle
  <2> QED BY <2>1, <2>2, TokenSerial
<1> QED BY <1>1, <1>2, <1>3, <1>4, <1>5

\* The keys of a token expire: neither makes a marked payment confirmable.
LEMMA ExpirySerial ==
    ASSUME BackedInv, SerialInv, Observe, NEW t \in Tokens, ExpireQR(t) \/ ExpireMark(t)
    PROVE  SerialInv'
<1> SUFFICES ASSUME ~overlap' PROVE SerialInv'
  BY DEF SerialInv
<1>1. /\ UNCHANGED <<status, total, paid, due, requoted, mirror, delivered, half,
                     collected, recorded, req>>
      /\ \/ qr' = [qr EXCEPT ![t] = "gone"] /\ processed' = processed
         \/ qr[t] = "gone" /\ qr' = qr /\ processed' = processed \ {t}
      /\ qr \in [Tokens -> {"none", "live", "gone"}]
  BY DEF ExpireQR, ExpireMark, invoice, order, money, BackedInv, TypeOK
<1>2. /\ \A u, v \in Busy : u = v
      /\ LedgerOK /\ TokensOK /\ \A w \in Workers : SnapshotOK(req[w])
  BY DEF Observe, SerialInv
<1>3. LedgerOK' /\ (\A u, v \in Busy : u = v)'
  BY <1>1, <1>2 DEF LedgerOK, LevelOK, Pending, Busy
<1>4. TokensOK'
  BY <1>1, <1>2 DEF TokensOK
<1>5. ASSUME NEW w \in Workers PROVE SnapshotOK(req[w])'
  <2>1. req[w].op \in {"mark", "insert"} => req[w].t \in Tokens
    BY RequestShape DEF BackedInv
  <2>2. SnapshotOK(req[w]) /\ LevelOK' = LevelOK
    BY <1>1, <1>2 DEF LevelOK
  <2> QED BY <1>1, <2>1, <2>2 DEF SnapshotOK
<1> QED BY <1>3, <1>4, <1>5 DEF SerialInv

LEMMA SerialInit == Init => SerialInv
<1> SUFFICES ASSUME Init PROVE SerialInv
  OBVIOUS
<1>1. LedgerOK
  <2>1. ~requoted /\ due = Plus(total - paid)
    BY PlusNat DEF Init
  <2>2. LevelOK
    BY DEF Init, LevelOK
  <2> QED BY <2>1, <2>2 DEF Init, LedgerOK
<1>2. TokensOK
  BY DEF Init, TokensOK
<1>3. (\A u, v \in Busy : u = v) /\ \A w \in Workers : SnapshotOK(req[w])
  BY DEF Init, Busy, SnapshotOK, Idle
<1> QED BY <1>1, <1>2, <1>3 DEF SerialInv

LEMMA SerialStep == BackedInv /\ SerialInv /\ [Next]_vars => SerialInv'
<1> SUFFICES ASSUME BackedInv, SerialInv, [Next]_vars PROVE SerialInv'
  OBVIOUS
<1>1. CASE Next
  <2>1. Observe
    BY <1>1 DEF Next
  <2>2. ASSUME NEW w \in Workers, Continue(w) PROVE SerialInv'
    BY <2>1, <2>2, CommitPaySerial, SumSerial, SettleSerial, MirrorSerial, TotalSerial,
       IssueCancelDeliverSerial, WebhookSerial DEF Continue
  <2> QED BY <1>1, <2>1, <2>2, BeginSerial, FailSerial, ExpirySerial DEF Next, Act
<1>2. CASE UNCHANGED vars
  BY <1>2 DEF vars, SerialInv, LedgerOK, LevelOK, TokensOK, SnapshotOK, Pending, Busy
<1> QED BY <1>1, <1>2

\* The books between the writes of a payment, and the tokens of the webhook,
\* until two requests overlap.
THEOREM SerialInvariant == Spec => [](BackedInv /\ SerialInv)
<1>1. Init => BackedInv /\ SerialInv
  BY BackedInit, SerialInit
<1>2. BackedInv /\ SerialInv /\ [Next]_vars => (BackedInv /\ SerialInv)'
  BY BackedStep, SerialStep
<1> QED BY <1>1, <1>2, PTL DEF Spec

\* updateInvoicePaymentStatus, the quotes and the desk leave invoice and order
\* in agreement with the payments, until two requests overlap.
THEOREM BooksStayInAgreement == Spec => []BooksAgree
<1>1. SerialInv => BooksAgree
  <2> SUFFICES ASSUME SerialInv, ~overlap, Settled
               PROVE  /\ paid = collected
                      /\ ~requoted => due = Plus(total - paid)
                      /\ LevelOK
                      /\ status \in {"NONE", "CANCELLED"} \/ delivered \/ mirror = status
    BY DEF BooksAgree, LevelOK
  <2>1. LedgerOK
    BY DEF SerialInv
  <2>2. ~half /\ ~Pending({"sum", "settle"}) /\ ~Pending({"sum", "settle", "mirror"})
    BY DEF Settled, Pending
  <2> QED BY <2>1, <2>2 DEF LedgerOK
<1> QED BY <1>1, SerialInvariant, PTL

\* confirmQRPayment makes at most one payment of a token, whatever step of it
\* is lost, until two deliveries overlap.
THEOREM TokensPaidOnce == Spec => []TokenPaidOnce
<1>1. SerialInv => TokenPaidOnce
  BY DEF SerialInv, TokensOK, TokenPaidOnce
<1> QED BY <1>1, SerialInvariant, PTL

-----------------------------------------------------------------------------
(* Costs *)

\* A column in a set of at most one, and what is never below zero.
LEMMA ColumnIs ==
    /\ \A y : Else({}, y) = y
    /\ \A x, y : Else({x}, y) = x
    /\ \A s \in SUBSET Nat, y \in Nat : Else(s, y) \in Nat
<1>1. \A x, y : Else({x}, y) = x
  BY DEF Else
<1>2. ASSUME NEW s \in SUBSET Nat, NEW y \in Nat PROVE Else(s, y) \in Nat
  <2>1. CASE s = {}
    BY <2>1 DEF Else
  <2>2. CASE s # {}
    <3>1. (CHOOSE v \in s : TRUE) \in s
      BY <2>2
    <3> QED BY <2>2, <3>1 DEF Else
  <2> QED BY <2>1, <2>2
<1> QED BY <1>1, <1>2 DEF Else

LEMMA TotalIs ==
    ASSUME NEW r \in Row
    PROVE  /\ Total(r) \in Int
           /\ r.total = {} => Total(r) = r.final
           /\ \A x : r.total = {x} => Total(r) = x
<1>1. r.total \in SUBSET Int /\ r.final \in Int
  BY DEF Row
<1>2. ASSUME r.total # {} PROVE Total(r) \in r.total
  <2>1. (CHOOSE t \in r.total : TRUE) \in r.total
    BY <1>2
  <2> QED BY <1>2, <2>1 DEF Total
<1> QED BY <1>1, <1>2 DEF Total

LEMMA Max0Is ==
    ASSUME NEW x \in Int
    PROVE  /\ Max0(x) \in Int /\ Max0(x) >= 0 /\ Max0(x) >= x
           /\ \A y \in Int, d \in Int : x <= Max0(y) => Max0(x - d) <= Max0(y) + Max0(0 - d)
BY DEF Max0

\* Staying within a quote is told by the total, the final amount and the discount.
LEMMA WithinIs ==
    ASSUME NEW r \in Row, NEW q \in [status : QuoteStatus, total : Int]
    PROVE  /\ r.total = {} => Within(r, q)
           /\ r.total = {r.final} /\ r.final <= q.total => Within(r, q)
           /\ \A s \in Row, p \in [status : QuoteStatus, total : Int] :
                Within(r, q) /\ s.total = r.total /\ s.final = r.final
                /\ s.discount = r.discount /\ p.total = q.total => Within(s, p)
<1>1. ASSUME r.total = {r.final}, r.final <= q.total PROVE Within(r, q)
  <2>1. r.final \in Int /\ q.total \in Int /\ r.discount \in Int
    <3>1. r.final \in Int /\ q.total \in Int /\ r.discount \in Discounts \cup {0}
      BY DEF Row
    <3>2. \A d \in Discounts \cup {0} : d \in Int
      BY CostsAssumption
    <3> QED BY <3>1, <3>2
  <2>2. r.final <= Max0(q.total) /\ Max0(q.total) \in Int
    BY <1>1, <2>1 DEF Max0
  <2>3. Surcharge(r) \in Int /\ Surcharge(r) >= 0
    BY <2>1 DEF Surcharge, Max0
  <2>4. r.final <= Max0(q.total) + Surcharge(r)
    BY <2>1, <2>2, <2>3
  <2> QED BY <1>1, <2>2, <2>4 DEF Within
<1>2. r.total = {} => Within(r, q)
  BY DEF Within
<1>3. \A s \in Row, p \in [status : QuoteStatus, total : Int] :
        Within(r, q) /\ s.total = r.total /\ s.final = r.final
        /\ s.discount = r.discount /\ p.total = q.total => Within(s, p)
  BY DEF Within, Surcharge
<1> QED BY <1>1, <1>2, <1>3

\* The kind of a request is told by its op.
LEMMA CostsShape ==
    ASSUME CostsTypeOK, NEW w \in Workers
    PROVE  /\ req[w].op = "patch" => req[w] \in PatchRequest
           /\ req[w].op \in {"event", "report"} => req[w] \in HourRequest
           /\ req[w].op = "discount" => req[w] \in DiscountRequest
           /\ req[w].op = "send" => req[w] \in SendRequest
           /\ req[w].op = "convert" => req[w] \in [op : {"convert"}, total : Int]
           /\ req[w].op = "deliver" => req[w] \in ChargeRequest
           /\ req[w].op # "idle" => req[w] # Idle
<1>1. req[w] \in CostsRequest \cup {Idle}
  BY DEF CostsTypeOK
<1> QED
  BY <1>1 DEF CostsRequest, PatchRequest, HourRequest, DiscountRequest, SendRequest,
              QuoteRequest, ChargeRequest, Idle

\* The row is written: whoever is still under way has read another one.
LEMMA Written ==
    ASSUME CostsInv, NEW ws \in SUBSET Workers, Outdates(ws),
           req' = [v \in Workers |-> IF v \in ws THEN Idle ELSE req[v]],
           row' \in Row, quote' \in [status : QuoteStatus, total : Int],
           charged' \in SUBSET Int, owed' \in Nat, repriced' \in BOOLEAN, astray' \in BOOLEAN,
           quote'.status = "NONE" => quote'.total = 0,
           ~astray' => /\ ~repriced' => Within(row', quote')
                       /\ charged' # {} => row'.status = "DELIVERED" /\ charged' = {row'.final}
                       /\ ~Reporting' => row'.labor = owed'
    PROVE  CostsInv'
<1>1. req \in [Workers -> CostsRequest \cup {Idle}]
  BY DEF CostsInv, CostsTypeOK
<1>2. \A v \in Workers : v \notin behind' => req'[v] = Idle
  BY <1>1 DEF Outdates
<1>3. CostsTypeOK'
  <2>1. req' \in [Workers -> CostsRequest \cup {Idle}]
    BY <1>1
  <2>2. behind' \subseteq {v \in Workers : req'[v] # Idle}
    BY <1>1 DEF Outdates
  <2> QED BY <2>1, <2>2 DEF CostsTypeOK
<1>4. (\A v \in Workers \ behind : ReadStill(req[v]))'
  BY <1>2 DEF ReadStill, Idle
<1>5. (\A v \in Workers : HourIsOwed(v))'
  BY <1>2 DEF HourIsOwed, Idle
<1>6. HoursBilled'
  BY DEF HoursBilled
<1>7. Within(row, quote)' <=> Within(row', quote')
  BY DEF Within, Max0, Surcharge
<1> QED BY <1>3, <1>4, <1>5, <1>6, <1>7 DEF CostsInv

\* What a request that writes the row may count on.
LEMMA WritesOn ==
    ASSUME CostsInv, NEW w \in Workers, NEW op, Writes(w, op)
    PROVE  /\ req' = [v \in Workers |-> IF v \in {w} THEN Idle ELSE req[v]]
           /\ {w} \in SUBSET Workers /\ Outdates({w}) /\ astray' \in BOOLEAN
           /\ ~astray' => ~astray /\ w \notin behind /\ ReadStill(req[w])
           /\ op # "report" /\ ~Reporting' => ~Reporting
<1>1. req \in [Workers -> CostsRequest \cup {Idle}] /\ astray \in BOOLEAN
  BY DEF CostsInv, CostsTypeOK
<1>2. req' = [v \in Workers |-> IF v \in {w} THEN Idle ELSE req[v]]
  BY <1>1 DEF Writes
<1>3. ~astray' => ~astray /\ w \notin behind /\ ReadStill(req[w])
  BY DEF Writes, CostsInv
<1>4. op # "report" /\ ~Reporting' => ~Reporting
  BY <1>2 DEF Writes, Reporting
<1> QED BY <1>1, <1>2, <1>3, <1>4 DEF Writes

\* Before a request begins or ends nothing but its slot changes.
LEMMA ChecksKeep ==
    ASSUME CostsInv, NEW w \in Workers, NEW r \in CostsRequest,
           Check(w, r), r.op # "report", ReadStill(r)
    PROVE  CostsInv'
<1>1. /\ req \in [Workers -> CostsRequest \cup {Idle}]
      /\ req' = [v \in Workers |-> IF v = w THEN r ELSE req[v]]
      /\ UNCHANGED <<row, quote, charged, owed, repriced, behind, astray>>
  BY DEF Check, CostsInv, CostsTypeOK
<1>2. CostsTypeOK'
  BY <1>1 DEF CostsInv, CostsTypeOK, Check
<1>3. ASSUME ~astray PROVE (\A v \in Workers \ behind : ReadStill(req[v]))'
  <2>1. \A v \in Workers \ behind : ReadStill(req'[v])
    BY <1>1, <1>3 DEF CostsInv
  <2>3. (\A v \in Workers \ behind : ReadStill(req[v]))' <=>
            \A v \in Workers \ behind : ReadStill(req'[v])
    BY <1>1 DEF ReadStill, Total, Max0
  <2> QED BY <2>1, <2>3
<1>4. \A v \in Workers : req'[v].op = "report" <=> req[v].op = "report"
  BY <1>1 DEF Check, Idle
<1>5. ASSUME ~astray PROVE (\A v \in Workers : HourIsOwed(v))'
  BY <1>1, <1>4, <1>5 DEF CostsInv, HourIsOwed
<1>6. HoursBilled'
  BY <1>1, <1>4 DEF CostsInv, HoursBilled, Reporting
<1>7. Within(row, quote)' <=> Within(row, quote)
  BY <1>1 DEF Within, Max0, Surcharge
<1> QED BY <1>1, <1>2, <1>3, <1>5, <1>6, <1>7 DEF CostsInv

\* The checks of each handler, on a row they have just read.
LEMMA CostsBeginKeeps ==
    ASSUME CostsInv, NEW w \in Workers, CostsBegin(w)
    PROVE  CostsInv'
<1>0. /\ row \in Row /\ quote.total \in Int /\ Total(row) \in Int
      /\ row.labor \in Nat /\ row.parts \in Nat /\ row.final \in Int
      /\ row.discount \in Int /\ Rate \in Nat
      /\ Labours \subseteq Nat /\ Parts \subseteq Nat /\ Customs \subseteq Nat
      /\ Discounts \subseteq Int
  <2>1. row \in Row /\ quote.total \in Int
    BY DEF CostsInv, CostsTypeOK
  <2>2. Total(row) \in Int
    BY <2>1, TotalIs
  <2>3. /\ row.labor \in Nat /\ row.parts \in Nat /\ row.final \in Int
        /\ row.discount \in Discounts \cup {0}
    BY <2>1 DEF Row
  <2>4. row.discount \in Int
    <3>1. \A d \in Discounts : d \in Int
      BY CostsAssumption
    <3>2. row.discount \in Discounts \/ row.discount = 0
      BY <2>3
    <3> QED BY <3>1, <3>2
  <2> QED BY <2>1, <2>2, <2>3, <2>4, CostsAssumption
<1>1. ASSUME NEW l \in SUBSET Labours, NEW p \in SUBSET Parts, BeginPatch(w, l, p)
      PROVE  CostsInv'
  <2>1. Else(l, row.labor) + Else(p, row.parts) \in Int
    BY <1>0, ColumnIs
  <2> QED BY <1>1, <2>1, ChecksKeep DEF BeginPatch, CostsRequest, PatchRequest, ReadStill
<1>2. ASSUME NEW l \in Labours, NEW p \in Parts, NEW c \in Customs, BeginSendQuote(w, l, p, c)
      PROVE  CostsInv'
  <2>1. /\ l \in Nat /\ p + c \in Nat /\ l + p + c - row.discount \in Int
    BY <1>0
  <2> QED BY <1>2, <2>1, ChecksKeep DEF BeginSendQuote, CostsRequest, SendRequest, ReadStill
<1>3. ASSUME BeginReport(w) PROVE CostsInv'
  BY <1>0, <1>3, ChecksKeep DEF BeginReport, CostsRequest, HourRequest, ReadStill
<1>4. ASSUME NEW d \in Discounts, NEW owner \in BOOLEAN, BeginDiscount(w, d, owner)
      PROVE  CostsInv'
  <2>1. Max0(Total(row) - d) \in Int
    BY <1>0, Max0Is
  <2> QED BY <1>4, <2>1, ChecksKeep DEF BeginDiscount, CostsRequest, DiscountRequest, ReadStill
<1>5. CASE BeginApprove(w) \/ BeginReject(w) \/ BeginConvert(w)
  BY <1>0, <1>5, ChecksKeep
     DEF BeginApprove, BeginReject, BeginConvert, CostsRequest, QuoteRequest, ReadStill
<1>6. CASE BeginCharge(w)
  BY <1>0, <1>6, ChecksKeep DEF BeginCharge, CostsRequest, ChargeRequest, ReadStill
<1>7. ASSUME NEW l \in Labours, NEW p \in Parts,
             BeginPatch(w, {l}, {p}) \/ BeginPatch(w, {l}, {}) \/ BeginPatch(w, {}, {p})
      PROVE  CostsInv'
  <2>1. {} \in SUBSET Labours /\ {} \in SUBSET Parts /\ {l} \in SUBSET Labours /\ {p} \in SUBSET Parts
    OBVIOUS
  <2> QED BY <1>1, <1>7, <2>1
<1> QED BY <1>2, <1>3, <1>4, <1>5, <1>6, <1>7 DEF CostsBegin

\* A request that fails takes nothing with it but an hour already in the events.
LEMMA CostsFailKeeps ==
    ASSUME CostsInv, NEW w \in Workers, CostsFail(w)
    PROVE  CostsInv'
<1>1. /\ req \in [Workers -> CostsRequest \cup {Idle}]
      /\ req' = [v \in Workers |-> IF v = w THEN Idle ELSE req[v]]
      /\ behind' = behind \ {w}
      /\ UNCHANGED <<row, quote, charged, owed, repriced>>
  BY DEF CostsFail, CostsInv, CostsTypeOK
<1>2. CostsTypeOK'
  <2>1. astray' \in BOOLEAN
    BY DEF CostsFail, CostsInv, CostsTypeOK
  <2> QED BY <1>1, <2>1 DEF CostsInv, CostsTypeOK
<1>3. ASSUME ~astray' PROVE ~astray /\ \A v \in Workers : req'[v].op = "report" <=> req[v].op = "report"
  <2>1. ~astray /\ req[w].op # "report"
    BY <1>3 DEF CostsFail
  <2> QED BY <1>1, <2>1 DEF Idle
<1>4. ASSUME ~astray' PROVE (\A v \in Workers \ behind : ReadStill(req[v]))'
  <2>1. \A v \in Workers \ behind' : v = w \/ v \in Workers \ behind
    BY <1>1
  <2>2. \A v \in Workers \ behind' : ReadStill(req'[v])
    BY <1>1, <1>3, <1>4, <2>1 DEF CostsInv, ReadStill, Idle
  <2> QED BY <1>1, <2>2 DEF ReadStill, Total, Max0
<1>5. ASSUME ~astray' PROVE (\A v \in Workers : HourIsOwed(v))'
  BY <1>1, <1>3, <1>5 DEF CostsInv, HourIsOwed, Idle
<1>6. HoursBilled'
  BY <1>1, <1>3 DEF CostsInv, HoursBilled, Reporting
<1>7. Within(row, quote)' <=> Within(row, quote)
  BY <1>1 DEF Within, Max0, Surcharge
<1> QED BY <1>1, <1>2, <1>3, <1>4, <1>5, <1>6, <1>7 DEF CostsInv

\* The hour is in the events and the labour still the one the report read.
LEMMA EventKeeps ==
    ASSUME CostsInv, NEW w \in Workers, WriteEvent(w)
    PROVE  CostsInv'
<1>1. /\ req \in [Workers -> CostsRequest \cup {Idle}]
      /\ req[w].op = "event" /\ req[w] \in HourRequest
      /\ row \in Row /\ owed \in Nat /\ Rate \in Nat
  BY CostsShape, CostsAssumption DEF WriteEvent, CostsInv, CostsTypeOK
<1>2. PICK r : /\ r = [req[w] EXCEPT !.op = "report"]
               /\ req' = [req EXCEPT ![w] = r]
  BY DEF WriteEvent
<1>3. /\ r \in HourRequest /\ r.op = "report" /\ r.labor = req[w].labor
      /\ req' = [v \in Workers |-> IF v = w THEN r ELSE req[v]]
      /\ r # Idle
  BY <1>1, <1>2 DEF HourRequest, Idle
<1>4. owed' = owed + Rate /\ UNCHANGED <<row, quote, charged, repriced, behind, astray>>
  BY DEF WriteEvent
<1>5. CostsTypeOK'
  BY <1>1, <1>3, <1>4 DEF CostsInv, CostsTypeOK, CostsRequest
<1>6. Reporting'
  BY <1>3 DEF Reporting
<1>7. ASSUME ~astray PROVE (\A v \in Workers \ behind : ReadStill(req[v]))'
  <2>1. \A v \in Workers \ behind : ReadStill(req[v])
    BY <1>7 DEF CostsInv
  <2>2. \A v \in Workers \ behind : ReadStill(req'[v])
    BY <1>1, <1>3, <2>1 DEF ReadStill
  <2> QED BY <1>4, <2>2 DEF ReadStill, Total, Max0
<1>8. ASSUME ~astray, NEW u \in Workers PROVE HourIsOwed(u)'
  <2> SUFFICES ASSUME req'[u].op = "report", u \notin behind,
                      \A v \in Workers : req'[v].op = "report" => v = u
               PROVE  owed + Rate = row.labor + Rate
    BY <1>4 DEF HourIsOwed
  <2>1. u = w
    BY <1>3
  <2>2. ~Reporting
    BY <1>1, <1>3, <2>1 DEF Reporting
  <2> QED BY <1>8, <2>2 DEF CostsInv, HoursBilled
<1>9. Within(row, quote)' <=> Within(row, quote)
  BY <1>4 DEF Within, Max0, Surcharge
<1> QED BY <1>4, <1>5, <1>6, <1>7, <1>8, <1>9 DEF CostsInv, HoursBilled

\* The columns of the row, and what it holds as long as nothing went astray.
LEMMA RowIs ==
    ASSUME CostsInv
    PROVE  /\ row = [status |-> row.status, labor |-> row.labor, parts |-> row.parts,
                     total |-> row.total, discount |-> row.discount, final |-> row.final]
           /\ row.status \in Status /\ row.labor \in Nat /\ row.parts \in Nat
           /\ row.total \in SUBSET Int /\ row.discount \in Discounts \cup {0} /\ row.final \in Int
           /\ quote.status \in QuoteStatus /\ quote.total \in Int
           /\ quote \in [status : QuoteStatus, total : Int]
           /\ quote.status = "NONE" => quote.total = 0
           /\ Total(row) \in Int
           /\ row \in Row /\ charged \in SUBSET Int /\ owed \in Nat
           /\ repriced \in BOOLEAN /\ astray \in BOOLEAN
           /\ req \in [Workers -> CostsRequest \cup {Idle}]
           /\ ~astray => /\ ~repriced => Within(row, quote)
                         /\ charged # {} => row.status = "DELIVERED" /\ charged = {row.final}
                         /\ ~Reporting => row.labor = owed
<1>1. row \in Row /\ quote \in [status : QuoteStatus, total : Int]
  BY DEF CostsInv, CostsTypeOK
<1>2. Total(row) \in Int
  BY <1>1, TotalIs
<1> QED BY <1>1, <1>2 DEF CostsInv, CostsTypeOK, HoursBilled, Row

\* A status alone: the money stays as it is.
LEMMA MoveKeeps ==
    ASSUME CostsInv, NEW s \in Status, Move(s)
    PROVE  CostsInv'
<1>1. req' = [v \in Workers |-> IF v \in {} THEN Idle ELSE req[v]]
  BY RowIs DEF Move
<1>2. /\ row' = [row EXCEPT !.status = s]
      /\ row' \in Row /\ row'.final = row.final /\ row'.total = row.total
      /\ row'.discount = row.discount /\ row'.labor = row.labor /\ charged' = {}
  BY RowIs DEF Move, Row
<1>3. Within(row, quote) => Within(row', quote)
  BY <1>2, WithinIs, RowIs
<1>4. ~Reporting' => ~Reporting
  BY DEF Move, Reporting
<1> QED BY <1>1, <1>2, <1>3, <1>4, Written, RowIs DEF Move

\* The draft says nothing: its total is zero, and so is the order's so far.
LEMMA DraftKeeps ==
    ASSUME CostsInv, DraftQuote
    PROVE  CostsInv'
<1>1. req' = [v \in Workers |-> IF v \in {} THEN Idle ELSE req[v]]
  BY RowIs DEF DraftQuote
<1>2. quote' \in [status : QuoteStatus, total : Int] /\ quote'.total = quote.total
  BY RowIs DEF DraftQuote, QuoteStatus
<1>3. ~Reporting' => ~Reporting
  BY DEF DraftQuote, Reporting
<1>4. Within(row, quote) => Within(row, quote')
  BY <1>2, WithinIs, RowIs
<1> QED BY <1>1, <1>2, <1>3, <1>4, Written, RowIs DEF DraftQuote

LEMMA CommitPatchKeeps ==
    ASSUME CostsInv, NEW w \in Workers, CommitPatch(w)
    PROVE  CostsInv'
<1> DEFINE l == Else(req[w].newLabor, row.labor)
<1> DEFINE p == Else(req[w].newParts, row.parts)
<1>1. Writes(w, "patch")
  BY DEF CommitPatch
<1>2. req[w] \in PatchRequest
  BY <1>1, CostsShape DEF Writes, CostsInv
<1>3. l \in Nat /\ p \in Nat /\ Else(req[w].newLabor, owed) \in Nat
  <2>1. req[w].newLabor \in SUBSET Nat /\ req[w].newParts \in SUBSET Nat
    BY <1>2, CostsAssumption DEF PatchRequest
  <2> QED BY <2>1, RowIs, ColumnIs
<1>4. /\ row' \in Row /\ row'.final = row.final /\ row'.status = row.status /\ row'.labor = l
      /\ owed' \in Nat
  BY <1>2, <1>3, RowIs DEF CommitPatch, PatchRequest, Row
<1>5. ASSUME row.labor = owed PROVE row'.labor = owed'
  BY <1>4, <1>5 DEF CommitPatch
<1> HIDE DEF l, p
<1>6. /\ repriced' = TRUE /\ UNCHANGED <<quote, charged>>
      /\ owed' = Else(req[w].newLabor, owed)
  BY DEF CommitPatch
<1>7. ASSUME ~astray'
      PROVE  /\ charged' # {} => row'.status = "DELIVERED" /\ charged' = {row'.final}
             /\ ~Reporting' => row'.labor = owed'
  <2>1. ~astray
    BY <1>1, <1>7, WritesOn
  <2>4. ~Reporting' => ~Reporting
    <3>1. req' = [v \in Workers |-> IF v \in {w} THEN Idle ELSE req[v]]
      BY <1>1, WritesOn
    <3> QED BY <1>1, <3>1 DEF Writes, Reporting
  <2>2. /\ charged # {} => row.status = "DELIVERED" /\ charged = {row.final}
        /\ ~Reporting => row.labor = owed
    BY <2>1, RowIs
  <2>3. charged' # {} => row'.status = "DELIVERED" /\ charged' = {row'.final}
    BY <1>4, <1>6, <2>2
  <2> QED BY <1>5, <2>2, <2>3, <2>4
<1> QED BY <1>1, <1>4, <1>6, <1>7, WritesOn, Written, RowIs

LEMMA CommitReportKeeps ==
    ASSUME CostsInv, NEW w \in Workers, CommitReport(w)
    PROVE  CostsInv'
<1>1. Writes(w, "report") /\ req[w].op = "report"
  BY DEF CommitReport, Writes
<1>2. req[w] \in HourRequest
  BY <1>1, CostsShape DEF CostsInv
<1>3. /\ row' \in Row /\ row'.final = row.final /\ row'.status = row.status
      /\ row'.total = row.total /\ row'.discount = row.discount /\ row'.labor = req[w].labor
  BY <1>2, RowIs DEF CommitReport, HourRequest, Row
<1>4. Within(row, quote) => Within(row', quote)
  BY <1>3, WithinIs, RowIs
<1>5. ASSUME ~astray', ~Reporting' PROVE row'.labor = owed'
  <2>1. ~astray /\ w \notin behind /\ req[w].labor = row.labor + Rate
    BY <1>1, <1>5, WritesOn DEF ReadStill
  <2>2. \A v \in Workers : req[v].op = "report" => v = w
    BY <1>1, <1>5, WritesOn DEF Reporting
  <2>3. owed = row.labor + Rate
    BY <1>1, <2>1, <2>2 DEF CostsInv, HourIsOwed
  <2> QED BY <1>3, <2>1, <2>3 DEF CommitReport
<1> QED BY <1>1, <1>3, <1>4, <1>5, WritesOn, Written, RowIs DEF CommitReport

LEMMA CommitDiscountKeeps ==
    ASSUME CostsInv, NEW w \in Workers, CommitDiscount(w)
    PROVE  CostsInv'
<1>1. Writes(w, "discount") /\ req[w].op = "discount"
  BY DEF CommitDiscount, Writes
<1>2. req[w] \in DiscountRequest /\ req[w].d \in Int
  BY <1>1, CostsShape, CostsAssumption DEF CostsInv, DiscountRequest
<1>3. /\ row' \in Row /\ row'.final = req[w].final /\ row'.status = row.status
      /\ row'.total = row.total /\ row'.labor = row.labor /\ row'.discount = req[w].d
  BY <1>2, RowIs DEF CommitDiscount, DiscountRequest, Row
<1>5. ASSUME ~astray'
      PROVE  row.status # "DELIVERED" /\ req[w].final = Max0(Total(row) - req[w].d)
  BY <1>1, <1>5, WritesOn DEF ReadStill
<1>6. ASSUME ~astray', ~repriced'
      PROVE  Within(row', quote)
  <2>1. Within(row, quote) /\ Total(row) \in Int /\ quote.total \in Int
    BY <1>1, <1>6, WritesOn, RowIs DEF CommitDiscount
  <2>2. \A t \in row'.total : t <= Max0(quote.total)
    BY <1>3, <2>1 DEF Within
  <2>3. ASSUME row'.total # {}
        PROVE  row'.final <= Max0(quote.total) + Surcharge(row')
    <3>1. Total(row) \in row.total
      <4>1. (CHOOSE t \in row.total : TRUE) \in row.total
        BY <1>3, <2>3
      <4> QED BY <1>3, <2>3, <4>1 DEF Total
    <3>2. Total(row) <= Max0(quote.total)
      BY <2>1, <3>1 DEF Within
    <3>3. Max0(Total(row) - req[w].d) <= Max0(quote.total) + Max0(0 - req[w].d)
      BY <1>2, <2>1, <3>2, Max0Is
    <3> QED BY <1>3, <1>5, <1>6, <3>3 DEF Surcharge
  <2> QED BY <2>2, <2>3 DEF Within
<1>7. ASSUME ~astray' PROVE charged' = {}
  BY <1>1, <1>5, <1>7, WritesOn, RowIs DEF CommitDiscount
<1> QED BY <1>1, <1>3, <1>6, <1>7, WritesOn, Written, RowIs DEF CommitDiscount

LEMMA CommitSendQuoteKeeps ==
    ASSUME CostsInv, NEW w \in Workers, CommitSendQuote(w)
    PROVE  CostsInv'
<1>1. Writes(w, "send") /\ req[w].op = "send"
  BY DEF CommitSendQuote, Writes
<1>2. req[w] \in SendRequest
  BY <1>1, CostsShape DEF CostsInv
<1>3. /\ row' \in Row /\ row'.final = req[w].total /\ row'.status = row.status
      /\ row'.total = {req[w].total} /\ row'.labor = req[w].labor
      /\ quote' = [status |-> "SENT", total |-> req[w].total]
      /\ req[w].total \in Int /\ req[w].labor \in Nat
  BY <1>2, RowIs DEF CommitSendQuote, SendRequest, Row
<1>5. ASSUME ~astray' PROVE charged' = {}
  BY <1>1, <1>5, WritesOn, RowIs DEF CommitSendQuote, ReadStill
<1>6. quote' \in [status : QuoteStatus, total : Int] /\ quote'.total = req[w].total
  BY <1>3 DEF QuoteStatus
<1>7. Within(row', quote')
  BY <1>3, <1>6, WithinIs
<1>8. owed' = req[w].labor /\ owed' \in Nat /\ repriced' \in BOOLEAN /\ charged' \in SUBSET Int
  BY <1>3, RowIs DEF CommitSendQuote
<1> QED BY <1>1, <1>3, <1>5, <1>6, <1>7, <1>8, WritesOn, Written

LEMMA CommitDecisionKeeps ==
    ASSUME CostsInv, NEW w \in Workers, CommitApprove(w) \/ CommitReject(w)
    PROVE  CostsInv'
<1>1. PICK op \in {"approve", "reject"} : Writes(w, op)
  BY DEF CommitApprove, CommitReject
<1>2. /\ row' \in Row /\ row'.final = row.final /\ row'.labor = row.labor
      /\ row'.total = row.total /\ row'.discount = row.discount
      /\ charged' # {} => UNCHANGED <<charged, row>>
      /\ charged' \in SUBSET Int
      /\ quote' \in [status : QuoteStatus, total : Int]
      /\ quote'.total = quote.total /\ quote'.status # "NONE"
      /\ UNCHANGED <<owed, repriced>>
  <2>1. CASE CommitApprove(w)
    <3>1. row' = [row EXCEPT !.status = "BUDGETED"] /\ quote' = [quote EXCEPT !.status = "APPROVED"]
      BY <2>1 DEF CommitApprove
    <3>2. /\ row' \in Row /\ row'.final = row.final /\ row'.labor = row.labor
          /\ row'.total = row.total /\ row'.discount = row.discount
      BY <3>1, RowIs DEF Row, Status
    <3>3. /\ quote' \in [status : QuoteStatus, total : Int]
          /\ quote'.total = quote.total /\ quote'.status # "NONE"
      BY <3>1, RowIs DEF QuoteStatus
    <3> QED BY <2>1, <3>2, <3>3 DEF CommitApprove
  <2>2. CASE CommitReject(w)
    BY <2>2, RowIs DEF CommitReject, QuoteStatus
  <2> QED BY <2>1, <2>2
<1>3. Within(row, quote) => Within(row', quote')
  BY <1>2, WithinIs, RowIs
<1>4. ASSUME ~astray' PROVE ~astray /\ (~Reporting' => ~Reporting)
  BY <1>1, <1>4, WritesOn
<1> QED BY <1>1, <1>2, <1>3, <1>4, WritesOn, Written, RowIs

LEMMA CommitConvertKeeps ==
    ASSUME CostsInv, NEW w \in Workers, CommitConvert(w)
    PROVE  CostsInv'
<1>1. Writes(w, "convert") /\ req[w].op = "convert"
  BY DEF CommitConvert, Writes
<1>2. req[w].total \in Int
  BY <1>1, CostsShape DEF CostsInv
<1>3. /\ row' \in Row /\ row'.final = req[w].total /\ row'.total = {req[w].total}
      /\ row'.labor = row.labor /\ charged' = {} /\ repriced' \in BOOLEAN /\ owed' = owed
      /\ quote' \in [status : QuoteStatus, total : Int]
      /\ quote'.total = quote.total /\ quote'.status # "NONE"
  BY <1>2, RowIs DEF CommitConvert, Row, Status, QuoteStatus
<1>5. ASSUME ~astray'
      PROVE  ~astray /\ req[w].total = quote.total /\ (~Reporting' => ~Reporting)
  BY <1>1, <1>5, WritesOn DEF ReadStill
<1>6. ASSUME ~astray' PROVE Within(row', quote')
  BY <1>3, <1>5, <1>6, WithinIs, RowIs
<1> QED BY <1>1, <1>3, <1>5, <1>6, WritesOn, Written, RowIs

LEMMA CommitChargeKeeps ==
    ASSUME CostsInv, NEW w \in Workers, CommitCharge(w)
    PROVE  CostsInv'
<1>1. Writes(w, "deliver") /\ req[w].op = "deliver"
  BY DEF CommitCharge, Writes
<1>2. req[w].amount \in Int
  BY <1>1, CostsShape DEF CostsInv, ChargeRequest
<1>3. /\ row' \in Row /\ row'.status = "DELIVERED" /\ row'.final = row.final
      /\ row'.total = row.total /\ row'.discount = row.discount /\ row'.labor = row.labor
      /\ charged' = {req[w].amount} /\ UNCHANGED <<quote, owed, repriced>>
  BY RowIs DEF CommitCharge, Row, Status
<1>4. Within(row, quote) => Within(row', quote)
  BY <1>3, WithinIs, RowIs
<1>5. ASSUME ~astray'
      PROVE  ~astray /\ req[w].amount = row.final /\ (~Reporting' => ~Reporting)
  BY <1>1, <1>5, WritesOn DEF ReadStill
<1>6. charged' \in SUBSET Int
  BY <1>2, <1>3
<1> QED BY <1>1, <1>3, <1>4, <1>5, <1>6, WritesOn, Written, RowIs

LEMMA CostsStart == CostsInit => CostsInv
<1> SUFFICES ASSUME CostsInit PROVE CostsInv
  OBVIOUS
<1>1. row \in Row /\ quote \in [status : QuoteStatus, total : Int] /\ quote.total = 0
  BY DEF CostsInit, Row, Status, QuoteStatus
<1>2. CostsTypeOK
  BY <1>1 DEF CostsInit, CostsTypeOK
<1>3. row.total = {} /\ row.labor = 0
  BY DEF CostsInit
<1>4. \A w \in Workers : req[w].op = "idle"
  BY DEF CostsInit, Idle
<1>5. Within(row, quote)
  BY <1>1, <1>3, WithinIs
<1> QED BY <1>1, <1>2, <1>3, <1>4, <1>5
        DEF CostsInit, CostsInv, HoursBilled, HourIsOwed, ReadStill

LEMMA CostsStep == CostsInv /\ [CostsNext]_costsVars => CostsInv'
<1> SUFFICES ASSUME CostsInv, [CostsNext]_costsVars PROVE CostsInv'
  OBVIOUS
<1>1. ASSUME NEW w \in Workers, CostsCommit(w) PROVE CostsInv'
  BY <1>1, CommitPatchKeeps, EventKeeps, CommitReportKeeps, CommitDiscountKeeps,
     CommitSendQuoteKeeps, CommitDecisionKeeps, CommitConvertKeeps, CommitChargeKeeps
     DEF CostsCommit
<1>2. CASE UNCHANGED costsVars
  BY <1>2 DEF costsVars, CostsInv, CostsTypeOK, ReadStill, HourIsOwed, HoursBilled,
              Reporting, Total, Max0, Within, Surcharge
<1> QED BY <1>1, <1>2, MoveKeeps, DraftKeeps, CostsBeginKeeps, CostsFailKeeps DEF CostsNext

\* What the handlers of an order's money keep between them, for every number of
\* requests, all costs, customs and discounts.
THEOREM CostsInvariant == CostsSpec => []CostsInv
BY CostsStart, CostsStep, PTL DEF CostsSpec

\* reportProgress loses and doubles no hour while each write rests on the row as it is.
THEOREM HoursAreBilled == CostsSpec => []HoursBilled
<1>1. CostsInv => HoursBilled
  BY DEF CostsInv
<1> QED BY <1>1, CostsInvariant, PTL

\* applyDiscount and convertToOrder keep the order within its quote and what the last
\* discount, if it is below zero, adds.
THEOREM FinalStaysWithinQuote == CostsSpec => []FinalWithinQuote
<1>1. CostsInv => FinalWithinQuote
  BY DEF CostsInv, FinalWithinQuote, Within
<1> QED BY <1>1, CostsInvariant, PTL

\* What the desk has charged is what the order costs, while it stays delivered.
THEOREM ChargedStaysOwed == CostsSpec => []ChargedIsOwed
<1>1. CostsInv => ChargedIsOwed
  BY DEF CostsInv, ChargedIsOwed
<1> QED BY <1>1, CostsInvariant, PTL
=============================================================================
