-------------------------------- MODULE Costs --------------------------------
(***************************************************************************)
(* The money of one work order: the labour that mechanics report by the    *)
(* hour, the costs a PATCH writes, the quote the client is sent, accepts   *)
(* and has converted, the discount taken off the total, and what the desk  *)
(* charges when the vehicle leaves.                                        *)
(*                                                                         *)
(* Every handler reads the whole row, computes from it, and writes some    *)
(* columns later.  astray says that a handler has written although the row *)
(* had been written since it read it, or has written half of what it       *)
(* should: nothing is claimed from there on, and no request begins.        *)
(***************************************************************************)
EXTENDS Integers, Requests

CONSTANTS
    Labours,   \* laborCost of a PATCH or a quote
    Parts,     \* partsCost of a PATCH or a quote
    Customs,   \* customs, with commission, of the imported parts on the order
    Discounts, \* discountAmount of a request; the DTO has no @Min, it may be below zero
    Rate,      \* what reportProgress adds per hour
    MaxLabor,  \* bound: no hours are reported beyond this labour cost
    MaxFinal   \* bound: no discount below zero raises the final amount beyond this

ASSUME CostsAssumption ==
    /\ Labours \subseteq Nat /\ Parts \subseteq Nat /\ Customs \subseteq Nat
    /\ Discounts \subseteq Int
    /\ Rate \in Nat /\ MaxLabor \in Nat /\ MaxFinal \in Nat

VARIABLES
    row,      \* status, laborCost, partsCost, totalCost (a set of at most one),
              \* discount and finalAmount of the order
    quote,    \* status and total of its only Quote
    charged,  \* amount of the desk's PAYMENT transaction, in a set of at most one;
              \* empty again once a status is written
    owed,     \* observer: the labour last set as such, and the hours in the events since
    repriced, \* observer: a PATCH of costs since the last quote
    behind,   \* observer: requests whose row was written since they read it
    astray    \* observer: one of them has written, or a report stopped after its event

costsVars == <<row, quote, charged, owed, repriced, behind, astray, req>>

-----------------------------------------------------------------------------
Status == {"BUDGETED", "IN_PROGRESS", "READY", "DELIVERED"}
QuoteStatus == {"NONE", "DRAFT", "SENT", "APPROVED", "REJECTED", "CONVERTED"}

Row == [status : Status, labor : Nat, parts : Nat, total : SUBSET Int,
        discount : Discounts \cup {0}, final : Int]

\* What is kept for each request, once it has passed its checks.
PatchRequest == [op : {"patch"}, newLabor : SUBSET Labours, newParts : SUBSET Parts,
                 newTotal : Int]
HourRequest == [op : {"event", "report"}, labor : Nat]
DiscountRequest == [op : {"discount"}, d : Discounts, final : Int]
SendRequest == [op : {"send"}, labor : Nat, parts : Nat, total : Int]
QuoteRequest == [op : {"approve", "reject"}] \cup [op : {"convert"}, total : Int]
ChargeRequest == [op : {"deliver"}, amount : Int]

CostsRequest == PatchRequest \cup HourRequest \cup DiscountRequest \cup SendRequest
                    \cup QuoteRequest \cup ChargeRequest

CostsTypeOK ==
    /\ row      \in Row
    /\ quote    \in [status : QuoteStatus, total : Int]
    /\ charged  \in SUBSET Int
    /\ owed     \in Nat
    /\ repriced \in BOOLEAN /\ astray \in BOOLEAN
    /\ behind   \in SUBSET {w \in Workers : req[w] # Idle}
    /\ req      \in [Workers -> CostsRequest \cup {Idle}]

\* A new order has no costs yet.
CostsInit ==
    /\ row = [status |-> "BUDGETED", labor |-> 0, parts |-> 0, total |-> {},
              discount |-> 0, final |-> 0]
    /\ quote = [status |-> "NONE", total |-> 0]
    /\ charged = {}
    /\ owed = 0
    /\ repriced = FALSE /\ astray = FALSE
    /\ behind = {}
    /\ req = [w \in Workers |-> Idle]

\* totalCost ?? finalAmount
Total(r) == IF r.total = {} THEN r.final ELSE CHOOSE t \in r.total : TRUE

\* What a PATCH leaves out keeps the value it had.
Else(s, x) == IF s = {} THEN x ELSE CHOOSE v \in s : TRUE

Max0(x) == IF x > 0 THEN x ELSE 0

-----------------------------------------------------------------------------
\* A request has passed its checks on what it read.
Check(w, r) ==
    /\ ~astray
    /\ req[w] = Idle
    /\ req' = [req EXCEPT ![w] = r]
    /\ UNCHANGED <<row, quote, charged, owed, repriced, behind, astray>>

\* The others under way have now read a row that is no longer so.
Outdates(ws) == behind' = {v \in Workers \ ws : req[v] # Idle}

Writes(w, op) ==
    /\ req[w].op = op
    /\ req' = [req EXCEPT ![w] = Idle]
    /\ astray' = (astray \/ w \in behind)
    /\ Outdates({w})

-----------------------------------------------------------------------------
(* The row *)

\* The status handlers of WorkOrders, which write no column of money.
Move(s) ==
    /\ row' = [row EXCEPT !.status = s]
    /\ charged' = {}
    /\ Outdates({})
    /\ UNCHANGED <<quote, owed, repriced, astray, req>>

\* PATCH /orders/:id with costs: the total is their sum, without the discount.
BeginPatch(w, l, p) ==
    Check(w, [op |-> "patch", newLabor |-> l, newParts |-> p,
             newTotal |-> Else(l, row.labor) + Else(p, row.parts)])

CommitPatch(w) ==
    LET r == req[w]
    IN /\ Writes(w, "patch")
       /\ row' = [row EXCEPT !.labor = Else(r.newLabor, @), !.parts = Else(r.newParts, @),
                             !.total = {r.newTotal}]
       /\ owed' = Else(r.newLabor, owed)
       /\ repriced' = TRUE
       /\ UNCHANGED <<quote, charged>>

\* POST /orders/:id/progress: one hour, first as an event ...
BeginReport(w) ==
    /\ row.labor + Rate <= MaxLabor
    /\ Check(w, [op |-> "event", labor |-> row.labor + Rate])

WriteEvent(w) ==
    /\ req[w].op = "event"
    /\ req' = [req EXCEPT ![w].op = "report"]
    /\ owed' = owed + Rate
    /\ UNCHANGED <<row, quote, charged, repriced, behind, astray>>

\* ... then on the labour cost it read before.  The total stays.
CommitReport(w) ==
    /\ Writes(w, "report")
    /\ row' = [row EXCEPT !.labor = req[w].labor]
    /\ UNCHANGED <<quote, charged, owed, repriced>>

-----------------------------------------------------------------------------
(* The discount *)

\* More than a fifth of the total needs the owner; of nothing, and below zero,
\* anything goes.
NeedsOwner(d, total) == total > 0 /\ 5 * d > total

\* Mutant: only CANCELLED counts as finalised.
BeginDiscountAnyTime(w, d, owner) ==
    /\ NeedsOwner(d, Total(row)) => owner
    /\ Max0(Total(row) - d) <= MaxFinal
    /\ Check(w, [op |-> "discount", d |-> d, final |-> Max0(Total(row) - d)])

\* POST /orders/:id/discount.  More than the rule allows becomes a row of approvals,
\* which nothing applies to the order.
BeginDiscount(w, d, owner) ==
    /\ row.status # "DELIVERED"
    /\ NeedsOwner(d, Total(row)) => owner
    /\ Max0(Total(row) - d) <= MaxFinal
    /\ Check(w, [op |-> "discount", d |-> d, final |-> Max0(Total(row) - d)])

\* Mutant: the discount is taken off the costs, as if the total had none in it.
CommitDiscountOffCosts(w) ==
    /\ Writes(w, "discount")
    /\ row' = [row EXCEPT !.discount = req[w].d,
                          !.final = Max0(row.labor + row.parts - req[w].d)]
    /\ UNCHANGED <<quote, charged, owed, repriced>>

CommitDiscount(w) ==
    /\ Writes(w, "discount")
    /\ row' = [row EXCEPT !.discount = req[w].d, !.final = req[w].final]
    /\ UNCHANGED <<quote, charged, owed, repriced>>

-----------------------------------------------------------------------------
(* The quote *)

\* POST /quotes: one per order.  Its total sums work_order_items, which no code writes.
DraftQuote ==
    /\ ~astray
    /\ quote.status = "NONE"
    /\ quote' = [status |-> "DRAFT", total |-> 0]
    /\ Outdates({})
    /\ UNCHANGED <<row, charged, owed, repriced, astray, req>>

\* POST /orders/:id/quote: not without labour, and not against the total on record.
\* The customs c come on top of the parts.
BeginSendQuote(w, l, p, c) ==
    /\ row.status = "BUDGETED"
    /\ l > 0
    /\ \A t \in row.total : t > 0 => t = l + p - row.discount
    /\ Check(w, [op |-> "send", labor |-> l, parts |-> p + c, total |-> l + p + c - row.discount])

\* Mutant: the quote's labour does not reach the order.
CommitSendQuoteKeepsLabor(w) ==
    LET r == req[w]
    IN /\ Writes(w, "send")
       /\ row' = [row EXCEPT !.parts = r.parts, !.total = {r.total}, !.final = r.total]
       /\ quote' = [status |-> "SENT", total |-> r.total]
       /\ owed' = r.labor /\ repriced' = FALSE
       /\ UNCHANGED charged

\* One transaction.  The invoice draft that follows it is Billing's.
CommitSendQuote(w) ==
    LET r == req[w]
    IN /\ Writes(w, "send")
       /\ row' = [row EXCEPT !.labor = r.labor, !.parts = r.parts,
                             !.total = {r.total}, !.final = r.total]
       /\ quote' = [status |-> "SENT", total |-> r.total]
       /\ owed' = r.labor /\ repriced' = FALSE
       /\ UNCHANGED charged

\* POST /quotes/:id/approve: a quote of a delivered order takes the order back.
BeginApprove(w) ==
    /\ quote.status \in {"DRAFT", "SENT"}
    /\ Check(w, [op |-> "approve"])

CommitApprove(w) ==
    /\ Writes(w, "approve")
    /\ quote' = [quote EXCEPT !.status = "APPROVED"]
    /\ row' = [row EXCEPT !.status = "BUDGETED"]
    /\ charged' = {}
    /\ UNCHANGED <<owed, repriced>>

BeginReject(w) ==
    /\ quote.status \notin {"NONE", "APPROVED", "CONVERTED"}
    /\ Check(w, [op |-> "reject"])

CommitReject(w) ==
    /\ Writes(w, "reject")
    /\ quote' = [quote EXCEPT !.status = "REJECTED"]
    /\ UNCHANGED <<row, charged, owed, repriced>>

\* POST /quotes/:id/convert: work starts for the total of the quote it read.
BeginConvert(w) ==
    /\ quote.status = "APPROVED"
    /\ Check(w, [op |-> "convert", total |-> quote.total])

CommitConvert(w) ==
    /\ Writes(w, "convert")
    /\ quote' = [quote EXCEPT !.status = "CONVERTED"]
    /\ row' = [row EXCEPT !.status = "IN_PROGRESS", !.total = {req[w].total},
                          !.final = req[w].total]
    /\ charged' = {} /\ repriced' = FALSE
    /\ UNCHANGED owed

-----------------------------------------------------------------------------
(* The desk *)

\* POST /orders/:id/deliver with the cash session open: it charges the final amount.
BeginCharge(w) ==
    /\ row.status = "READY"
    /\ Check(w, [op |-> "deliver", amount |-> row.final])

CommitCharge(w) ==
    /\ Writes(w, "deliver")
    /\ row' = [row EXCEPT !.status = "DELIVERED"]
    /\ charged' = {req[w].amount}
    /\ UNCHANGED <<quote, owed, repriced>>

-----------------------------------------------------------------------------
\* A write fails or the process dies: what is written stays, the rest is lost.
CostsFail(w) ==
    /\ req[w] # Idle
    /\ req' = [req EXCEPT ![w] = Idle]
    /\ astray' = (astray \/ req[w].op = "report")
    /\ behind' = behind \ {w}
    /\ UNCHANGED <<row, quote, charged, owed, repriced>>

CostsBegin(w) ==
    \/ \E l \in Labours, p \in Parts :
          \/ BeginPatch(w, {l}, {p}) \/ BeginPatch(w, {l}, {}) \/ BeginPatch(w, {}, {p})
          \/ \E c \in Customs : BeginSendQuote(w, l, p, c)
    \/ BeginReport(w)
    \/ \E d \in Discounts, owner \in BOOLEAN : BeginDiscount(w, d, owner)
    \/ BeginApprove(w) \/ BeginReject(w) \/ BeginConvert(w)
    \/ BeginCharge(w)

CostsCommit(w) ==
    \/ CommitPatch(w)
    \/ WriteEvent(w) \/ CommitReport(w)
    \/ CommitDiscount(w)
    \/ CommitSendQuote(w)
    \/ CommitApprove(w) \/ CommitReject(w) \/ CommitConvert(w)
    \/ CommitCharge(w)

CostsNext ==
    \/ \E s \in Status : Move(s)
    \/ DraftQuote
    \/ \E w \in Workers : CostsBegin(w) \/ CostsCommit(w) \/ CostsFail(w)

CostsSpec == CostsInit /\ [][CostsNext]_costsVars

-----------------------------------------------------------------------------
Reporting == \E w \in Workers : req[w].op = "report"

\* The labour of an order is what was last set as such plus the rate for every hour in
\* its progress events: reportProgress loses or doubles no hour while each write rests
\* on the row as it is (orders.service reportProgress, update; send-order-quote).
HoursBilled ==
    ~astray /\ ~Reporting => row.labor = owed

\* What a discount below zero adds to the costs it is taken off.
Surcharge(r) == Max0(0 - r.discount)

\* The total on record is within the quote, and the final amount is beyond it by no
\* more than the surcharge.
Within(r, q) ==
    /\ \A t \in r.total : t <= Max0(q.total)
    /\ r.total # {} => r.final <= Max0(q.total) + Surcharge(r)

\* Once a client has a quote, no conversion and no series of discounts makes the order
\* cost more than the quote and what the last discount, if below zero, adds: surcharges
\* do not add up, and one is gone with the next discount, until the workshop sets other
\* costs (applyDiscount, convertToOrder).  A quote is below zero when a discount from
\* before the costs is more than they are: the next discount then makes the order cost
\* nothing.  A draft may be decided on before the order has a total; until it has,
\* every discount is taken off the final amount of the one before.
FinalWithinQuote ==
    /\ ~astray /\ ~repriced
    /\ quote.status \in {"SENT", "APPROVED", "CONVERTED", "REJECTED"}
    /\ row.total # {}
    => row.final <= Max0(quote.total) + Surcharge(row)

\* What the desk has charged for a vehicle that left stays what the order cost: no
\* discount, quote or conversion reaches a delivered order unless it takes the order
\* back (deliver-vehicle execute, applyDiscount).
ChargedIsOwed == ~astray => charged \subseteq {row.final}

-----------------------------------------------------------------------------
(* The inductive invariant *)

\* What a request has read is still so if the row was not written since.
ReadStill(r) ==
    /\ r.op \in {"event", "report"} => r.labor = row.labor + Rate
    /\ r.op = "discount" => row.status # "DELIVERED" /\ r.final = Max0(Total(row) - r.d)
    /\ r.op = "send" => row.status = "BUDGETED"
    /\ r.op = "convert" => r.total = quote.total
    /\ r.op = "deliver" => r.amount = row.final

\* A report whose hour is in the events and not yet in the labour, if it is the only
\* one and the row is as it read it.
HourIsOwed(w) ==
    req[w].op = "report" /\ w \notin behind /\ (\A v \in Workers : req[v].op = "report" => v = w)
        => owed = row.labor + Rate

CostsInv ==
    /\ CostsTypeOK
    /\ quote.status = "NONE" => quote.total = 0
    /\ ~astray =>
         /\ \A w \in Workers \ behind : ReadStill(req[w])
         /\ \A w \in Workers : HourIsOwed(w)
         /\ ~repriced => Within(row, quote)
         /\ charged # {} => row.status = "DELIVERED" /\ charged = {row.final}
    /\ HoursBilled
=============================================================================
