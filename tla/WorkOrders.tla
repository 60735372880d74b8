----------------------------- MODULE WorkOrders -----------------------------
(***************************************************************************)
(* The life of a work order (OT): the status column, the quote row, the    *)
(* parts and completion records and the delivery desk, as the HTTP         *)
(* handlers of modules/orders and modules/quotes change them.              *)
(*                                                                         *)
(* A handler reads the order outside any transaction, tests its guards on  *)
(* that snapshot and later writes by id, without testing again.  A request *)
(* is therefore a slot in req: a Begin step takes the snapshot and keeps   *)
(* what the write needs, a Commit step is the transaction.  Requests of    *)
(* different workers interleave between the two; with one worker the       *)
(* handlers run one after the other.                                       *)
(*                                                                         *)
(* Money is kept as balance: what validateVehicleDelivery would answer on  *)
(* the stored labour, parts and payments.                                  *)
(***************************************************************************)
EXTENDS Naturals, FiniteSets, Overlaps

CONSTANTS
    Orders,      \* rows of work_orders
    Managers,    \* OWNER and ADMIN accounts
    Mechanics,   \* MECHANIC accounts
    Trainees,    \* TRAINEE accounts
    NoUser,      \* a request whose write names nobody
    MaxDesk      \* bound: desk payments recorded for one order

Users == Managers \cup Mechanics \cup Trainees

ASSUME UsersAssumption == NoUser \notin Users

ASSUME MaxDeskAssumption == MaxDesk \in Nat \ {0}

VARIABLES
    status,     \* WorkOrder.status, "NONE" before the row exists
    mechanic,   \* WorkOrder.mechanicId
    quote,      \* Quote.status of the order's only quote, "NONE" without one
    hasParts,   \* some WorkOrderPart row exists
    completed,  \* WorkOrder.completedAt (and odometerOut) is set
    balance,    \* labour and parts against payments: see Balance
    deskTx,     \* FinancialTransaction PAYMENT rows the delivery desk wrote
    been        \* observer: statuses the order has held

order == <<status, mechanic, quote, hasParts, completed, balance, deskTx>>
vars  == <<status, mechanic, quote, hasParts, completed, balance, deskTx,
           been, overlap, req>>

-----------------------------------------------------------------------------
Status == {"RECEIVED", "IN_DIAGNOSIS", "BUDGETED", "IN_PROGRESS",
           "IN_REVIEW", "READY", "DELIVERED", "CANCELLED"}

QuoteStatus == {"DRAFT", "SENT", "APPROVED", "REJECTED", "CONVERTED"}

\* validateVehicleDelivery: no cost recorded, costs above payments, or paid.
Balance == {"UNPRICED", "DUE", "COVERED"}

\* Statuses the observer remembers: the gates of the workshop.
Gates == {"BUDGETED", "IN_PROGRESS", "READY", "DELIVERED"}

ValidTransitions == [s \in Status |->
    CASE s = "RECEIVED"     -> {"IN_DIAGNOSIS", "CANCELLED"}
      [] s = "IN_DIAGNOSIS" -> {"BUDGETED", "CANCELLED"}
      [] s = "BUDGETED"     -> {"IN_PROGRESS", "CANCELLED"}
      [] s = "IN_PROGRESS"  -> {"IN_REVIEW", "READY", "CANCELLED"}
      [] s = "IN_REVIEW"    -> {"READY", "IN_PROGRESS", "CANCELLED"}
      [] s = "READY"        -> {"DELIVERED", "CANCELLED"}
      [] OTHER              -> {}]

Ops == {"statusCheck", "status", "patch", "delete", "assign", "sendQuote",
        "approve", "reject", "quoteApprove", "quoteReject", "convert",
        "complete", "deliver", "dispatch", "progress"}

\* "KEEP" stands for a field the request does not carry.
Request == [op: Ops, o: Orders, to: Status \cup {"KEEP"},
            by: Users \cup {NoUser}]


ColumnsOK ==
    /\ status    \in [Orders -> Status \cup {"NONE"}]
    /\ mechanic  \in [Orders -> Users \cup {NoUser}]
    /\ quote     \in [Orders -> QuoteStatus \cup {"NONE"}]
    /\ hasParts  \in [Orders -> BOOLEAN]
    /\ completed \in [Orders -> BOOLEAN]
    /\ balance   \in [Orders -> Balance]
    /\ deskTx    \in [Orders -> 0..MaxDesk]
    /\ been      \in [Orders -> SUBSET Gates]
    /\ req       \in [Workers -> Request \cup {Idle}]

TypeOK == ColumnsOK /\ overlap \in BOOLEAN

Init ==
    /\ status    = [o \in Orders |-> "NONE"]
    /\ mechanic  = [o \in Orders |-> NoUser]
    /\ quote     = [o \in Orders |-> "NONE"]
    /\ hasParts  = [o \in Orders |-> FALSE]
    /\ completed = [o \in Orders |-> FALSE]
    /\ balance   = [o \in Orders |-> "UNPRICED"]
    /\ deskTx    = [o \in Orders |-> 0]
    /\ been      = [o \in Orders |-> {}]
    /\ overlap   = FALSE
    /\ req       = [w \in Workers |-> Idle]

-----------------------------------------------------------------------------
(* Helpers *)

Exists(o) == status[o] # "NONE"

\* assertMutationScope: a mechanic or trainee only touches the order
\* assigned to them; management is not restricted.
InScope(u, o) == u \in Managers \/ mechanic[o] = u

\* The snapshot was good: worker w keeps what the write will need.
Park(w, op, o, to, u) ==
    /\ req[w] = Idle
    /\ req' = [req EXCEPT ![w] = [op |-> op, o |-> o, to |-> to, by |-> u]]
    /\ UNCHANGED <<order, been>>

\* The status column of o becomes s.
SetStatus(o, s) ==
    /\ status' = [status EXCEPT ![o] = s]
    /\ been' = [been EXCEPT ![o] = @ \cup ({s} \cap Gates)]

KeepStatus == UNCHANGED <<status, been>>

\* The labour of o was rewritten: the balance may be anything.
Reprice(o) == \E b \in Balance : balance' = [balance EXCEPT ![o] = b]

\* Parts were added to o: the balance only gets worse, unless o had no cost.
AddParts(o) == \E b \in Balance :
    /\ balance[o] = "DUE" => b = "DUE"
    /\ balance[o] = "COVERED" => b # "UNPRICED"
    /\ balance' = [balance EXCEPT ![o] = b]

-----------------------------------------------------------------------------
(* Intake, quote drafting, payments: one write each, nothing read before   *)
(* it is used by the write.                                                *)

\* POST /orders and the order row a vehicle check-in creates.
Receive(o) ==
    /\ ~Exists(o)
    /\ SetStatus(o, "RECEIVED")
    /\ \E u \in Users : mechanic' = [mechanic EXCEPT ![o] = u]
    /\ UNCHANGED <<quote, hasParts, completed, balance, deskTx, req>>

\* POST /quotes: Quote.workOrderId is unique, so the insert fails when the
\* order has a quote.  Quotes are drafted for an order in any status.
DraftQuote(o) ==
    /\ Exists(o)
    /\ quote[o] = "NONE"
    /\ quote' = [quote EXCEPT ![o] = "DRAFT"]
    /\ KeepStatus
    /\ UNCHANGED <<mechanic, hasParts, completed, balance, deskTx, req>>

\* POST /payments: a payment row never goes away, so it can only help; one
\* that does not cover the costs, or comes before them, changes nothing here.
Pay(o) ==
    /\ Exists(o)
    /\ balance[o] # "UNPRICED"
    /\ balance' = [balance EXCEPT ![o] = "COVERED"]
    /\ KeepStatus
    /\ UNCHANGED <<mechanic, quote, hasParts, completed, deskTx, req>>

-----------------------------------------------------------------------------
(* POST /orders/:id/status *)

\* The order is read and the table consulted.  Starting and delivering need
\* one more read (parts count, balance) before the write.
BeginStatus(w, o, to, u) ==
    /\ Exists(o)
    /\ InScope(u, o)
    /\ to \in ValidTransitions[status[o]]
    /\ Park(w, IF to \in {"IN_PROGRESS", "DELIVERED"}
               THEN "statusCheck" ELSE "status", o, to, NoUser)

\* Mutant: no AF-01.
CheckStatusWithoutParts(w) ==
    /\ req[w].op = "statusCheck"
    /\ req[w].to = "DELIVERED" => balance[req[w].o] = "COVERED"
    /\ req' = [req EXCEPT ![w].op = "status"]
    /\ UNCHANGED <<order, been>>

\* Mutant: no validateVehicleDelivery.
CheckStatusWithoutBalance(w) ==
    /\ req[w].op = "statusCheck"
    /\ req[w].to = "IN_PROGRESS" => hasParts[req[w].o]
    /\ req' = [req EXCEPT ![w].op = "status"]
    /\ UNCHANGED <<order, been>>

\* AF-01 for IN_PROGRESS, validateVehicleDelivery for DELIVERED; a refused
\* request is dropped by Fail.
CheckStatus(w) ==
    /\ req[w].op = "statusCheck"
    /\ req[w].to = "IN_PROGRESS" => hasParts[req[w].o]
    /\ req[w].to = "DELIVERED" => balance[req[w].o] = "COVERED"
    /\ req' = [req EXCEPT ![w].op = "status"]
    /\ UNCHANGED <<order, been>>

CommitStatus(w) ==
    /\ Takes(w, "status")
    /\ SetStatus(req[w].o, req[w].to)
    /\ UNCHANGED <<mechanic, quote, hasParts, completed, balance, deskTx>>

-----------------------------------------------------------------------------
(* PATCH /orders/:id, DELETE /orders/:id, POST /orders/:id/assign,         *)
(* POST /orders/:id/progress                                               *)

\* The transition table is not consulted: any status may be asked for,
\* unless the order is cancelled.
BeginPatch(w, o, to, u) ==
    /\ Exists(o)
    /\ InScope(u, o)
    /\ to # "KEEP" => status[o] # "CANCELLED"
    /\ Park(w, "patch", o, to, NoUser)

CommitPatch(w) ==
    /\ Takes(w, "patch")
    /\ IF req[w].to = "KEEP" THEN KeepStatus
       ELSE SetStatus(req[w].o, req[w].to)
    /\ Reprice(req[w].o)
    /\ UNCHANGED <<mechanic, quote, hasParts, completed, deskTx>>

BeginDelete(w, o) ==
    /\ Exists(o)
    /\ status[o] # "CANCELLED"
    /\ Park(w, "delete", o, "CANCELLED", NoUser)

CommitDelete(w) ==
    /\ Takes(w, "delete")
    /\ SetStatus(req[w].o, "CANCELLED")
    /\ UNCHANGED <<mechanic, quote, hasParts, completed, balance, deskTx>>

BeginAssign(w, o, m) ==
    /\ Exists(o)
    /\ status[o] \notin {"CANCELLED", "DELIVERED"}
    /\ m \in Mechanics \cup Trainees
    /\ Park(w, "assign", o, "KEEP", m)

CommitAssign(w) ==
    /\ Takes(w, "assign")
    /\ mechanic' = [mechanic EXCEPT ![req[w].o] = req[w].by]
    /\ KeepStatus
    /\ UNCHANGED <<quote, hasParts, completed, balance, deskTx>>

BeginProgress(w, o, u) ==
    /\ Exists(o)
    /\ u \in Mechanics \cup Trainees
    /\ InScope(u, o)
    /\ Park(w, "progress", o, "KEEP", NoUser)

CommitProgress(w) ==
    /\ Takes(w, "progress")
    /\ Reprice(req[w].o)
    /\ KeepStatus
    /\ UNCHANGED <<mechanic, quote, hasParts, completed, deskTx>>

-----------------------------------------------------------------------------
(* The order's quote: POST /orders/:id/quote, .../approve, .../reject *)

BeginSendQuote(w, o) ==
    /\ status[o] = "BUDGETED"
    /\ Park(w, "sendQuote", o, "KEEP", NoUser)

\* The upsert makes the quote SENT whatever it was; the order keeps its
\* status and gets new costs.
CommitSendQuote(w) ==
    /\ Takes(w, "sendQuote")
    /\ quote' = [quote EXCEPT ![req[w].o] = "SENT"]
    /\ Reprice(req[w].o)
    /\ KeepStatus
    /\ UNCHANGED <<mechanic, hasParts, completed, deskTx>>

BeginApprove(w, o) ==
    /\ status[o] = "BUDGETED"
    /\ quote[o] = "SENT"
    /\ Park(w, "approve", o, "IN_PROGRESS", NoUser)

CommitApprove(w) ==
    /\ Takes(w, "approve")
    /\ quote' = [quote EXCEPT ![req[w].o] = "APPROVED"]
    /\ SetStatus(req[w].o, "IN_PROGRESS")
    /\ UNCHANGED <<mechanic, hasParts, completed, balance, deskTx>>

BeginReject(w, o) ==
    /\ quote[o] = "SENT"
    /\ Park(w, "reject", o, "KEEP", NoUser)

CommitReject(w) ==
    /\ Takes(w, "reject")
    /\ quote' = [quote EXCEPT ![req[w].o] = "REJECTED"]
    /\ KeepStatus
    /\ UNCHANGED <<mechanic, hasParts, completed, balance, deskTx>>

-----------------------------------------------------------------------------
(* The same quote through POST /quotes/:id/approve, /reject, /convert:     *)
(* these look at the quote alone and write the order whatever its status.  *)

BeginQuoteApprove(w, o) ==
    /\ quote[o] \in {"DRAFT", "SENT"}
    /\ Park(w, "quoteApprove", o, "BUDGETED", NoUser)

CommitQuoteApprove(w) ==
    /\ Takes(w, "quoteApprove")
    /\ quote' = [quote EXCEPT ![req[w].o] = "APPROVED"]
    /\ SetStatus(req[w].o, "BUDGETED")
    /\ UNCHANGED <<mechanic, hasParts, completed, balance, deskTx>>

BeginQuoteReject(w, o) ==
    /\ quote[o] \notin {"NONE", "APPROVED", "CONVERTED"}
    /\ Park(w, "quoteReject", o, "KEEP", NoUser)

CommitQuoteReject(w) ==
    /\ Takes(w, "quoteReject")
    /\ quote' = [quote EXCEPT ![req[w].o] = "REJECTED"]
    /\ KeepStatus
    /\ UNCHANGED <<mechanic, hasParts, completed, balance, deskTx>>

BeginConvert(w, o) ==
    /\ quote[o] = "APPROVED"
    /\ Park(w, "convert", o, "IN_PROGRESS", NoUser)

CommitConvert(w) ==
    /\ Takes(w, "convert")
    /\ quote' = [quote EXCEPT ![req[w].o] = "CONVERTED"]
    /\ SetStatus(req[w].o, "IN_PROGRESS")
    /\ UNCHANGED <<mechanic, hasParts, completed, balance, deskTx>>

-----------------------------------------------------------------------------
(* The workshop: parts, completion, delivery *)

\* Mutant: parts leave for an order in any status.
BeginDispatchAnyStatus(w, o, u) ==
    /\ Exists(o)
    /\ InScope(u, o)
    /\ Park(w, "dispatch", o, "KEEP", NoUser)

BeginDispatch(w, o, u) ==
    /\ status[o] = "IN_PROGRESS"
    /\ InScope(u, o)
    /\ Park(w, "dispatch", o, "KEEP", NoUser)

\* The stock side of the transaction is outside this module; without stock
\* it aborts, which is Fail.
CommitDispatch(w) ==
    /\ Takes(w, "dispatch")
    /\ hasParts' = [hasParts EXCEPT ![req[w].o] = TRUE]
    /\ AddParts(req[w].o)
    /\ KeepStatus
    /\ UNCHANGED <<mechanic, quote, completed, deskTx>>

\* resolveCompletionTarget: a trainee's work always goes to review.
CompletionTarget(u, to) == IF u \in Trainees THEN "IN_REVIEW" ELSE to

\* Mutant: work is completed on an order in any status.
BeginCompleteAnyStatus(w, o, to, u) ==
    /\ Exists(o)
    /\ InScope(u, o)
    /\ to \in {"READY", "IN_REVIEW"}
    /\ Park(w, "complete", o, CompletionTarget(u, to), NoUser)

BeginComplete(w, o, to, u) ==
    /\ status[o] = "IN_PROGRESS"
    /\ InScope(u, o)
    /\ to \in {"READY", "IN_REVIEW"}
    /\ Park(w, "complete", o, CompletionTarget(u, to), NoUser)

CommitComplete(w) ==
    /\ Takes(w, "complete")
    /\ completed' = [completed EXCEPT ![req[w].o] = TRUE]
    /\ SetStatus(req[w].o, req[w].to)
    /\ UNCHANGED <<mechanic, quote, hasParts, balance, deskTx>>

\* The desk also needs today's cash session to be open; without one the
\* request ends here (the session itself is outside this module).
BeginDeliver(w, o) ==
    /\ status[o] = "READY"
    /\ Park(w, "deliver", o, "DELIVERED", NoUser)

CommitDeliver(w) ==
    /\ Takes(w, "deliver")
    /\ deskTx[req[w].o] < MaxDesk
    /\ deskTx' = [deskTx EXCEPT ![req[w].o] = @ + 1]
    /\ SetStatus(req[w].o, "DELIVERED")
    /\ UNCHANGED <<mechanic, quote, hasParts, completed, balance>>

\* A later guard refuses the request, its transaction aborts, or the process
\* dies: nothing of it was written.
Fail(w) ==
    /\ req[w] # Idle
    /\ req' = [req EXCEPT ![w] = Idle]
    /\ UNCHANGED <<order, been>>

-----------------------------------------------------------------------------
Begin(w) == \E o \in Orders :
    \/ \E to \in Status, u \in Users : BeginStatus(w, o, to, u)
    \/ \E to \in Status \cup {"KEEP"}, u \in Users : BeginPatch(w, o, to, u)
    \/ BeginDelete(w, o)
    \/ \E m \in Users : BeginAssign(w, o, m)
    \/ \E u \in Users : BeginProgress(w, o, u)
    \/ BeginSendQuote(w, o)
    \/ BeginApprove(w, o)
    \/ BeginReject(w, o)
    \/ BeginQuoteApprove(w, o)
    \/ BeginQuoteReject(w, o)
    \/ BeginConvert(w, o)
    \/ \E u \in Users : BeginDispatch(w, o, u)
    \/ \E to \in Status, u \in Users : BeginComplete(w, o, to, u)
    \/ BeginDeliver(w, o)

Commit(w) ==
    \/ CommitStatus(w)
    \/ CommitPatch(w)
    \/ CommitDelete(w)
    \/ CommitAssign(w)
    \/ CommitProgress(w)
    \/ CommitSendQuote(w)
    \/ CommitApprove(w)
    \/ CommitReject(w)
    \/ CommitQuoteApprove(w)
    \/ CommitQuoteReject(w)
    \/ CommitConvert(w)
    \/ CommitDispatch(w)
    \/ CommitComplete(w)
    \/ CommitDeliver(w)

Act ==
    \/ \E o \in Orders : Receive(o) \/ DraftQuote(o) \/ Pay(o)
    \/ \E w \in Workers : Begin(w) \/ CheckStatus(w) \/ Commit(w) \/ Fail(w)

Next == Act /\ overlap' = (overlap \/ ~Alone')

Spec == Init /\ [][Next]_vars

-----------------------------------------------------------------------------
(* What holds however the requests interleave *)

\* Worker w writes the op request it kept.
Writes(w, op) == req[w].op = op /\ req'[w] = Idle /\ status' # status

\* AF-01 lets POST /status start work only on an order with parts, and parts
\* are dispatched only to an order in progress: so that route can resume work
\* but never be the one that first starts it.  Work first starts through an
\* approved quote, a converted quote or a PATCH.
WorkStartsByQuoteOrPatch ==
    [][\A w \in Workers :
         Writes(w, "status") /\ req[w].to = "IN_PROGRESS" => "IN_PROGRESS" \in been[req[w].o]
      ]_vars

\* Parts and a completion record appear only on an order that has been in
\* progress, although dispatch and completion test the status on a snapshot
\* that may be stale when they write.
WorkLeavesTrace ==
    \A o \in Orders :
        hasParts[o] \/ completed[o] => "IN_PROGRESS" \in been[o]

\* The quote row and the order advance in one transaction, so a quote past
\* DRAFT tells which gates the order has passed: an offer was made or accepted
\* only on a budgeted order, and a converted quote started the work.
QuoteMatchesGates ==
    \A o \in Orders :
        /\ quote[o] \in {"SENT", "APPROVED", "CONVERTED"} => "BUDGETED" \in been[o]
        /\ quote[o] = "CONVERTED" => "IN_PROGRESS" \in been[o]

\* The delivery desk takes money only for an order that has been READY, and
\* never without delivering it in the same transaction.
DeskMoneyMatchesGates ==
    \A o \in Orders : deskTx[o] > 0 => {"READY", "DELIVERED"} \subseteq been[o]

\* What an order has on record, parts, completion, quote and desk money, tells the
\* gates it went through, although each handler decided on a snapshot.
RecordsMatchGates == WorkLeavesTrace /\ QuoteMatchesGates /\ DeskMoneyMatchesGates

-----------------------------------------------------------------------------
(* The inductive invariant behind the four invariants above: what an order *)
(* has recorded, and what a request may still write, is bounded by the     *)
(* gates the order has passed.                                             *)

OrderOK(o) ==
    /\ status[o] \in Gates => status[o] \in been[o]
    /\ hasParts[o] \/ completed[o] => "IN_PROGRESS" \in been[o]
    /\ quote[o] \in {"SENT", "APPROVED", "CONVERTED"} => "BUDGETED" \in been[o]
    /\ quote[o] = "CONVERTED" => "IN_PROGRESS" \in been[o]
    /\ deskTx[o] > 0 => {"READY", "DELIVERED"} \subseteq been[o]

\* What a parked request r knows about its order.
ReqOK(r) ==
    /\ r.op \in {"statusCheck", "status"} => r.to \in Status
    /\ r.op = "status" /\ r.to = "IN_PROGRESS" => hasParts[r.o]
    /\ r.op = "complete" => r.to \in {"READY", "IN_REVIEW"}
    /\ r.op \in {"complete", "dispatch"} => "IN_PROGRESS" \in been[r.o]
    /\ r.op \in {"sendQuote", "approve", "convert"} => "BUDGETED" \in been[r.o]
    /\ r.op = "deliver" => "READY" \in been[r.o]

GateInv ==
    /\ ColumnsOK
    /\ \A o \in Orders : OrderOK(o)
    /\ \A w \in Workers : ReqOK(req[w])

-----------------------------------------------------------------------------
(* What holds as long as no two requests have overlapped *)

\* A handler that consults the transition table (POST /status, quote
\* approval, completion, delivery) moves the order along the table as it is
\* when the write lands, not only as it was when the handler looked.
MovesObeyTable ==
    [][~overlap' => \A w \in Workers, op \in {"status", "approve", "complete", "deliver"} :
         Writes(w, op) => status'[req[w].o] \in ValidTransitions[status[req[w].o]]
      ]_vars

\* POST /status releases a vehicle only while payments cover labour and parts.
ReleasedOnlyIfPaid ==
    [][~overlap' => \A w \in Workers :
         Writes(w, "status") /\ req[w].to = "DELIVERED" => balance[req[w].o] = "COVERED"
      ]_vars

\* What a request that is alone still knows when it writes.
SnapshotOK(r) ==
    /\ r.op \in {"statusCheck", "status"} =>
         status[r.o] \in Status /\ r.to \in ValidTransitions[status[r.o]]
    /\ r.op = "status" /\ r.to = "DELIVERED" => balance[r.o] = "COVERED"
    /\ r.op = "approve" => status[r.o] = "BUDGETED" /\ r.to = "IN_PROGRESS"
    /\ r.op = "complete" => status[r.o] = "IN_PROGRESS" /\ r.to \in {"READY", "IN_REVIEW"}
    /\ r.op = "deliver" => status[r.o] = "READY" /\ r.to = "DELIVERED"

SerialInv ==
    /\ ColumnsOK
    /\ ~overlap => Alone /\ \A w \in Workers : SnapshotOK(req[w])

=============================================================================
