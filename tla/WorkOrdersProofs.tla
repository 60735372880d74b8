-------------------------- MODULE WorkOrdersProofs --------------------------
(***************************************************************************)
(* For any number of orders, workers and users: whatever order the         *)
(* requests' reads and writes interleave in, GateInv is an invariant of    *)
(* WorkOrders, and with it the four claims a run checks on one order.      *)
(*                                                                         *)
(* A Begin step only parks a request, so it is enough that the parked      *)
(* request is ReqOK (ParkKeepsInv).  A Commit step frees its slot and      *)
(* changes one order, which must stay OrderOK; the other requests stay     *)
(* ReqOK because been and hasParts only grow (OneOrderKeepsInv).           *)
(***************************************************************************)
EXTENDS WorkOrders, TLAPS

LEMMA IdleIsNoRequest == Idle.op \notin Ops
BY DEF Idle, Ops

LEMMA TransitionsStayInStatus ==
    ASSUME NEW s \in Status
    PROVE  ValidTransitions[s] \subseteq Status
BY DEF ValidTransitions, Status

\* A slot whose op is a handler's holds a request of that handler.
LEMMA SlotIsRequest ==
    ASSUME ColumnsOK, NEW w \in Workers, req[w].op \in Ops
    PROVE  req[w] \in Request /\ req[w].o \in Orders
BY IdleIsNoRequest DEF ColumnsOK, Request

\* Parking a request that is ReqOK keeps the invariant.
LEMMA ParkKeepsInv ==
    ASSUME GateInv, NEW w \in Workers, NEW op \in Ops, NEW o \in Orders,
           NEW to \in Status \cup {"KEEP"}, NEW u \in Users \cup {NoUser},
           Park(w, op, o, to, u),
           ReqOK([op |-> op, o |-> o, to |-> to, by |-> u])
    PROVE  GateInv'
<1> DEFINE r == [op |-> op, o |-> o, to |-> to, by |-> u]
<1>1. r \in Request
  BY DEF Request
<1>2. req' = [req EXCEPT ![w] = r] /\ UNCHANGED <<order, been>>
  BY DEF Park
<1>3. ColumnsOK'
  BY <1>1, <1>2 DEF GateInv, ColumnsOK, order
<1>4. \A p \in Orders : OrderOK(p)'
  BY <1>2 DEF GateInv, OrderOK, order
<1>5. ASSUME NEW v \in Workers PROVE ReqOK(req[v])'
  <2>1. req'[v] = IF v = w THEN r ELSE req[v]
    BY <1>2 DEF GateInv, ColumnsOK
  <2>2. CASE v = w
    BY <1>2, <2>1, <2>2 DEF ReqOK, order
  <2>3. CASE v # w
    BY <1>2, <2>1, <2>3 DEF GateInv, ReqOK, order
  <2>4. QED
    BY <2>2, <2>3
<1>6. QED
  BY <1>3, <1>4, <1>5 DEF GateInv

\* A step that frees or keeps every slot, keeps every other order and what
\* order o has been through, preserves the invariant if o stays OrderOK.
LEMMA OneOrderKeepsInv ==
    ASSUME GateInv, ColumnsOK', NEW o \in Orders, OrderOK(o)',
           \A p \in Orders \ {o} :
              /\ status'[p] = status[p]
              /\ quote'[p] = quote[p] /\ hasParts'[p] = hasParts[p]
              /\ completed'[p] = completed[p] /\ deskTx'[p] = deskTx[p]
              /\ been'[p] = been[p],
           been[o] \subseteq been'[o],
           hasParts[o] => hasParts'[o],
           \A v \in Workers : req'[v] = req[v] \/ req'[v] = Idle
    PROVE  GateInv'
<1>1. \A p \in Orders : OrderOK(p)'
  BY DEF GateInv, OrderOK
<1>2. ASSUME NEW v \in Workers PROVE ReqOK(req[v])'
  <2>1. CASE req'[v] = Idle
    BY <2>1 DEF ReqOK, Idle
  <2>2. CASE req'[v] = req[v] /\ req[v] # Idle
    <3>1. req[v] \in Request /\ ReqOK(req[v])
      BY <2>2 DEF GateInv, ColumnsOK
    <3>2. req[v].o \in Orders
      BY <3>1 DEF Request
    <3>3. been[req[v].o] \subseteq been'[req[v].o]
      BY <3>2
    <3>4. hasParts[req[v].o] => hasParts'[req[v].o]
      BY <3>2
    <3>5. QED
      BY <2>2, <3>1, <3>3, <3>4 DEF ReqOK
  <2>3. QED
    BY <2>1, <2>2
<1>3. QED
  BY <1>1, <1>2 DEF GateInv

\* What SetStatus leaves behind on its order and on the others.
LEMMA SetStatusEffect ==
    ASSUME ColumnsOK, NEW o \in Orders, NEW s \in Status,
           SetStatus(o, s)
    PROVE  /\ status' \in [Orders -> Status \cup {"NONE"}]
           /\ been' \in [Orders -> SUBSET Gates]
           /\ status'[o] = s
           /\ been'[o] = been[o] \cup ({s} \cap Gates)
           /\ \A p \in Orders \ {o} : /\ status'[p] = status[p]
                                      /\ been'[p] = been[p]
BY DEF ColumnsOK, SetStatus

\* Freeing a slot.
LEMMA TakesEffect ==
    ASSUME ColumnsOK, NEW w \in Workers, NEW op \in Ops, Takes(w, op)
    PROVE  /\ req[w] \in Request /\ req[w].o \in Orders /\ req[w].op = op
           /\ req' \in [Workers -> Request \cup {Idle}]
           /\ \A v \in Workers : req'[v] = req[v] \/ req'[v] = Idle
<1>1. req[w].op = op /\ req' = [req EXCEPT ![w] = Idle]
  BY DEF Takes
<1>2. req[w] \in Request /\ req[w].o \in Orders
  BY <1>1, SlotIsRequest
<1>3. QED
  BY <1>1, <1>2 DEF ColumnsOK
-----------------------------------------------------------------------------
LEMMA GateInvInit == Init => GateInv
BY MaxDeskAssumption
DEF Init, GateInv, ColumnsOK, OrderOK, ReqOK, Idle, Gates, Status, Ops,
    QuoteStatus, Balance

-----------------------------------------------------------------------------
(* The one-write handlers *)

LEMMA ReceiveKeepsInv ==
    ASSUME GateInv, NEW o \in Orders, Receive(o)
    PROVE  GateInv'
<1> USE DEF GateInv
<1>1. "RECEIVED" \in Status /\ "RECEIVED" \notin Gates
  BY DEF Status, Gates
<1>2. SetStatus(o, "RECEIVED")
  BY DEF Receive
<1>3. /\ status'[o] = "RECEIVED"
      /\ been'[o] = been[o] \cup ({"RECEIVED"} \cap Gates)
      /\ status' \in [Orders -> Status \cup {"NONE"}]
      /\ been' \in [Orders -> SUBSET Gates]
      /\ \A p \in Orders \ {o} : /\ status'[p] = status[p]
                                 /\ been'[p] = been[p]
  BY <1>1, <1>2, SetStatusEffect
<1>4. UNCHANGED <<quote, hasParts, completed, balance, deskTx, req>>
  BY DEF Receive
<1>5. mechanic' \in [Orders -> Users \cup {NoUser}]
  BY DEF Receive, ColumnsOK
<1>6. ColumnsOK'
  BY <1>3, <1>4, <1>5 DEF ColumnsOK
<1>7. OrderOK(o)'
  BY <1>1, <1>3, <1>4 DEF OrderOK
<1>8. QED
  BY <1>3, <1>4, <1>6, <1>7, OneOrderKeepsInv

LEMMA DraftQuoteKeepsInv ==
    ASSUME GateInv, NEW o \in Orders, DraftQuote(o)
    PROVE  GateInv'
<1> USE DEF GateInv
<1>1. /\ quote' = [quote EXCEPT ![o] = "DRAFT"]
      /\ UNCHANGED <<status, been, mechanic, hasParts, completed,
                     balance, deskTx, req>>
  BY DEF DraftQuote, KeepStatus
<1>2. ColumnsOK'
  BY <1>1 DEF ColumnsOK, QuoteStatus
<1>3. OrderOK(o)'
  BY <1>1 DEF OrderOK, ColumnsOK
<1>4. \A p \in Orders \ {o} : quote'[p] = quote[p]
  BY <1>1 DEF ColumnsOK
<1>5. QED
  BY <1>1, <1>2, <1>3, <1>4, OneOrderKeepsInv

LEMMA PayKeepsInv ==
    ASSUME GateInv, NEW o \in Orders, Pay(o)
    PROVE  GateInv'
<1> USE DEF GateInv
<1>1. /\ balance' = [balance EXCEPT ![o] = "COVERED"]
      /\ UNCHANGED <<status, been, mechanic, quote, hasParts,
                     completed, deskTx, req>>
  BY DEF Pay, KeepStatus
<1>2. ColumnsOK'
  BY <1>1 DEF ColumnsOK, Balance
<1>3. OrderOK(o)'
  BY <1>1 DEF OrderOK
<1>4. QED
  BY <1>1, <1>2, <1>3, OneOrderKeepsInv

-----------------------------------------------------------------------------
(* The reads *)

LEMMA BeginStatusKeepsInv ==
    ASSUME GateInv, NEW w \in Workers, NEW o \in Orders, NEW to \in Status,
           NEW u \in Users, BeginStatus(w, o, to, u)
    PROVE  GateInv'
<1> DEFINE op == IF to \in {"IN_PROGRESS", "DELIVERED"}
                 THEN "statusCheck" ELSE "status"
<1>1. op \in Ops
  BY DEF Ops
<1>2. Park(w, op, o, to, NoUser)
  BY DEF BeginStatus
<1>3. ReqOK([op |-> op, o |-> o, to |-> to, by |-> NoUser])
  BY DEF ReqOK
<1>4. QED
  BY <1>1, <1>2, <1>3, ParkKeepsInv

LEMMA BeginPatchKeepsInv ==
    ASSUME GateInv, NEW w \in Workers, NEW o \in Orders, NEW to \in Status \cup {"KEEP"},
           NEW u \in Users,
           BeginPatch(w, o, to, u)
    PROVE  GateInv'
<1>1. Park(w, "patch", o, to, NoUser)
  BY DEF BeginPatch
<1>2. ReqOK([op |-> "patch", o |-> o, to |-> to, by |-> NoUser])
  BY DEF ReqOK
<1>3. QED
  BY <1>1, <1>2, ParkKeepsInv DEF Ops, Status, Users

LEMMA BeginDeleteKeepsInv ==
    ASSUME GateInv, NEW w \in Workers, NEW o \in Orders,
           BeginDelete(w, o)
    PROVE  GateInv'
<1>1. Park(w, "delete", o, "CANCELLED", NoUser)
  BY DEF BeginDelete
<1>2. ReqOK([op |-> "delete", o |-> o, to |-> "CANCELLED", by |-> NoUser])
  BY DEF ReqOK
<1>3. QED
  BY <1>1, <1>2, ParkKeepsInv DEF Ops, Status, Users

LEMMA BeginAssignKeepsInv ==
    ASSUME GateInv, NEW w \in Workers, NEW o \in Orders, NEW m \in Users,
           BeginAssign(w, o, m)
    PROVE  GateInv'
<1>1. Park(w, "assign", o, "KEEP", m)
  BY DEF BeginAssign
<1>2. ReqOK([op |-> "assign", o |-> o, to |-> "KEEP", by |-> m])
  BY DEF ReqOK
<1>3. QED
  BY <1>1, <1>2, ParkKeepsInv DEF Ops, Status, Users

LEMMA BeginProgressKeepsInv ==
    ASSUME GateInv, NEW w \in Workers, NEW o \in Orders, NEW u \in Users,
           BeginProgress(w, o, u)
    PROVE  GateInv'
<1>1. Park(w, "progress", o, "KEEP", NoUser)
  BY DEF BeginProgress
<1>2. ReqOK([op |-> "progress", o |-> o, to |-> "KEEP", by |-> NoUser])
  BY DEF ReqOK
<1>3. QED
  BY <1>1, <1>2, ParkKeepsInv DEF Ops, Status, Users

LEMMA BeginSendQuoteKeepsInv ==
    ASSUME GateInv, NEW w \in Workers, NEW o \in Orders,
           BeginSendQuote(w, o)
    PROVE  GateInv'
<1>1. Park(w, "sendQuote", o, "KEEP", NoUser)
  BY DEF BeginSendQuote
<1>2. ReqOK([op |-> "sendQuote", o |-> o, to |-> "KEEP", by |-> NoUser])
  BY DEF GateInv, OrderOK, Gates, ReqOK, BeginSendQuote
<1>3. QED
  BY <1>1, <1>2, ParkKeepsInv DEF Ops, Status, Users

LEMMA BeginApproveKeepsInv ==
    ASSUME GateInv, NEW w \in Workers, NEW o \in Orders,
           BeginApprove(w, o)
    PROVE  GateInv'
<1>1. Park(w, "approve", o, "IN_PROGRESS", NoUser)
  BY DEF BeginApprove
<1>2. ReqOK([op |-> "approve", o |-> o, to |-> "IN_PROGRESS", by |-> NoUser])
  BY DEF GateInv, OrderOK, Gates, ReqOK, BeginApprove
<1>3. QED
  BY <1>1, <1>2, ParkKeepsInv DEF Ops, Status, Users

LEMMA BeginRejectKeepsInv ==
    ASSUME GateInv, NEW w \in Workers, NEW o \in Orders,
           BeginReject(w, o)
    PROVE  GateInv'
<1>1. Park(w, "reject", o, "KEEP", NoUser)
  BY DEF BeginReject
<1>2. ReqOK([op |-> "reject", o |-> o, to |-> "KEEP", by |-> NoUser])
  BY DEF ReqOK
<1>3. QED
  BY <1>1, <1>2, ParkKeepsInv DEF Ops, Status, Users

LEMMA BeginQuoteApproveKeepsInv ==
    ASSUME GateInv, NEW w \in Workers, NEW o \in Orders,
           BeginQuoteApprove(w, o)
    PROVE  GateInv'
<1>1. Park(w, "quoteApprove", o, "BUDGETED", NoUser)
  BY DEF BeginQuoteApprove
<1>2. ReqOK([op |-> "quoteApprove", o |-> o, to |-> "BUDGETED", by |-> NoUser])
  BY DEF ReqOK
<1>3. QED
  BY <1>1, <1>2, ParkKeepsInv DEF Ops, Status, Users

LEMMA BeginQuoteRejectKeepsInv ==
    ASSUME GateInv, NEW w \in Workers, NEW o \in Orders,
           BeginQuoteReject(w, o)
    PROVE  GateInv'
<1>1. Park(w, "quoteReject", o, "KEEP", NoUser)
  BY DEF BeginQuoteReject
<1>2. ReqOK([op |-> "quoteReject", o |-> o, to |-> "KEEP", by |-> NoUser])
  BY DEF ReqOK
<1>3. QED
  BY <1>1, <1>2, ParkKeepsInv DEF Ops, Status, Users

LEMMA BeginConvertKeepsInv ==
    ASSUME GateInv, NEW w \in Workers, NEW o \in Orders,
           BeginConvert(w, o)
    PROVE  GateInv'
<1>1. Park(w, "convert", o, "IN_PROGRESS", NoUser)
  BY DEF BeginConvert
<1>2. ReqOK([op |-> "convert", o |-> o, to |-> "IN_PROGRESS", by |-> NoUser])
  BY DEF GateInv, OrderOK, Gates, ReqOK, BeginConvert
<1>3. QED
  BY <1>1, <1>2, ParkKeepsInv DEF Ops, Status, Users

LEMMA BeginDispatchKeepsInv ==
    ASSUME GateInv, NEW w \in Workers, NEW o \in Orders, NEW u \in Users,
           BeginDispatch(w, o, u)
    PROVE  GateInv'
<1>1. Park(w, "dispatch", o, "KEEP", NoUser)
  BY DEF BeginDispatch
<1>2. ReqOK([op |-> "dispatch", o |-> o, to |-> "KEEP", by |-> NoUser])
  BY DEF GateInv, OrderOK, Gates, ReqOK, BeginDispatch
<1>3. QED
  BY <1>1, <1>2, ParkKeepsInv DEF Ops, Status, Users

LEMMA BeginCompleteKeepsInv ==
    ASSUME GateInv, NEW w \in Workers, NEW o \in Orders, NEW to \in Status,
           NEW u \in Users,
           BeginComplete(w, o, to, u)
    PROVE  GateInv'
<1>1. Park(w, "complete", o, CompletionTarget(u, to), NoUser)
  BY DEF BeginComplete
<1>2. ReqOK([op |-> "complete", o |-> o, to |-> CompletionTarget(u, to), by |-> NoUser])
  BY DEF GateInv, OrderOK, Gates, ReqOK, BeginComplete, CompletionTarget
<1>3. QED
  BY <1>1, <1>2, ParkKeepsInv DEF Ops, Status, Users,
     BeginComplete, CompletionTarget

LEMMA BeginDeliverKeepsInv ==
    ASSUME GateInv, NEW w \in Workers, NEW o \in Orders,
           BeginDeliver(w, o)
    PROVE  GateInv'
<1>1. Park(w, "deliver", o, "DELIVERED", NoUser)
  BY DEF BeginDeliver
<1>2. ReqOK([op |-> "deliver", o |-> o, to |-> "DELIVERED", by |-> NoUser])
  BY DEF GateInv, OrderOK, Gates, ReqOK, BeginDeliver
<1>3. QED
  BY <1>1, <1>2, ParkKeepsInv DEF Ops, Status, Users

LEMMA CheckStatusKeepsInv ==
    ASSUME GateInv, NEW w \in Workers, CheckStatus(w)
    PROVE  GateInv'
<1> USE DEF GateInv
<1>1. req[w] \in Request /\ ReqOK(req[w])
  BY SlotIsRequest DEF CheckStatus, Ops
<1> DEFINE r == [req[w] EXCEPT !.op = "status"]
<1>2. r \in Request /\ r.op = "status" /\ r.o = req[w].o /\ r.to = req[w].to
  BY <1>1 DEF Request, Ops
<1>3. ReqOK(r)
  BY <1>1, <1>2 DEF CheckStatus, ReqOK
<1>4. req' = [req EXCEPT ![w] = r] /\ UNCHANGED <<order, been>>
  BY DEF CheckStatus
<1>5. ColumnsOK'
  BY <1>2, <1>4 DEF ColumnsOK, order
<1>6. \A p \in Orders : OrderOK(p)'
  BY <1>4 DEF OrderOK, order
<1>7. ASSUME NEW v \in Workers PROVE ReqOK(req[v])'
  <2>1. req'[v] = IF v = w THEN r ELSE req[v]
    BY <1>4 DEF ColumnsOK
  <2>2. CASE v = w
    BY <1>3, <1>4, <2>1, <2>2 DEF ReqOK, order
  <2>3. CASE v # w
    BY <1>4, <2>1, <2>3 DEF ReqOK, order
  <2>4. QED
    BY <2>2, <2>3
<1>8. QED
  BY <1>5, <1>6, <1>7

LEMMA FailKeepsInv ==
    ASSUME GateInv, NEW w \in Workers, Fail(w)
    PROVE  GateInv'
<1>1. req' = [req EXCEPT ![w] = Idle] /\ UNCHANGED <<order, been>>
  BY DEF Fail
<1>2. ColumnsOK'
  BY <1>1 DEF GateInv, ColumnsOK, order
<1>3. \A p \in Orders : OrderOK(p)'
  BY <1>1 DEF GateInv, OrderOK, order
<1>4. ASSUME NEW v \in Workers PROVE ReqOK(req[v])'
  <2>1. req'[v] = IF v = w THEN Idle ELSE req[v]
    BY <1>1 DEF GateInv, ColumnsOK
  <2>2. CASE v = w
    BY <2>1, <2>2 DEF ReqOK, Idle
  <2>3. CASE v # w
    BY <1>1, <2>1, <2>3 DEF GateInv, ReqOK, order
  <2>4. QED
    BY <2>2, <2>3
<1>5. QED
  BY <1>2, <1>3, <1>4 DEF GateInv

-----------------------------------------------------------------------------
(* The writes *)

\* What a request of handler op may write, from ReqOK; o is its order.
LEMMA CommitFacts ==
    ASSUME GateInv, NEW w \in Workers, NEW op \in Ops, Takes(w, op)
    PROVE  /\ req[w] \in Request /\ req[w].o \in Orders /\ req[w].op = op
           /\ ReqOK(req[w]) /\ OrderOK(req[w].o)
           /\ req' \in [Workers -> Request \cup {Idle}]
           /\ \A v \in Workers : req'[v] = req[v] \/ req'[v] = Idle
BY TakesEffect DEF GateInv

LEMMA CommitStatusKeepsInv ==
    ASSUME GateInv, NEW w \in Workers, CommitStatus(w)
    PROVE  GateInv'
<1>1. Takes(w, "status") /\ "status" \in Ops
  BY DEF CommitStatus, Ops
<1> PICK o \in Orders : req[w].o = o
  BY <1>1, CommitFacts
<1>2. /\ ColumnsOK /\ req[w].o = o /\ req[w] \in Request /\ req[w].op = "status"
      /\ ReqOK(req[w]) /\ OrderOK(o)
      /\ req' \in [Workers -> Request \cup {Idle}]
      /\ \A v \in Workers : req'[v] = req[v] \/ req'[v] = Idle
  BY <1>1, CommitFacts DEF GateInv
<1>3. req[w].to \in Status /\ SetStatus(o, req[w].to)
  BY <1>2 DEF CommitStatus, ReqOK
<1>4. /\ status' \in [Orders -> Status \cup {"NONE"}]
      /\ been' \in [Orders -> SUBSET Gates]
      /\ status'[o] = req[w].to
      /\ been'[o] = been[o] \cup ({req[w].to} \cap Gates)
      /\ \A p \in Orders \ {o} : /\ status'[p] = status[p]
                                 /\ been'[p] = been[p]
  BY <1>2, <1>3, SetStatusEffect
<1>5. UNCHANGED <<quote, mechanic, hasParts, completed, balance, deskTx>>
  BY <1>2 DEF CommitStatus
<1>6. ColumnsOK'
  BY <1>2, <1>4, <1>5 DEF ColumnsOK
<1>7. OrderOK(o)'
  BY <1>2, <1>3, <1>4, <1>5 DEF OrderOK, ReqOK, ColumnsOK, Gates
<1>8. QED
  BY <1>2, <1>4, <1>5, <1>6, <1>7, OneOrderKeepsInv DEF ColumnsOK

LEMMA CommitDeleteKeepsInv ==
    ASSUME GateInv, NEW w \in Workers, CommitDelete(w)
    PROVE  GateInv'
<1>1. Takes(w, "delete") /\ "delete" \in Ops
  BY DEF CommitDelete, Ops
<1> PICK o \in Orders : req[w].o = o
  BY <1>1, CommitFacts
<1>2. /\ ColumnsOK /\ req[w].o = o /\ req[w] \in Request /\ req[w].op = "delete"
      /\ ReqOK(req[w]) /\ OrderOK(o)
      /\ req' \in [Workers -> Request \cup {Idle}]
      /\ \A v \in Workers : req'[v] = req[v] \/ req'[v] = Idle
  BY <1>1, CommitFacts DEF GateInv
<1>3. "CANCELLED" \in Status /\ SetStatus(o, "CANCELLED")
  BY <1>2 DEF CommitDelete, Status
<1>4. /\ status' \in [Orders -> Status \cup {"NONE"}]
      /\ been' \in [Orders -> SUBSET Gates]
      /\ status'[o] = "CANCELLED"
      /\ been'[o] = been[o] \cup ({"CANCELLED"} \cap Gates)
      /\ \A p \in Orders \ {o} : /\ status'[p] = status[p]
                                 /\ been'[p] = been[p]
  BY <1>2, <1>3, SetStatusEffect
<1>5. UNCHANGED <<quote, mechanic, hasParts, completed, balance, deskTx>>
  BY <1>2 DEF CommitDelete
<1>6. ColumnsOK'
  BY <1>2, <1>4, <1>5 DEF ColumnsOK
<1>7. OrderOK(o)'
  BY <1>2, <1>3, <1>4, <1>5 DEF OrderOK, ReqOK, ColumnsOK, Gates
<1>8. QED
  BY <1>2, <1>4, <1>5, <1>6, <1>7, OneOrderKeepsInv DEF ColumnsOK

LEMMA CommitApproveKeepsInv ==
    ASSUME GateInv, NEW w \in Workers, CommitApprove(w)
    PROVE  GateInv'
<1>1. Takes(w, "approve") /\ "approve" \in Ops
  BY DEF CommitApprove, Ops
<1> PICK o \in Orders : req[w].o = o
  BY <1>1, CommitFacts
<1>2. /\ ColumnsOK /\ req[w].o = o /\ req[w] \in Request /\ req[w].op = "approve"
      /\ ReqOK(req[w]) /\ OrderOK(o)
      /\ req' \in [Workers -> Request \cup {Idle}]
      /\ \A v \in Workers : req'[v] = req[v] \/ req'[v] = Idle
  BY <1>1, CommitFacts DEF GateInv
<1>3. "IN_PROGRESS" \in Status /\ SetStatus(o, "IN_PROGRESS")
  BY <1>2 DEF CommitApprove, Status
<1>4. /\ status' \in [Orders -> Status \cup {"NONE"}]
      /\ been' \in [Orders -> SUBSET Gates]
      /\ status'[o] = "IN_PROGRESS"
      /\ been'[o] = been[o] \cup ({"IN_PROGRESS"} \cap Gates)
      /\ \A p \in Orders \ {o} : /\ status'[p] = status[p]
                                 /\ been'[p] = been[p]
  BY <1>2, <1>3, SetStatusEffect
<1>5. /\ quote' = [quote EXCEPT ![o] = "APPROVED"]
      /\ UNCHANGED <<mechanic, hasParts, completed, balance, deskTx>>
  BY <1>2 DEF CommitApprove
<1>6. ColumnsOK'
  BY <1>2, <1>4, <1>5 DEF ColumnsOK, QuoteStatus
<1>7. OrderOK(o)'
  BY <1>2, <1>3, <1>4, <1>5 DEF OrderOK, ReqOK, ColumnsOK, Gates
<1>8. QED
  BY <1>2, <1>4, <1>5, <1>6, <1>7, OneOrderKeepsInv DEF ColumnsOK

LEMMA CommitQuoteApproveKeepsInv ==
    ASSUME GateInv, NEW w \in Workers, CommitQuoteApprove(w)
    PROVE  GateInv'
<1>1. Takes(w, "quoteApprove") /\ "quoteApprove" \in Ops
  BY DEF CommitQuoteApprove, Ops
<1> PICK o \in Orders : req[w].o = o
  BY <1>1, CommitFacts
<1>2. /\ ColumnsOK /\ req[w].o = o /\ req[w] \in Request /\ req[w].op = "quoteApprove"
      /\ ReqOK(req[w]) /\ OrderOK(o)
      /\ req' \in [Workers -> Request \cup {Idle}]
      /\ \A v \in Workers : req'[v] = req[v] \/ req'[v] = Idle
  BY <1>1, CommitFacts DEF GateInv
<1>3. "BUDGETED" \in Status /\ SetStatus(o, "BUDGETED")
  BY <1>2 DEF CommitQuoteApprove, Status
<1>4. /\ status' \in [Orders -> Status \cup {"NONE"}]
      /\ been' \in [Orders -> SUBSET Gates]
      /\ status'[o] = "BUDGETED"
      /\ been'[o] = been[o] \cup ({"BUDGETED"} \cap Gates)
      /\ \A p \in Orders \ {o} : /\ status'[p] = status[p]
                                 /\ been'[p] = been[p]
  BY <1>2, <1>3, SetStatusEffect
<1>5. /\ quote' = [quote EXCEPT ![o] = "APPROVED"]
      /\ UNCHANGED <<mechanic, hasParts, completed, balance, deskTx>>
  BY <1>2 DEF CommitQuoteApprove
<1>6. ColumnsOK'
  BY <1>2, <1>4, <1>5 DEF ColumnsOK, QuoteStatus
<1>7. OrderOK(o)'
  BY <1>2, <1>3, <1>4, <1>5 DEF OrderOK, ReqOK, ColumnsOK, Gates
<1>8. QED
  BY <1>2, <1>4, <1>5, <1>6, <1>7, OneOrderKeepsInv DEF ColumnsOK

LEMMA CommitConvertKeepsInv ==
    ASSUME GateInv, NEW w \in Workers, CommitConvert(w)
    PROVE  GateInv'
<1>1. Takes(w, "convert") /\ "convert" \in Ops
  BY DEF CommitConvert, Ops
<1> PICK o \in Orders : req[w].o = o
  BY <1>1, CommitFacts
<1>2. /\ ColumnsOK /\ req[w].o = o /\ req[w] \in Request /\ req[w].op = "convert"
      /\ ReqOK(req[w]) /\ OrderOK(o)
      /\ req' \in [Workers -> Request \cup {Idle}]
      /\ \A v \in Workers : req'[v] = req[v] \/ req'[v] = Idle
  BY <1>1, CommitFacts DEF GateInv
<1>3. "IN_PROGRESS" \in Status /\ SetStatus(o, "IN_PROGRESS")
  BY <1>2 DEF CommitConvert, Status
<1>4. /\ status' \in [Orders -> Status \cup {"NONE"}]
      /\ been' \in [Orders -> SUBSET Gates]
      /\ status'[o] = "IN_PROGRESS"
      /\ been'[o] = been[o] \cup ({"IN_PROGRESS"} \cap Gates)
      /\ \A p \in Orders \ {o} : /\ status'[p] = status[p]
                                 /\ been'[p] = been[p]
  BY <1>2, <1>3, SetStatusEffect
<1>5. /\ quote' = [quote EXCEPT ![o] = "CONVERTED"]
      /\ UNCHANGED <<mechanic, hasParts, completed, balance, deskTx>>
  BY <1>2 DEF CommitConvert
<1>6. ColumnsOK'
  BY <1>2, <1>4, <1>5 DEF ColumnsOK, QuoteStatus
<1>7. OrderOK(o)'
  BY <1>2, <1>3, <1>4, <1>5 DEF OrderOK, ReqOK, ColumnsOK, Gates
<1>8. QED
  BY <1>2, <1>4, <1>5, <1>6, <1>7, OneOrderKeepsInv DEF ColumnsOK

LEMMA CommitCompleteKeepsInv ==
    ASSUME GateInv, NEW w \in Workers, CommitComplete(w)
    PROVE  GateInv'
<1>1. Takes(w, "complete") /\ "complete" \in Ops
  BY DEF CommitComplete, Ops
<1> PICK o \in Orders : req[w].o = o
  BY <1>1, CommitFacts
<1>2. /\ ColumnsOK /\ req[w].o = o /\ req[w] \in Request /\ req[w].op = "complete"
      /\ ReqOK(req[w]) /\ OrderOK(o)
      /\ req' \in [Workers -> Request \cup {Idle}]
      /\ \A v \in Workers : req'[v] = req[v] \/ req'[v] = Idle
  BY <1>1, CommitFacts DEF GateInv
<1>3. req[w].to \in Status /\ SetStatus(o, req[w].to)
  BY <1>2 DEF CommitComplete, ReqOK, Status
<1>4. /\ status' \in [Orders -> Status \cup {"NONE"}]
      /\ been' \in [Orders -> SUBSET Gates]
      /\ status'[o] = req[w].to
      /\ been'[o] = been[o] \cup ({req[w].to} \cap Gates)
      /\ \A p \in Orders \ {o} : /\ status'[p] = status[p]
                                 /\ been'[p] = been[p]
  BY <1>2, <1>3, SetStatusEffect
<1>5. /\ completed' = [completed EXCEPT ![o] = TRUE]
      /\ UNCHANGED <<mechanic, quote, hasParts, balance, deskTx>>
  BY <1>2 DEF CommitComplete
<1>6. ColumnsOK'
  BY <1>2, <1>4, <1>5 DEF ColumnsOK
<1>7. OrderOK(o)'
  BY <1>2, <1>3, <1>4, <1>5 DEF OrderOK, ReqOK, ColumnsOK, Gates
<1>8. QED
  BY <1>2, <1>4, <1>5, <1>6, <1>7, OneOrderKeepsInv DEF ColumnsOK

LEMMA CommitDeliverKeepsInv ==
    ASSUME GateInv, NEW w \in Workers, CommitDeliver(w)
    PROVE  GateInv'
<1>1. Takes(w, "deliver") /\ "deliver" \in Ops
  BY DEF CommitDeliver, Ops
<1> PICK o \in Orders : req[w].o = o
  BY <1>1, CommitFacts
<1>2. /\ ColumnsOK /\ req[w].o = o /\ req[w] \in Request /\ req[w].op = "deliver"
      /\ ReqOK(req[w]) /\ OrderOK(o)
      /\ req' \in [Workers -> Request \cup {Idle}]
      /\ \A v \in Workers : req'[v] = req[v] \/ req'[v] = Idle
  BY <1>1, CommitFacts DEF GateInv
<1>3. "DELIVERED" \in Status /\ SetStatus(o, "DELIVERED")
  BY <1>2 DEF CommitDeliver, Status
<1>4. /\ status' \in [Orders -> Status \cup {"NONE"}]
      /\ been' \in [Orders -> SUBSET Gates]
      /\ status'[o] = "DELIVERED"
      /\ been'[o] = been[o] \cup ({"DELIVERED"} \cap Gates)
      /\ \A p \in Orders \ {o} : /\ status'[p] = status[p]
                                 /\ been'[p] = been[p]
  BY <1>2, <1>3, SetStatusEffect
<1>5. /\ deskTx[o] < MaxDesk
      /\ deskTx' = [deskTx EXCEPT ![o] = @ + 1]
      /\ UNCHANGED <<mechanic, quote, hasParts, completed, balance>>
  BY <1>2 DEF CommitDeliver
<1>6. ColumnsOK'
  <2>1. deskTx' \in [Orders -> 0..MaxDesk]
    BY <1>2, <1>5, MaxDeskAssumption DEF ColumnsOK
  <2>2. QED
    BY <1>2, <1>4, <1>5, <2>1 DEF ColumnsOK
<1>7. OrderOK(o)'
  BY <1>2, <1>3, <1>4, <1>5 DEF OrderOK, ReqOK, ColumnsOK, Gates
<1>8. QED
  BY <1>2, <1>4, <1>5, <1>6, <1>7, OneOrderKeepsInv DEF ColumnsOK

LEMMA CommitAssignKeepsInv ==
    ASSUME GateInv, NEW w \in Workers, CommitAssign(w)
    PROVE  GateInv'
<1>1. Takes(w, "assign") /\ "assign" \in Ops
  BY DEF CommitAssign, Ops
<1> PICK o \in Orders : req[w].o = o
  BY <1>1, CommitFacts
<1>2. /\ ColumnsOK /\ req[w].o = o /\ req[w] \in Request /\ req[w].op = "assign"
      /\ ReqOK(req[w]) /\ OrderOK(o)
      /\ req' \in [Workers -> Request \cup {Idle}]
      /\ \A v \in Workers : req'[v] = req[v] \/ req'[v] = Idle
  BY <1>1, CommitFacts DEF GateInv
<1>3. /\ mechanic' = [mechanic EXCEPT ![o] = req[w].by]
      /\ UNCHANGED <<status, been, quote, hasParts, completed, balance, deskTx>>
  BY <1>2 DEF CommitAssign, KeepStatus
<1>4. ColumnsOK'
  BY <1>2, <1>3 DEF ColumnsOK, Request
<1>5. OrderOK(o)'
  BY <1>2, <1>3 DEF OrderOK, ReqOK, ColumnsOK
<1>6. QED
  BY <1>2, <1>3, <1>4, <1>5, OneOrderKeepsInv DEF ColumnsOK

LEMMA CommitProgressKeepsInv ==
    ASSUME GateInv, NEW w \in Workers, CommitProgress(w)
    PROVE  GateInv'
<1>1. Takes(w, "progress") /\ "progress" \in Ops
  BY DEF CommitProgress, Ops
<1> PICK o \in Orders : req[w].o = o
  BY <1>1, CommitFacts
<1>2. /\ ColumnsOK /\ req[w].o = o /\ req[w] \in Request /\ req[w].op = "progress"
      /\ ReqOK(req[w]) /\ OrderOK(o)
      /\ req' \in [Workers -> Request \cup {Idle}]
      /\ \A v \in Workers : req'[v] = req[v] \/ req'[v] = Idle
  BY <1>1, CommitFacts DEF GateInv
<1>3. /\ \E b \in Balance : balance' = [balance EXCEPT ![o] = b]
      /\ UNCHANGED <<status, been, mechanic, quote, hasParts, completed, deskTx>>
  BY <1>2 DEF CommitProgress, KeepStatus, Reprice
<1>4. ColumnsOK'
  BY <1>2, <1>3 DEF ColumnsOK
<1>5. OrderOK(o)'
  BY <1>2, <1>3 DEF OrderOK, ReqOK, ColumnsOK
<1>6. QED
  BY <1>2, <1>3, <1>4, <1>5, OneOrderKeepsInv DEF ColumnsOK

LEMMA CommitSendQuoteKeepsInv ==
    ASSUME GateInv, NEW w \in Workers, CommitSendQuote(w)
    PROVE  GateInv'
<1>1. Takes(w, "sendQuote") /\ "sendQuote" \in Ops
  BY DEF CommitSendQuote, Ops
<1> PICK o \in Orders : req[w].o = o
  BY <1>1, CommitFacts
<1>2. /\ ColumnsOK /\ req[w].o = o /\ req[w] \in Request /\ req[w].op = "sendQuote"
      /\ ReqOK(req[w]) /\ OrderOK(o)
      /\ req' \in [Workers -> Request \cup {Idle}]
      /\ \A v \in Workers : req'[v] = req[v] \/ req'[v] = Idle
  BY <1>1, CommitFacts DEF GateInv
<1>3. /\ quote' = [quote EXCEPT ![o] = "SENT"]
      /\ \E b \in Balance : balance' = [balance EXCEPT ![o] = b]
      /\ UNCHANGED <<status, been, mechanic, hasParts, completed, deskTx>>
  BY <1>2 DEF CommitSendQuote, KeepStatus, Reprice
<1>4. ColumnsOK'
  BY <1>2, <1>3 DEF ColumnsOK, QuoteStatus
<1>5. OrderOK(o)'
  BY <1>2, <1>3 DEF OrderOK, ReqOK, ColumnsOK
<1>6. QED
  BY <1>2, <1>3, <1>4, <1>5, OneOrderKeepsInv DEF ColumnsOK

LEMMA CommitRejectKeepsInv ==
    ASSUME GateInv, NEW w \in Workers, CommitReject(w)
    PROVE  GateInv'
<1>1. Takes(w, "reject") /\ "reject" \in Ops
  BY DEF CommitReject, Ops
<1> PICK o \in Orders : req[w].o = o
  BY <1>1, CommitFacts
<1>2. /\ ColumnsOK /\ req[w].o = o /\ req[w] \in Request /\ req[w].op = "reject"
      /\ ReqOK(req[w]) /\ OrderOK(o)
      /\ req' \in [Workers -> Request \cup {Idle}]
      /\ \A v \in Workers : req'[v] = req[v] \/ req'[v] = Idle
  BY <1>1, CommitFacts DEF GateInv
<1>3. /\ quote' = [quote EXCEPT ![o] = "REJECTED"]
      /\ UNCHANGED <<status, been, mechanic, hasParts, completed, balance, deskTx>>
  BY <1>2 DEF CommitReject, KeepStatus
<1>4. ColumnsOK'
  BY <1>2, <1>3 DEF ColumnsOK, QuoteStatus
<1>5. OrderOK(o)'
  BY <1>2, <1>3 DEF OrderOK, ReqOK, ColumnsOK
<1>6. QED
  BY <1>2, <1>3, <1>4, <1>5, OneOrderKeepsInv DEF ColumnsOK

LEMMA CommitQuoteRejectKeepsInv ==
    ASSUME GateInv, NEW w \in Workers, CommitQuoteReject(w)
    PROVE  GateInv'
<1>1. Takes(w, "quoteReject") /\ "quoteReject" \in Ops
  BY DEF CommitQuoteReject, Ops
<1> PICK o \in Orders : req[w].o = o
  BY <1>1, CommitFacts
<1>2. /\ ColumnsOK /\ req[w].o = o /\ req[w] \in Request /\ req[w].op = "quoteReject"
      /\ ReqOK(req[w]) /\ OrderOK(o)
      /\ req' \in [Workers -> Request \cup {Idle}]
      /\ \A v \in Workers : req'[v] = req[v] \/ req'[v] = Idle
  BY <1>1, CommitFacts DEF GateInv
<1>3. /\ quote' = [quote EXCEPT ![o] = "REJECTED"]
      /\ UNCHANGED <<status, been, mechanic, hasParts, completed, balance, deskTx>>
  BY <1>2 DEF CommitQuoteReject, KeepStatus
<1>4. ColumnsOK'
  BY <1>2, <1>3 DEF ColumnsOK, QuoteStatus
<1>5. OrderOK(o)'
  BY <1>2, <1>3 DEF OrderOK, ReqOK, ColumnsOK
<1>6. QED
  BY <1>2, <1>3, <1>4, <1>5, OneOrderKeepsInv DEF ColumnsOK

LEMMA CommitDispatchKeepsInv ==
    ASSUME GateInv, NEW w \in Workers, CommitDispatch(w)
    PROVE  GateInv'
<1>1. Takes(w, "dispatch") /\ "dispatch" \in Ops
  BY DEF CommitDispatch, Ops
<1> PICK o \in Orders : req[w].o = o
  BY <1>1, CommitFacts
<1>2. /\ ColumnsOK /\ req[w].o = o /\ req[w] \in Request /\ req[w].op = "dispatch"
      /\ ReqOK(req[w]) /\ OrderOK(o)
      /\ req' \in [Workers -> Request \cup {Idle}]
      /\ \A v \in Workers : req'[v] = req[v] \/ req'[v] = Idle
  BY <1>1, CommitFacts DEF GateInv
<1>3. /\ hasParts' = [hasParts EXCEPT ![o] = TRUE]
      /\ \E b \in Balance : balance' = [balance EXCEPT ![o] = b]
      /\ UNCHANGED <<status, been, mechanic, quote, completed, deskTx>>
  BY <1>2 DEF CommitDispatch, KeepStatus, AddParts
<1>4. ColumnsOK'
  BY <1>2, <1>3 DEF ColumnsOK
<1>5. OrderOK(o)'
  BY <1>2, <1>3 DEF OrderOK, ReqOK, ColumnsOK
<1>6. QED
  BY <1>2, <1>3, <1>4, <1>5, OneOrderKeepsInv DEF ColumnsOK

LEMMA CommitPatchKeepsInv ==
    ASSUME GateInv, NEW w \in Workers, CommitPatch(w)
    PROVE  GateInv'
<1>1. Takes(w, "patch") /\ "patch" \in Ops
  BY DEF CommitPatch, Ops
<1> PICK o \in Orders : req[w].o = o
  BY <1>1, CommitFacts
<1>2. /\ ColumnsOK /\ req[w].o = o /\ req[w] \in Request /\ req[w].op = "patch"
      /\ ReqOK(req[w]) /\ OrderOK(o)
      /\ req' \in [Workers -> Request \cup {Idle}]
      /\ \A v \in Workers : req'[v] = req[v] \/ req'[v] = Idle
  BY <1>1, CommitFacts DEF GateInv
<1>3. /\ \E b \in Balance : balance' = [balance EXCEPT ![o] = b]
      /\ UNCHANGED <<mechanic, quote, hasParts, completed, deskTx>>
  BY <1>2 DEF CommitPatch, Reprice
<1>4. CASE req[w].to = "KEEP"
  <2>1. UNCHANGED <<status, been>>
    BY <1>2, <1>4 DEF CommitPatch, KeepStatus
  <2>2. ColumnsOK'
    BY <1>2, <1>3, <2>1 DEF ColumnsOK
  <2>3. OrderOK(o)'
    BY <1>2, <1>3, <2>1 DEF OrderOK
  <2>4. QED
    BY <1>2, <1>3, <2>1, <2>2, <2>3, OneOrderKeepsInv
<1>5. CASE req[w].to # "KEEP"
  <2>1. req[w].to \in Status /\ SetStatus(o, req[w].to)
    BY <1>2, <1>5 DEF CommitPatch, Request
  <2>2. /\ status' \in [Orders -> Status \cup {"NONE"}]
        /\ been' \in [Orders -> SUBSET Gates]
        /\ status'[o] = req[w].to
        /\ been'[o] = been[o] \cup ({req[w].to} \cap Gates)
        /\ \A p \in Orders \ {o} : /\ status'[p] = status[p]
                                   /\ been'[p] = been[p]
    BY <1>2, <2>1, SetStatusEffect
  <2>3. ColumnsOK'
    BY <1>2, <1>3, <2>2 DEF ColumnsOK
  <2>4. OrderOK(o)'
    BY <1>2, <1>3, <2>1, <2>2 DEF OrderOK, ColumnsOK, Gates
  <2>5. QED
    BY <1>2, <1>3, <2>2, <2>3, <2>4, OneOrderKeepsInv
<1>6. QED
  BY <1>4, <1>5

-----------------------------------------------------------------------------
LEMMA BeginKeepsInv ==
    ASSUME GateInv, NEW w \in Workers, Begin(w)
    PROVE  GateInv'
BY BeginStatusKeepsInv, BeginPatchKeepsInv, BeginDeleteKeepsInv,
   BeginAssignKeepsInv, BeginProgressKeepsInv, BeginSendQuoteKeepsInv,
   BeginApproveKeepsInv, BeginRejectKeepsInv, BeginQuoteApproveKeepsInv,
   BeginQuoteRejectKeepsInv, BeginConvertKeepsInv, BeginDispatchKeepsInv,
   BeginCompleteKeepsInv, BeginDeliverKeepsInv
DEF Begin

LEMMA CommitKeepsInv ==
    ASSUME GateInv, NEW w \in Workers, Commit(w)
    PROVE  GateInv'
BY CommitStatusKeepsInv, CommitPatchKeepsInv, CommitDeleteKeepsInv,
   CommitAssignKeepsInv, CommitProgressKeepsInv, CommitSendQuoteKeepsInv,
   CommitApproveKeepsInv, CommitRejectKeepsInv, CommitQuoteApproveKeepsInv,
   CommitQuoteRejectKeepsInv, CommitConvertKeepsInv, CommitDispatchKeepsInv,
   CommitCompleteKeepsInv, CommitDeliverKeepsInv
DEF Commit

LEMMA GateInvStep ==
    ASSUME GateInv, [Next]_vars
    PROVE  GateInv'
<1>1. CASE Act
  <2>1. ASSUME NEW o \in Orders, Receive(o) \/ DraftQuote(o) \/ Pay(o)
        PROVE  GateInv'
    BY <2>1, ReceiveKeepsInv, DraftQuoteKeepsInv, PayKeepsInv
  <2>2. ASSUME NEW w \in Workers, Begin(w) \/ CheckStatus(w) \/ Commit(w) \/ Fail(w)
        PROVE  GateInv'
    BY <2>2, BeginKeepsInv, CheckStatusKeepsInv, CommitKeepsInv, FailKeepsInv
  <2>3. QED
    BY <1>1, <2>1, <2>2 DEF Act
<1>2. CASE UNCHANGED vars
  BY <1>2 DEF vars, GateInv, ColumnsOK, OrderOK, ReqOK
<1>3. QED
  BY <1>1, <1>2 DEF Next

-----------------------------------------------------------------------------
(* Invariance, for every number of orders, workers and users *)

\* What an order has recorded, and what the requests in flight may still
\* write to it, never gets ahead of the gates the order has passed, whatever
\* the orders and quotes handlers interleave.
THEOREM GateInvariant == Spec => []GateInv
BY GateInvInit, GateInvStep, PTL DEF Spec

\* Every column keeps its type, and the bound on desk payments is never passed.
THEOREM TypeCorrect == Spec => []TypeOK
<1>1. Init => overlap \in BOOLEAN
  BY DEF Init
<1>2. overlap \in BOOLEAN /\ [Next]_vars => (overlap \in BOOLEAN)'
  BY DEF Next, vars
<1>3. GateInv /\ overlap \in BOOLEAN => TypeOK
  BY DEF GateInv, TypeOK
<1>4. QED
  BY <1>1, <1>2, <1>3, GateInvariant, PTL DEF Spec

\* AF-01 in updateStatus: POST /status never is the route that first starts
\* the work on an order, even when its parts count is stale.
THEOREM StartedByQuoteOrPatch == Spec => WorkStartsByQuoteOrPatch
<1>1. ASSUME GateInv, NEW w \in Workers, Writes(w, "status"), req[w].to = "IN_PROGRESS"
      PROVE  "IN_PROGRESS" \in been[req[w].o]
  <2>1. req[w].op = "status" /\ req[w].o \in Orders /\ ReqOK(req[w])
    BY <1>1, SlotIsRequest DEF Writes, GateInv, Ops
  <2>2. hasParts[req[w].o]
    BY <1>1, <2>1 DEF ReqOK
  <2>3. QED
    BY <1>1, <2>1, <2>2 DEF GateInv, OrderOK
<1>2. GateInv =>
        \A w \in Workers :
          Writes(w, "status") /\ req[w].to = "IN_PROGRESS" => "IN_PROGRESS" \in been[req[w].o]
  BY <1>1
<1>3. QED
  BY <1>2, GateInvariant, PTL DEF WorkStartsByQuoteOrPatch

\* Dispatch and completion leave their records only on an order that has been
\* in progress.
THEOREM TraceOnlyAfterWork == Spec => []WorkLeavesTrace
<1>1. GateInv => WorkLeavesTrace
  BY DEF GateInv, OrderOK, WorkLeavesTrace
<1>2. QED
  BY <1>1, GateInvariant, PTL

\* The two families of quote endpoints keep the quote row in step with the
\* gates of the order.
THEOREM QuoteInStep == Spec => []QuoteMatchesGates
<1>1. GateInv => QuoteMatchesGates
  BY DEF GateInv, OrderOK, QuoteMatchesGates
<1>2. QED
  BY <1>1, GateInvariant, PTL

\* The delivery desk's payment row exists only for an order that was ready and
\* has been delivered.
THEOREM DeskMoneyInStep == Spec => []DeskMoneyMatchesGates
<1>1. GateInv => DeskMoneyMatchesGates
  BY DEF GateInv, OrderOK, DeskMoneyMatchesGates
<1>2. QED
  BY <1>1, GateInvariant, PTL
-----------------------------------------------------------------------------
(* Requests that have not overlapped.  SnapshotOK says what the request    *)
(* that is alone still knows: Begin establishes it, nobody else writes     *)
(* until Commit, and the one-write handlers do not disturb it.             *)

\* Begin parks a request that is true of the order it looked at.
LEMMA BeginParks ==
    ASSUME ColumnsOK, NEW w \in Workers, Begin(w)
    PROVE  \E r : /\ r.op \in Ops /\ SnapshotOK(r) /\ req[w] = Idle
                  /\ req' = [req EXCEPT ![w] = r] /\ UNCHANGED order
<1> DEFINE Goal == \E r : /\ r.op \in Ops /\ SnapshotOK(r) /\ req[w] = Idle
                          /\ req' = [req EXCEPT ![w] = r] /\ UNCHANGED order
<1>1. ASSUME NEW op \in Ops, NEW o, NEW to, NEW u, Park(w, op, o, to, u),
             SnapshotOK([op |-> op, o |-> o, to |-> to, by |-> u])
      PROVE  Goal
  <2> DEFINE r == [op |-> op, o |-> o, to |-> to, by |-> u]
  <2>1. r.op \in Ops /\ SnapshotOK(r)
    BY <1>1
  <2>2. req[w] = Idle /\ req' = [req EXCEPT ![w] = r] /\ UNCHANGED order
    BY <1>1 DEF Park
  <2>3. QED
    BY <2>1, <2>2
<1>2. ASSUME NEW op \in Ops, NEW o, NEW to, NEW u, Park(w, op, o, to, u),
             op \notin {"statusCheck", "status", "approve", "complete", "deliver"}
      PROVE  Goal
  BY <1>1, <1>2 DEF SnapshotOK
<1>3. ASSUME NEW o \in Orders, NEW to \in Status, NEW u \in Users, BeginStatus(w, o, to, u)
      PROVE  Goal
  <2> DEFINE op == IF to \in {"IN_PROGRESS", "DELIVERED"} THEN "statusCheck" ELSE "status"
  <2>1. op \in Ops /\ Park(w, op, o, to, NoUser)
    BY <1>3 DEF BeginStatus, Ops
  <2>2. to \in ValidTransitions[status[o]] /\ status[o] \in Status
    BY <1>3 DEF BeginStatus, Exists, ColumnsOK
  <2>3. SnapshotOK([op |-> op, o |-> o, to |-> to, by |-> NoUser])
    BY <2>2 DEF SnapshotOK
  <2>4. QED
    BY <1>1, <2>1, <2>3
<1>4. ASSUME NEW o \in Orders, BeginApprove(w, o) PROVE Goal
  <2>1. SnapshotOK([op |-> "approve", o |-> o, to |-> "IN_PROGRESS", by |-> NoUser])
    BY <1>4 DEF BeginApprove, SnapshotOK
  <2>2. QED
    BY <1>1, <1>4, <2>1 DEF BeginApprove, Ops
<1>5. ASSUME NEW o \in Orders, NEW to \in Status, NEW u \in Users, BeginComplete(w, o, to, u)
      PROVE  Goal
  <2>1. SnapshotOK([op |-> "complete", o |-> o, to |-> CompletionTarget(u, to), by |-> NoUser])
    BY <1>5 DEF BeginComplete, CompletionTarget, SnapshotOK
  <2>2. QED
    BY <1>1, <1>5, <2>1 DEF BeginComplete, Ops
<1>6. ASSUME NEW o \in Orders, BeginDeliver(w, o) PROVE Goal
  <2>1. SnapshotOK([op |-> "deliver", o |-> o, to |-> "DELIVERED", by |-> NoUser])
    BY <1>6 DEF BeginDeliver, SnapshotOK
  <2>2. QED
    BY <1>1, <1>6, <2>1 DEF BeginDeliver, Ops
<1>7. ASSUME NEW o \in Orders,
             \/ \E to \in Status \cup {"KEEP"}, u \in Users : BeginPatch(w, o, to, u)
             \/ BeginDelete(w, o)
             \/ \E m \in Users : BeginAssign(w, o, m)
             \/ \E u \in Users : BeginProgress(w, o, u) \/ BeginDispatch(w, o, u)
      PROVE  Goal
  BY <1>2, <1>7 DEF BeginPatch, BeginDelete, BeginAssign, BeginProgress, BeginDispatch, Ops
<1>8. ASSUME NEW o \in Orders,
             \/ BeginSendQuote(w, o) \/ BeginReject(w, o) \/ BeginQuoteApprove(w, o)
             \/ BeginQuoteReject(w, o) \/ BeginConvert(w, o)
      PROVE  Goal
  BY <1>2, <1>8
  DEF BeginSendQuote, BeginReject, BeginQuoteApprove, BeginQuoteReject, BeginConvert, Ops
<1>9. QED
  BY <1>3, <1>4, <1>5, <1>6, <1>7, <1>8 DEF Begin

\* A Commit step takes a slot and leaves it idle.
LEMMA CommitTakes ==
    ASSUME NEW w \in Workers, Commit(w)
    PROVE  req[w].op \in Ops /\ req' = [req EXCEPT ![w] = Idle]
BY DEF Commit, Takes, Ops, CommitStatus, CommitPatch, CommitDelete, CommitAssign,
       CommitProgress, CommitSendQuote, CommitApprove, CommitReject, CommitQuoteApprove,
       CommitQuoteReject, CommitConvert, CommitDispatch, CommitComplete, CommitDeliver

\* A step of a worker moves its slot only, and the slot is busy on one side.
LEMMA WorkerStep ==
    ASSUME ColumnsOK, NEW w \in Workers,
           Begin(w) \/ CheckStatus(w) \/ Commit(w) \/ Fail(w)
    PROVE  /\ \A v \in Workers \ {w} : req'[v] = req[v]
           /\ req[w] # Idle \/ req'[w] # Idle
<1>1. CASE Begin(w)
  <2>1. PICK r : r.op \in Ops /\ req' = [req EXCEPT ![w] = r]
    BY <1>1, BeginParks
  <2>2. QED
    BY <2>1, IdleIsNoRequest DEF ColumnsOK
<1>2. CASE CheckStatus(w)
  <2>1. req[w].op \in Ops
    BY <1>2 DEF CheckStatus, Ops
  <2>2. QED
    BY <1>2, <2>1, IdleIsNoRequest DEF CheckStatus, ColumnsOK
<1>3. CASE Commit(w)
  BY <1>3, CommitTakes, IdleIsNoRequest DEF ColumnsOK
<1>4. CASE Fail(w)
  BY <1>4 DEF Fail, ColumnsOK
<1>5. QED
  BY <1>1, <1>2, <1>3, <1>4

\* ... so that, when it is alone, the others are idle.
LEMMA OthersIdle ==
    ASSUME ColumnsOK, Alone, Alone', NEW w \in Workers,
           Begin(w) \/ CheckStatus(w) \/ Commit(w) \/ Fail(w)
    PROVE  \A v \in Workers \ {w} : req'[v] = Idle
BY WorkerStep DEF Alone

SnapshotsOK == \A w \in Workers : SnapshotOK(req[w])

\* The one-write handlers leave true what a parked request knows.
LEMMA OneWriteKeepsSnapshots ==
    ASSUME ColumnsOK, SnapshotsOK, NEW o \in Orders, Receive(o) \/ DraftQuote(o) \/ Pay(o)
    PROVE  SnapshotsOK'
<1>1. req' = req /\ \A p \in Orders : balance[p] = "COVERED" => balance'[p] = "COVERED"
  BY DEF Receive, DraftQuote, Pay, ColumnsOK
<1>2. \A p \in Orders : status[p] \in Status => status'[p] = status[p]
  <2>1. CASE Receive(o)
    BY <2>1 DEF Receive, Exists, SetStatus, ColumnsOK, Status
  <2>2. CASE DraftQuote(o) \/ Pay(o)
    BY <2>2 DEF DraftQuote, Pay, KeepStatus
  <2>3. QED
    BY <2>1, <2>2
<1>3. ASSUME NEW w \in Workers PROVE SnapshotOK(req[w])'
  <2>1. CASE req[w] = Idle
    BY <1>1, <2>1 DEF SnapshotOK, Idle
  <2>2. CASE req[w] # Idle
    <3>1. req[w].o \in Orders /\ SnapshotOK(req[w])
      BY <2>2 DEF ColumnsOK, Request, SnapshotsOK
    <3>2. /\ status[req[w].o] \in Status => status'[req[w].o] = status[req[w].o]
          /\ balance[req[w].o] = "COVERED" => balance'[req[w].o] = "COVERED"
      BY <1>1, <1>2, <3>1
    <3>3. QED
      BY <1>1, <3>1, <3>2 DEF SnapshotOK, Status
  <2>3. QED
    BY <2>1, <2>2
<1>4. QED
  BY <1>3 DEF SnapshotsOK

LEMMA SerialStep ==
    ASSUME ColumnsOK, SnapshotsOK, Alone, Alone', [Act]_vars
    PROVE  SnapshotsOK'
<1>1. ASSUME NEW w \in Workers, \A v \in Workers \ {w} : req'[v] = Idle, SnapshotOK(req[w])'
      PROVE  SnapshotsOK'
  <2>1. ASSUME NEW v \in Workers, req'[v] = Idle PROVE SnapshotOK(req[v])'
    BY <2>1 DEF SnapshotOK, Idle
  <2>2. QED
    BY <1>1, <2>1 DEF SnapshotsOK
<1>2. ASSUME NEW w \in Workers, Begin(w) PROVE SnapshotsOK'
  <2>1. PICK r : SnapshotOK(r) /\ req' = [req EXCEPT ![w] = r] /\ UNCHANGED order
    BY <1>2, BeginParks
  <2>2. SnapshotOK(req[w])'
    BY <2>1 DEF SnapshotOK, order, ColumnsOK
  <2>3. QED
    BY <1>1, <1>2, <2>2, OthersIdle
<1>3. ASSUME NEW w \in Workers, CheckStatus(w) PROVE SnapshotsOK'
  <2>1. req[w].op = "statusCheck" /\ SnapshotOK(req[w]) /\ req[w] \in Request
    BY <1>3, SlotIsRequest DEF CheckStatus, SnapshotsOK, Ops
  <2>2. req'[w] = [req[w] EXCEPT !.op = "status"] /\ UNCHANGED order
    BY <1>3 DEF CheckStatus, ColumnsOK
  <2>3. req'[w].op = "status" /\ req'[w].o = req[w].o /\ req'[w].to = req[w].to
    BY <2>1, <2>2 DEF Request
  <2>4. SnapshotOK(req[w])'
    BY <1>3, <2>1, <2>2, <2>3 DEF SnapshotOK, order, CheckStatus
  <2>5. QED
    BY <1>1, <1>3, <2>4, OthersIdle
<1>4. ASSUME NEW w \in Workers, Commit(w) \/ Fail(w) PROVE SnapshotsOK'
  <2>1. req'[w] = Idle
    BY <1>4, CommitTakes DEF Fail, ColumnsOK
  <2>2. SnapshotOK(req[w])'
    BY <2>1 DEF SnapshotOK, Idle
  <2>3. QED
    BY <1>1, <1>4, <2>2, OthersIdle
<1>5. CASE UNCHANGED vars
  BY <1>5 DEF vars, SnapshotsOK, SnapshotOK
<1>6. QED
  BY <1>2, <1>3, <1>4, <1>5, OneWriteKeepsSnapshots DEF Act

LEMMA OverlapStep ==
    ASSUME GateInv, SerialInv, [Next]_vars
    PROVE  SerialInv'
<1>1. ColumnsOK /\ ColumnsOK'
  BY GateInvStep DEF GateInv
<1>2. ASSUME ~overlap' PROVE ~overlap /\ Alone /\ Alone' /\ SnapshotsOK /\ [Act]_vars
  <2>1. CASE Next
    BY <1>2, <2>1 DEF Next, SerialInv, SnapshotsOK
  <2>2. CASE UNCHANGED vars
    <3>1. overlap' = overlap /\ req' = req
      BY <2>2 DEF vars
    <3>2. ~overlap /\ Alone /\ SnapshotsOK
      BY <1>2, <3>1 DEF SerialInv, SnapshotsOK
    <3>3. QED
      BY <2>2, <3>1, <3>2 DEF Alone
  <2>3. QED
    BY <2>1, <2>2
<1>3. QED
  BY <1>1, <1>2, SerialStep DEF SerialInv, SnapshotsOK

\* SerialInv is an invariant: what a request saw stays true until it writes,
\* as long as no two requests have overlapped.
THEOREM SerialInvariant == Spec => []SerialInv
<1>1. Init => SerialInv
  BY GateInvInit DEF GateInv, SerialInv, Init, Alone, SnapshotOK, Idle
<1>2. GateInv /\ SerialInv /\ [Next]_vars => SerialInv'
  BY OverlapStep
<1>3. QED
  BY <1>1, <1>2, GateInvariant, PTL DEF Spec

\* A slot of a handler that is emptied while the status moves was committed.
LEMMA WriterCommits ==
    ASSUME ColumnsOK, [Next]_vars, NEW w \in Workers, NEW op \in Ops, Writes(w, op)
    PROVE  Commit(w)
<1>1. req[w].op = op /\ req[w] # Idle /\ req'[w] = Idle /\ status' # status
  BY IdleIsNoRequest DEF Writes
<1>2. Act
  BY <1>1 DEF Next, vars
<1>3. ASSUME NEW o \in Orders, Receive(o) \/ DraftQuote(o) \/ Pay(o) PROVE FALSE
  BY <1>1, <1>3 DEF Receive, DraftQuote, Pay
<1>4. PICK v \in Workers : Begin(v) \/ CheckStatus(v) \/ Commit(v) \/ Fail(v)
  BY <1>2, <1>3 DEF Act
<1>5. v = w
  BY <1>1, <1>4, WorkerStep
<1>6. ~Begin(w)
  BY <1>1, BeginParks
<1>7. ~CheckStatus(w) /\ ~Fail(w)
  BY <1>1 DEF CheckStatus, Fail, order
<1>8. QED
  BY <1>4, <1>5, <1>6, <1>7

\* updateStatus, the quote approval, completion and the delivery desk move an
\* order along the table, as long as requests have not overlapped.
THEOREM SerialMoves == Spec => MovesObeyTable
<1> DEFINE Obeys == \A w \in Workers, op \in {"status", "approve", "complete", "deliver"} :
              Writes(w, op) => status'[req[w].o] \in ValidTransitions[status[req[w].o]]
<1>1. ASSUME SerialInv, [Next]_vars, ~overlap', NEW w \in Workers,
             NEW op \in {"status", "approve", "complete", "deliver"}, Writes(w, op)
      PROVE  status'[req[w].o] \in ValidTransitions[status[req[w].o]]
  <2>1. op \in Ops /\ req[w].op = op /\ ColumnsOK /\ status' # status
    BY <1>1 DEF Ops, Writes, SerialInv
  <2>2. Commit(w)
    BY <1>1, <2>1, WriterCommits
  <2>3. ~overlap
    BY <1>1 DEF Next, vars
  <2>4. SnapshotOK(req[w])
    BY <1>1, <2>3 DEF SerialInv
  <2>5. req[w].o \in Orders
    BY <2>1, SlotIsRequest
  <2>6. /\ op = "status" => CommitStatus(w)
        /\ op = "approve" => CommitApprove(w)
        /\ op = "complete" => CommitComplete(w)
        /\ op = "deliver" => CommitDeliver(w)
    BY <2>1, <2>2
    DEF Commit, Takes, CommitStatus, CommitPatch, CommitDelete, CommitAssign,
        CommitProgress, CommitSendQuote, CommitApprove, CommitReject, CommitQuoteApprove,
        CommitQuoteReject, CommitConvert, CommitDispatch, CommitComplete, CommitDeliver
  <2>7. PICK s : SetStatus(req[w].o, s) /\ s = CASE op = "approve" -> "IN_PROGRESS"
                                                 [] op = "deliver" -> "DELIVERED"
                                                 [] OTHER -> req[w].to
    BY <1>1, <2>6 DEF CommitStatus, CommitApprove, CommitComplete, CommitDeliver
  <2>8. status'[req[w].o] = s
    BY <2>1, <2>5, <2>7 DEF SetStatus, ColumnsOK
  <2>9. QED
    BY <1>1, <2>1, <2>4, <2>7, <2>8 DEF SnapshotOK, ValidTransitions, Status
<1>2. SerialInv /\ [Next]_vars => (~overlap' => Obeys)
  BY <1>1
<1>3. QED
  BY <1>2, SerialInvariant, PTL DEF Spec, MovesObeyTable

\* validateVehicleDelivery: POST /status releases a vehicle only when it is
\* paid, as long as requests have not overlapped.
THEOREM SerialRelease == Spec => ReleasedOnlyIfPaid
<1>1. ASSUME SerialInv, [Next]_vars, ~overlap', NEW w \in Workers,
             Writes(w, "status"), req[w].to = "DELIVERED"
      PROVE  balance[req[w].o] = "COVERED"
  <2>1. ~overlap /\ req[w].op = "status"
    BY <1>1 DEF Next, vars, Writes
  <2>2. QED
    BY <1>1, <2>1 DEF SerialInv, SnapshotOK
<1>2. SerialInv /\ [Next]_vars =>
        (~overlap' => \A w \in Workers :
           Writes(w, "status") /\ req[w].to = "DELIVERED" => balance[req[w].o] = "COVERED")
  BY <1>1
<1>3. QED
  BY <1>2, SerialInvariant, PTL DEF Spec, ReleasedOnlyIfPaid

\* What an order has on record matches the gates it went through, however the
\* handlers interleave.
THEOREM RecordsInStep == Spec => []RecordsMatchGates
<1>1. WorkLeavesTrace /\ QuoteMatchesGates /\ DeskMoneyMatchesGates => RecordsMatchGates
  BY DEF RecordsMatchGates
<1>2. QED
  BY <1>1, TraceOnlyAfterWork, QuoteInStep, DeskMoneyInStep, PTL
=============================================================================
