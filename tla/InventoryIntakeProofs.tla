------------------------ MODULE InventoryIntakeProofs -------------------------
(***************************************************************************)
(* ReceiptInv holds for any number of items and of requests in flight: a   *)
(* line never shows more units received than were ordered or than came     *)
(* into stock.  SerialInv holds until two requests overlap: till then the  *)
(* stock is what its movements add up to and is never negative, and of     *)
(* what came in only an entry followed by another for its line is not      *)
(* counted.                                                                *)
(***************************************************************************)
EXTENDS Inventory, Intake, TLAPS, FiniteSetTheorems

FindOne == {"get", "IN", "OUT", "ADJUSTMENT", "touch"}

\* The kind of request a slot holds is told by its op.
LEMMA SlotKind ==
    ASSUME RowsOK, NEW w \in Workers
    PROVE  /\ req[w].op \in FindOne \cup Withdrawals => req[w] \in ItemRequest
           /\ req[w].op = "receive" => req[w] \in ReceiveRequest
           /\ req[w].op \in {"written", "recheck"} => req[w] \in WrittenRequest
           /\ req[w].op = "status" => req[w] \in StatusRequest
<1>1. req[w] \in Request \cup {Idle}
  BY DEF RowsOK
<1>2. Idle.op = "idle" /\ (req[w] \in ReceiveRequest => req[w].op = "receive")
  BY DEF Idle, ReceiveRequest
<1>3. req[w] \in ItemRequest => req[w].op \in FindOne \cup Withdrawals
  BY DEF ItemRequest, FindOne, Withdrawals
<1>4. req[w] \in WrittenRequest => req[w].op \in {"written", "recheck"}
  BY DEF WrittenRequest
<1>5. req[w] \in StatusRequest => req[w].op = "status"
  BY DEF StatusRequest
<1>6. "receive" \notin FindOne \cup Withdrawals /\ "status" \notin FindOne \cup Withdrawals
  BY DEF FindOne, Withdrawals
<1>7. "idle" \notin FindOne \cup Withdrawals /\ "written" \notin FindOne \cup Withdrawals
  BY DEF FindOne, Withdrawals
<1>8. "recheck" \notin FindOne \cup Withdrawals
  BY DEF FindOne, Withdrawals
<1>9. QED
  BY <1>1, <1>2, <1>3, <1>4, <1>5, <1>6, <1>7, <1>8 DEF Request

-----------------------------------------------------------------------------
(* Types *)

LEMMA TypeInit == Init => RowsOK
<1> SUFFICES ASSUME Init PROVE RowsOK
  OBVIOUS
<1>1. stock \in [Items -> Int] /\ ledger = stock
  <2>1. stock \in [Items -> Opening] /\ ledger = stock
    BY DEF Init, ItemsCreated, PurchaseCreated
  <2>2. Opening \subseteq Int
    BY QuantityAssumption
  <2>3. QED
    BY <2>1, <2>2
<1>2. /\ cached = {} /\ lost = {} /\ purchase \in PurchaseStatus /\ working \in BOOLEAN
      /\ copy \in [Items -> Int] /\ received \in [Items -> Nat] /\ stocked \in [Items -> Nat]
      /\ doubled \in [Items -> Nat]
  BY DEF Init, ItemsCreated, PurchaseCreated, PurchaseStatus
<1>3. req \in [Workers -> Request \cup {Idle}]
  BY DEF Init, ItemsCreated, PurchaseCreated
<1>4. QED
  BY <1>1, <1>2, <1>3 DEF RowsOK

LEMMA ParkType ==
    ASSUME RowsOK, NEW w \in Workers, NEW r \in Request, Park(w, r)
    PROVE  RowsOK'
BY DEF RowsOK, Park, store, buying

\* A request on an item starts from the cached copy or from the row.
LEMMA SeenType ==
    ASSUME RowsOK, NEW i \in Items
    PROVE  Seen(i) \in Int /\ stock[i] \in Int
BY DEF RowsOK, Seen

LEMMA ItemRequestType ==
    ASSUME NEW op \in FindOne \cup Withdrawals, NEW i \in Items, NEW q \in Nat,
           NEW s \in Int, NEW f \in BOOLEAN
    PROVE  [op |-> op, i |-> i, qty |-> q, seen |-> s, fill |-> f] \in Request
BY DEF Request, ItemRequest, FindOne, Withdrawals

LEMMA ParkSeenType ==
    ASSUME RowsOK, NEW w \in Workers, NEW op \in FindOne \cup Withdrawals,
           NEW i \in Items, NEW q \in Nat, ParkSeen(w, op, i, q)
    PROVE  RowsOK'
<1>1. [op |-> op, i |-> i, qty |-> q, seen |-> Seen(i), fill |-> i \notin cached] \in Request
  BY SeenType, ItemRequestType
<1>2. QED
  BY <1>1, ParkType DEF ParkSeen

LEMMA ParkRowType ==
    ASSUME RowsOK, NEW w \in Workers, NEW op \in FindOne \cup Withdrawals,
           NEW i \in Items, NEW q \in Nat, ParkRow(w, op, i, q)
    PROVE  RowsOK'
<1>1. [op |-> op, i |-> i, qty |-> q, seen |-> stock[i], fill |-> FALSE] \in Request
  BY SeenType, ItemRequestType
<1>2. QED
  BY <1>1, ParkType DEF ParkRow

LEMMA BeginType ==
    ASSUME RowsOK, NEW w \in Workers, Begin(w)
    PROVE  RowsOK'
<1>0. {"get", "touch", "IN", "OUT", "ADJUSTMENT"} \subseteq FindOne
  BY DEF FindOne
<1>1. {"reserve", "dispatch"} \subseteq Withdrawals
  BY DEF Withdrawals
<1>2. ASSUME NEW i \in Items, BeginGet(w, i) \/ BeginTouch(w, i)
      PROVE  RowsOK'
  BY <1>0, <1>2, ParkSeenType DEF BeginGet, BeginTouch
<1>3. ASSUME NEW i \in Items, NEW type \in {"IN", "OUT", "ADJUSTMENT"}, NEW q \in Qty,
             BeginMovement(w, i, type, q)
      PROVE  RowsOK'
  BY <1>0, <1>3, ParkSeenType, QuantityAssumption DEF BeginMovement
<1>4. ASSUME NEW i \in Items, NEW q \in Qty, BeginEdit(w, i, q)
      PROVE  RowsOK'
  BY <1>0, <1>4, ParkSeenType, QuantityAssumption DEF BeginEdit
<1>5. ASSUME NEW i \in Items, NEW q \in Qty, BeginReserve(w, i, q) \/ BeginDispatch(w, i, q)
      PROVE  RowsOK'
  BY <1>1, <1>5, ParkRowType, QuantityAssumption DEF BeginReserve, BeginDispatch
<1>6. ASSUME NEW b \in Batches, BeginReceive(w, b)
      PROVE  RowsOK'
  <2>1. [op |-> "receive", batch |-> b, base |-> received] \in Request
    BY DEF Request, ReceiveRequest, RowsOK
  <2>2. QED
    BY <1>6, <2>1, ParkType DEF BeginReceive
<1>7. ASSUME NEW to \in PurchaseStatus, BeginStatus(w, to)
      PROVE  RowsOK'
  <2>1. [op |-> "status", to |-> to] \in Request
    BY DEF Request, StatusRequest
  <2>2. QED
    BY <1>7, <2>1, ParkType DEF BeginStatus
<1>8. QED
  BY <1>2, <1>3, <1>4, <1>5, <1>6, <1>7 DEF Begin

LEMMA StoreType ==
    ASSUME RowsOK, NEW w \in Workers, NEW ops \in SUBSET (FindOne \cup Withdrawals),
           NEW s \in Int, NEW l \in Int, Store(w, ops, s, l)
    PROVE  RowsOK'
<1>1. req[w] \in ItemRequest
  BY SlotKind DEF Store
<1>2. [op |-> "written", drop |-> {req[w].i}] \in Request
  BY <1>1 DEF Request, WrittenRequest, ItemRequest
<1>3. QED
  BY <1>1, <1>2 DEF Store, RowsOK, buying

\* A request that stores has read numbers, and its item has numbers.
LEMMA StoreNumbers ==
    ASSUME RowsOK, NEW w \in Workers, req[w].op \in FindOne \cup Withdrawals
    PROVE  /\ req[w].i \in Items /\ req[w].qty \in Nat /\ req[w].seen \in Int
           /\ stock[req[w].i] \in Int /\ ledger[req[w].i] \in Int
<1>1. req[w] \in ItemRequest
  BY SlotKind
<1>2. QED
  BY <1>1 DEF ItemRequest, RowsOK

LEMMA BatchType ==
    ASSUME NEW b \in Batches, NEW i \in Items
    PROVE  /\ b[i].last \in Nat /\ b[i].max \in Nat /\ b[i].sum \in Nat
           /\ b[i].last <= b[i].max /\ b[i].max <= b[i].sum
BY BatchAssumption DEF Entries

LEMMA ContinueType ==
    ASSUME RowsOK, NEW w \in Workers, Continue(w)
    PROVE  RowsOK'
<1>1. CASE Fill(w)
  <2>1. req[w] \in ItemRequest /\ req[w].i \in Items /\ req[w].seen \in Int
    BY <1>1, SlotKind, StoreNumbers DEF Fill, FindOne
  <2>2. [req[w] EXCEPT !.fill = FALSE] \in Request
    BY <2>1 DEF Request, ItemRequest
  <2>3. QED
    BY <1>1, <2>1, <2>2 DEF Fill, RowsOK, buying
<1>2. CASE \/ CommitIn(w) \/ CommitOut(w) \/ CommitAbsolute(w) \/ CommitTouch(w)
           \/ CommitReserve(w)
  <2>0. {"IN", "OUT", "dispatch", "ADJUSTMENT", "touch", "reserve"}
           \subseteq FindOne \cup Withdrawals
    BY DEF FindOne, Withdrawals
  <2>1. req[w].op \in FindOne \cup Withdrawals
    BY <1>2, <2>0 DEF CommitIn, CommitOut, CommitAbsolute, CommitTouch, CommitReserve, Store
  <2>2. /\ req[w].seen + req[w].qty \in Int /\ ledger[req[w].i] + req[w].qty \in Int
        /\ req[w].seen - req[w].qty \in Int /\ ledger[req[w].i] - req[w].qty \in Int
        /\ stock[req[w].i] - req[w].qty \in Int /\ req[w].qty \in Int
        /\ stock[req[w].i] \in Int /\ ledger[req[w].i] \in Int
    BY <2>1, StoreNumbers
  <2>3. CASE CommitIn(w)
    BY <2>0, <2>2, <2>3, StoreType DEF CommitIn
  <2>4. CASE CommitOut(w)
    BY <2>0, <2>2, <2>4, StoreType DEF CommitOut
  <2>5. CASE CommitAbsolute(w)
    BY <2>0, <2>2, <2>5, StoreType DEF CommitAbsolute
  <2>6. CASE CommitTouch(w)
    BY <2>0, <2>2, <2>6, StoreType DEF CommitTouch
  <2>7. CASE CommitReserve(w)
    BY <2>0, <2>2, <2>7, StoreType DEF CommitReserve
  <2>8. QED
    BY <1>2, <2>3, <2>4, <2>5, <2>6, <2>7
<1>3. CASE CommitReceive(w)
  <2>1. req[w] \in ReceiveRequest
    BY <1>3, SlotKind DEF CommitReceive
  <2> PICK b \in Batches, base \in [Items -> Nat] : req[w].batch = b /\ req[w].base = base
    BY <2>1 DEF ReceiveRequest
  <2>2. /\ stock' = [i \in Items |-> stock[i] + b[i].sum]
        /\ ledger' = IF overlap THEN stock' ELSE [i \in Items |-> ledger[i] + b[i].sum]
        /\ doubled' = [i \in Items |-> doubled[i] + b[i].sum - b[i].last]
        /\ stocked' = [i \in Items |-> stocked[i] + b[i].sum]
        /\ received' = [i \in Items |-> IF i \in Touched(b) THEN base[i] + b[i].last
                                        ELSE received[i]]
        /\ req' = [req EXCEPT ![w] = [op |-> "recheck", drop |-> Touched(b)]]
        /\ UNCHANGED <<cached, copy, lost, purchase, working>>
    BY <1>3 DEF CommitReceive
  <2>3. stock' \in [Items -> Int] /\ ledger' \in [Items -> Int]
    BY <2>2, BatchType DEF RowsOK
  <2>4. stocked' \in [Items -> Nat] /\ doubled' \in [Items -> Nat]
    <3>1. ASSUME NEW i \in Items PROVE doubled[i] + b[i].sum - b[i].last \in Nat
      <4>1. /\ doubled[i] \in Nat /\ b[i].sum \in Nat /\ b[i].last \in Nat
            /\ b[i].max \in Nat /\ b[i].last <= b[i].max /\ b[i].max <= b[i].sum
        BY BatchType DEF RowsOK
      <4>2. QED
        BY <4>1
    <3>2. QED
      BY <2>2, <3>1, BatchType DEF RowsOK
  <2>5. received' \in [Items -> Nat]
    BY <2>2, BatchType DEF RowsOK
  <2>6. [op |-> "recheck", drop |-> Touched(b)] \in Request
    BY DEF Request, WrittenRequest, Touched
  <2>7. QED
    BY <2>2, <2>3, <2>4, <2>5, <2>6 DEF RowsOK
<1>4. ASSUME NEW i \in Items, Drop(w, i) PROVE RowsOK'
  <2>1. req[w] \in WrittenRequest
    BY <1>4, SlotKind DEF Drop
  <2>2. [req[w] EXCEPT !.drop = @ \ {i}] \in Request
    BY <2>1 DEF Request, WrittenRequest
  <2>3. QED
    BY <1>4, <2>2 DEF Drop, RowsOK, buying
<1>5. CASE Recheck(w)
  <2>1. /\ [op |-> "status", to |-> "RECEIVED"] \in Request
        /\ [op |-> "status", to |-> "PARTIALLY_RECEIVED"] \in Request
    BY DEF Request, StatusRequest, PurchaseStatus
  <2>2. QED
    BY <1>5, <2>1 DEF Recheck, RowsOK, store, buying
<1>6. CASE CommitStatus(w)
  <2>1. req[w] \in StatusRequest
    BY <1>6, SlotKind DEF CommitStatus
  <2>2. QED
    BY <1>6, <2>1 DEF CommitStatus, StatusRequest, RowsOK, store
<1>7. QED
  BY <1>1, <1>2, <1>3, <1>4, <1>5, <1>6 DEF Continue

LEMMA TypeStep ==
    ASSUME RowsOK, [Next]_vars
    PROVE  RowsOK'
<1>1. CASE OrderMoves
  BY <1>1 DEF RowsOK, OrderMoves, store, buying
<1>2. ASSUME NEW i \in Items, Expire(i) PROVE RowsOK'
  BY <1>2 DEF RowsOK, Expire, buying
<1>3. ASSUME NEW w \in Workers, Fail(w) PROVE RowsOK'
  <2>1. req[w].op \in {"written", "recheck"} => req[w].drop \subseteq Items
    BY SlotKind DEF WrittenRequest
  <2>2. QED
    BY <1>3, <2>1 DEF RowsOK, Fail, buying
<1>4. CASE UNCHANGED vars
  BY <1>4 DEF RowsOK, vars
<1>5. QED
  BY <1>1, <1>2, <1>3, <1>4, BeginType, ContinueType DEF Next

\* The columns, the key in Redis and the requests keep their types.
THEOREM TypeCorrect == Spec => []TypeOK
<1>1. Init => TypeOK
  BY TypeInit DEF TypeOK, Init, ItemsCreated, PurchaseCreated
<1>2. TypeOK /\ [Next]_vars => TypeOK'
  <2> SUFFICES ASSUME TypeOK, [Next]_vars PROVE overlap' \in BOOLEAN
    BY TypeStep DEF TypeOK
  <2>1. overlap \in BOOLEAN
    BY DEF TypeOK
  <2>2. QED
    BY <2>1 DEF Next, vars
<1>3. QED
  BY <1>1, <1>2, PTL DEF Spec

-----------------------------------------------------------------------------
(* ReceiptInv *)

LEMMA ReceiptInit == Init => ReceiptInv
<1> SUFFICES ASSUME Init PROVE ReceiptInv
  OBVIOUS
<1>1. RowsOK
  BY TypeInit
<1>2. ReceiptsBacked
  <2>1. ASSUME NEW i \in Items PROVE received[i] <= Ordered[i] /\ received[i] + doubled[i] <= stocked[i]
    <3>1. received[i] = 0 /\ stocked[i] = 0 /\ doubled[i] = 0
      BY DEF Init, ItemsCreated, PurchaseCreated
    <3>2. Ordered[i] \in Nat
      BY QuantityAssumption
    <3>3. QED
      BY <3>1, <3>2
  <2>2. QED
    BY <2>1 DEF ReceiptsBacked
<1>3. ASSUME NEW w \in Workers PROVE ReceiptOK(req[w])
  BY DEF Init, ItemsCreated, PurchaseCreated, ReceiptOK, Idle
<1>4. QED
  BY <1>1, <1>2, <1>3 DEF ReceiptInv

\* Counts that came into stock only grow, so a step keeps what the other slots
\* know; its own slot must be in order.
LEMMA OneSlotReceipts ==
    ASSUME ReceiptInv, RowsOK', ReceiptsBacked',
           \A i \in Items : doubled'[i] - doubled[i] <= stocked'[i] - stocked[i],
           \A v \in Workers : req'[v] = req[v] \/ ReceiptOK(req[v])'
    PROVE  ReceiptInv'
<1>0. RowsOK
  BY DEF ReceiptInv
<1>1. ASSUME NEW v \in Workers, req'[v] = req[v] PROVE ReceiptOK(req[v])'
  <2> SUFFICES ASSUME req[v].op = "receive", NEW i \in Items
               PROVE  /\ req[v].base[i] + doubled'[i] <= stocked'[i]
                      /\ req[v].batch[i].sum > 0 =>
                           req[v].base[i] + req[v].batch[i].max <= Ordered[i]
    BY <1>1 DEF ReceiptOK
  <2>1. req[v] \in ReceiveRequest
    BY <1>0, SlotKind
  <2>2. /\ req[v].base[i] \in Nat /\ stocked[i] \in Nat /\ stocked'[i] \in Nat
        /\ doubled[i] \in Nat /\ doubled'[i] \in Nat
    BY <1>0, <2>1 DEF ReceiveRequest, RowsOK
  <2>3. ReceiptOK(req[v])
    BY DEF ReceiptInv
  <2>4. QED
    BY <2>2, <2>3 DEF ReceiptOK
<1>2. QED
  BY <1>1 DEF ReceiptInv

\* A step that leaves the counts alone and puts its slot to another use.
LEMMA NotReceiving ==
    ASSUME ReceiptInv, RowsOK', NEW w \in Workers, NEW r, r.op # "receive",
           req' = [req EXCEPT ![w] = r], UNCHANGED <<received, stocked, doubled>>
    PROVE  ReceiptInv'
<1>1. RowsOK /\ ReceiptsBacked
  BY DEF ReceiptInv
<1>2. ReceiptsBacked'
  BY <1>1 DEF ReceiptsBacked
<1>3. \A i \in Items : doubled'[i] - doubled[i] <= stocked'[i] - stocked[i]
  BY <1>1 DEF RowsOK
<1>4. ASSUME NEW v \in Workers PROVE req'[v] = req[v] \/ ReceiptOK(req[v])'
  <2>1. req'[v] = req[v] \/ req'[v] = r
    BY <1>1 DEF RowsOK
  <2>2. QED
    BY <2>1 DEF ReceiptOK
<1>5. QED
  BY <1>2, <1>3, <1>4, OneSlotReceipts

LEMMA BeginKeepsReceipts ==
    ASSUME ReceiptInv, NEW w \in Workers, Begin(w)
    PROVE  ReceiptInv'
<1>0. RowsOK /\ RowsOK' /\ ReceiptsBacked
  BY BeginType DEF ReceiptInv
<1>1. ASSUME NEW r, r.op # "receive", Park(w, r) PROVE ReceiptInv'
  <2>1. req' = [req EXCEPT ![w] = r] /\ UNCHANGED <<received, stocked, doubled>>
    BY <1>1 DEF Park, buying
  <2>2. QED
    BY <1>0, <1>1, <2>1, NotReceiving
<1>2. ASSUME NEW op, NEW i, NEW q, op # "receive",
             ParkSeen(w, op, i, q) \/ ParkRow(w, op, i, q)
      PROVE  ReceiptInv'
  <2>1. CASE ParkSeen(w, op, i, q)
    BY <1>1, <1>2, <2>1 DEF ParkSeen
  <2>2. CASE ParkRow(w, op, i, q)
    BY <1>1, <1>2, <2>2 DEF ParkRow
  <2>3. QED
    BY <1>2, <2>1, <2>2
<1>3. ASSUME NEW i \in Items, BeginGet(w, i) \/ BeginTouch(w, i) PROVE ReceiptInv'
  BY <1>2, <1>3 DEF BeginGet, BeginTouch
<1>4. ASSUME NEW i \in Items, NEW type \in {"IN", "OUT", "ADJUSTMENT"}, NEW q \in Qty,
             BeginMovement(w, i, type, q)
      PROVE  ReceiptInv'
  BY <1>2, <1>4 DEF BeginMovement
<1>5. ASSUME NEW i \in Items, NEW q \in Qty,
             BeginEdit(w, i, q) \/ BeginReserve(w, i, q) \/ BeginDispatch(w, i, q)
      PROVE  ReceiptInv'
  BY <1>2, <1>5 DEF BeginEdit, BeginReserve, BeginDispatch
<1>6. ASSUME NEW to \in PurchaseStatus, BeginStatus(w, to) PROVE ReceiptInv'
  BY <1>1, <1>6 DEF BeginStatus
<1>7. ASSUME NEW b \in Batches, BeginReceive(w, b) PROVE ReceiptInv'
  <2> PICK r : r = [op |-> "receive", batch |-> b, base |-> received]
    OBVIOUS
  <2>1. /\ req' = [req EXCEPT ![w] = r] /\ UNCHANGED <<received, stocked, doubled>>
        /\ \A i \in Items : b[i].sum > 0 => received[i] + b[i].max <= Ordered[i]
    BY <1>7 DEF BeginReceive, Park, buying
  <2>2. ReceiptOK(r)'
    BY <1>0, <2>1 DEF ReceiptOK, ReceiptsBacked
  <2>3. ASSUME NEW v \in Workers PROVE req'[v] = req[v] \/ ReceiptOK(req[v])'
    <3>1. req'[v] = req[v] \/ req'[v] = r
      BY <1>0, <2>1 DEF RowsOK
    <3>2. QED
      BY <2>2, <3>1 DEF ReceiptOK
  <2>4. /\ ReceiptsBacked'
        /\ \A i \in Items : doubled'[i] - doubled[i] <= stocked'[i] - stocked[i]
    BY <1>0, <2>1 DEF ReceiptsBacked, RowsOK
  <2>5. QED
    BY <1>0, <2>3, <2>4, OneSlotReceipts
<1>8. QED
  BY <1>3, <1>4, <1>5, <1>6, <1>7 DEF Begin

LEMMA ContinueKeepsReceipts ==
    ASSUME ReceiptInv, NEW w \in Workers, Continue(w)
    PROVE  ReceiptInv'
<1>0. RowsOK /\ RowsOK' /\ ReceiptsBacked /\ ReceiptOK(req[w])
  BY ContinueType DEF ReceiptInv
<1>1. CASE Fill(w)
  <2>1. PICK r : /\ r = IF req[w].op = "get" THEN Idle ELSE [req[w] EXCEPT !.fill = FALSE]
                 /\ req' = [req EXCEPT ![w] = r]
    BY <1>1 DEF Fill
  <2>2. req[w] \in ItemRequest /\ req[w].op # "receive"
    BY <1>0, <1>1, SlotKind DEF Fill, FindOne
  <2>3. r.op # "receive"
    BY <2>1, <2>2 DEF Idle, ItemRequest
  <2>4. QED
    BY <1>0, <1>1, <2>1, <2>3, NotReceiving DEF Fill, buying
<1>2. ASSUME NEW ops, NEW s, NEW l, Store(w, ops, s, l) PROVE ReceiptInv'
  <2>1. [op |-> "written", drop |-> {req[w].i}].op # "receive"
    OBVIOUS
  <2>2. QED
    BY <1>0, <1>2, <2>1, NotReceiving DEF Store, buying
<1>3. CASE CommitReceive(w)
  <2>1. req[w] \in ReceiveRequest /\ req[w].op = "receive"
    BY <1>0, <1>3, SlotKind DEF CommitReceive
  <2> PICK b \in Batches : req[w].batch = b
    BY <2>1 DEF ReceiveRequest
  <2> PICK base \in [Items -> Nat] : req[w].base = base
    BY <2>1 DEF ReceiveRequest
  <2> PICK r : r = [op |-> "recheck", drop |-> Touched(b)]
    OBVIOUS
  <2>2. /\ stocked' = [i \in Items |-> stocked[i] + b[i].sum]
        /\ doubled' = [i \in Items |-> doubled[i] + b[i].sum - b[i].last]
        /\ received' = [i \in Items |-> IF i \in Touched(b) THEN base[i] + b[i].last
                                        ELSE received[i]]
        /\ req' = [req EXCEPT ![w] = r]
    BY <1>3 DEF CommitReceive
  <2>3. ASSUME NEW i \in Items
        PROVE  /\ received'[i] <= Ordered[i] /\ received'[i] + doubled'[i] <= stocked'[i]
               /\ doubled'[i] - doubled[i] <= stocked'[i] - stocked[i]
    <3>1. /\ stocked[i] \in Nat /\ received[i] \in Nat /\ base[i] \in Nat /\ Ordered[i] \in Nat
          /\ doubled[i] \in Nat
          /\ received[i] + doubled[i] <= stocked[i] /\ received[i] <= Ordered[i]
      BY <1>0, QuantityAssumption DEF RowsOK, ReceiptsBacked
    <3>2. base[i] + doubled[i] <= stocked[i] /\ (b[i].sum > 0 => base[i] + b[i].max <= Ordered[i])
      BY <1>0, <2>1 DEF ReceiptOK
    <3>3. /\ b[i].last \in Nat /\ b[i].max \in Nat /\ b[i].sum \in Nat
          /\ b[i].last <= b[i].max /\ b[i].max <= b[i].sum
      BY BatchType
    <3>4. /\ stocked'[i] = stocked[i] + b[i].sum
          /\ doubled'[i] = doubled[i] + b[i].sum - b[i].last
      BY <2>2
    <3>5. received'[i] = IF b[i].sum > 0 THEN base[i] + b[i].last ELSE received[i]
      BY <2>2 DEF Touched
    <3>6. QED
      BY <3>1, <3>2, <3>3, <3>4, <3>5
  <2>4. ReceiptsBacked'
    BY <2>3 DEF ReceiptsBacked
  <2>5. ASSUME NEW v \in Workers PROVE req'[v] = req[v] \/ ReceiptOK(req[v])'
    <3>1. req'[v] = req[v] \/ req'[v].op = "recheck"
      BY <1>0, <2>2 DEF RowsOK
    <3>2. QED
      BY <3>1 DEF ReceiptOK
  <2>6. QED
    BY <1>0, <2>3, <2>4, <2>5, OneSlotReceipts
<1>4. ASSUME NEW i \in Items, Drop(w, i) PROVE ReceiptInv'
  <2>1. PICK r : /\ r = IF req[w] = [op |-> "written", drop |-> {i}] THEN Idle
                       ELSE [req[w] EXCEPT !.drop = @ \ {i}]
                 /\ req' = [req EXCEPT ![w] = r]
    BY <1>4 DEF Drop
  <2>2. req[w] \in WrittenRequest
    BY <1>0, <1>4, SlotKind DEF Drop
  <2>3. r.op # "receive"
    BY <2>1, <2>2 DEF Idle, WrittenRequest
  <2>4. QED
    BY <1>0, <1>4, <2>1, <2>3, NotReceiving DEF Drop, buying
<1>5. CASE Recheck(w)
  <2>1. PICK r : /\ \/ r = [op |-> "status", to |-> "RECEIVED"]
                    \/ r = [op |-> "status", to |-> "PARTIALLY_RECEIVED"]
                    \/ r = Idle
                 /\ req' = [req EXCEPT ![w] = r]
    BY <1>5 DEF Recheck
  <2>2. r.op # "receive"
    BY <2>1 DEF Idle
  <2>3. QED
    BY <1>0, <1>5, <2>1, <2>2, NotReceiving DEF Recheck, buying
<1>6. CASE CommitStatus(w)
  <2>1. Idle.op # "receive"
    BY DEF Idle
  <2>2. QED
    BY <1>0, <1>6, <2>1, NotReceiving DEF CommitStatus
<1>7. QED
  BY <1>1, <1>2, <1>3, <1>4, <1>5, <1>6
     DEF Continue, CommitIn, CommitOut, CommitAbsolute, CommitTouch, CommitReserve

LEMMA ReceiptStep ==
    ASSUME ReceiptInv, [Next]_vars
    PROVE  ReceiptInv'
<1>0. RowsOK' /\ RowsOK
  BY TypeStep DEF ReceiptInv
<1>1. ASSUME UNCHANGED <<received, stocked, doubled, req>> PROVE ReceiptInv'
  BY <1>0, <1>1 DEF ReceiptInv, ReceiptsBacked, ReceiptOK
<1>2. CASE OrderMoves
  BY <1>1, <1>2 DEF OrderMoves, buying
<1>3. ASSUME NEW i \in Items, Expire(i) PROVE ReceiptInv'
  BY <1>1, <1>3 DEF Expire, buying
<1>4. CASE UNCHANGED vars
  BY <1>1, <1>4 DEF vars
<1>5. ASSUME NEW w \in Workers, Fail(w) PROVE ReceiptInv'
  <2>1. Idle.op # "receive"
    BY DEF Idle
  <2>2. QED
    BY <1>0, <1>5, <2>1, NotReceiving DEF Fail, buying
<1>6. QED
  BY <1>2, <1>3, <1>4, <1>5, BeginKeepsReceipts, ContinueKeepsReceipts DEF Next

THEOREM ReceiptInvariant == Spec => []ReceiptInv
<1>1. ReceiptInv /\ [Next]_vars => ReceiptInv'
  BY ReceiptStep
<1>2. QED
  BY <1>1, ReceiptInit, PTL DEF Spec

\* receiveItems (purchases.service.ts) under any interleaving: receivedQty never
\* exceeds what was ordered, nor what the reception added to the stock.
THEOREM ReceiptsAreBacked == Spec => []ReceiptsBacked
<1>1. ReceiptInv => ReceiptsBacked
  BY DEF ReceiptInv
<1>2. QED
  BY <1>1, ReceiptInvariant, PTL

-----------------------------------------------------------------------------
(* SerialInv *)

LEMMA SerialInit == Init => SerialInv
<1> SUFFICES ASSUME Init PROVE SerialInv
  OBVIOUS
<1>1. RowsOK /\ ledger = stock
  BY TypeInit DEF Init, ItemsCreated, PurchaseCreated
<1>2. ASSUME NEW i \in Items PROVE stock[i] >= 0 /\ stocked[i] = received[i] + doubled[i]
  <2>1. stock[i] \in Opening /\ stocked[i] = 0 /\ received[i] = 0 /\ doubled[i] = 0
    BY DEF Init, ItemsCreated, PurchaseCreated
  <2>2. stock[i] \in Nat
    BY <2>1, QuantityAssumption
  <2>3. QED
    BY <2>1, <2>2
<1>3. CacheOK
  BY DEF Init, ItemsCreated, PurchaseCreated, CacheOK
<1>4. ASSUME NEW w \in Workers PROVE SnapshotOK(req[w])
  BY DEF Init, ItemsCreated, PurchaseCreated, SnapshotOK, Idle, Withdrawals
<1>5. QED
  BY <1>1, <1>2, <1>3, <1>4
     DEF SerialInv, NoStockBelowZero, LedgerHolds, AllCounted

\* No request but that of w is under way.
NoneBut(w) == \A v \in Workers : v # w => req[v] = Idle

\* The parts of SerialInv about stored state.
StoreOK ==
    /\ NoStockBelowZero
    /\ LedgerHolds
    /\ AllCounted

\* While no other request is under way, a step need only leave the stored state in order
\* and its own slot idle or true of it.
LEMMA OneSlotSerial ==
    ASSUME NEW w \in Workers, NoneBut(w)', RowsOK', StoreOK', CacheOK',
           req'[w] = Idle \/ SnapshotOK(req[w])'
    PROVE  SerialInv'
<1>1. ASSUME NEW v \in Workers PROVE SnapshotOK(req[v])'
  BY DEF SnapshotOK, Idle, Withdrawals, NoneBut
<1>2. QED
  BY <1>1 DEF SerialInv, StoreOK

\* While the only request has no key to drop, every cached copy is fresh unless
\* an earlier request left it behind.
LEMMA CacheFresh ==
    ASSUME NEW w \in Workers, NoneBut(w), SerialInv,
           req[w].op \notin {"written", "recheck"}
    PROVE  \A i \in cached : copy[i] >= 0 /\ (i \in lost \/ copy[i] = stock[i])
<1>1. ASSUME NEW v \in Workers PROVE req[v].op \notin {"written", "recheck"}
  <2>1. CASE v = w
    BY <2>1
  <2>2. CASE v # w
    BY <2>2 DEF NoneBut, Idle
  <2> QED BY <2>1, <2>2
<1>2. QED
  BY <1>1 DEF SerialInv, CacheOK

\* The only key that may hold an old copy without being lost is one its request
\* has yet to drop.
LEMMA CacheOwn ==
    ASSUME NEW w \in Workers, NoneBut(w), SerialInv, NEW x \in cached
    PROVE  /\ copy[x] >= 0
           /\ \/ x \in lost
              \/ copy[x] = stock[x]
              \/ req[w].op \in {"written", "recheck"} /\ x \in req[w].drop
<1>1. \A v \in Workers : req[v].op \in {"written", "recheck"} => v = w
  BY DEF NoneBut, Idle
<1>2. QED
  BY <1>1 DEF SerialInv, CacheOK

LEMMA ParkKeepsSerial ==
    ASSUME NEW w \in Workers, NoneBut(w), NoneBut(w)', SerialInv, NEW r,
           RowsOK', Park(w, r), SnapshotOK(r)
    PROVE  SerialInv' /\ UNCHANGED purchase
<1>1. /\ UNCHANGED <<stock, ledger, cached, copy, lost, purchase, received, stocked, doubled>>
      /\ req[w] = Idle /\ req' = [req EXCEPT ![w] = r]
  BY DEF Park, store, buying
<1>2. RowsOK /\ req'[w] = r
  BY <1>1 DEF SerialInv, RowsOK
<1>3. StoreOK'
  BY <1>1 DEF SerialInv, StoreOK, NoStockBelowZero, LedgerHolds, AllCounted
<1>4. CacheOK'
  <2>1. req[w].op \notin {"written", "recheck"}
    BY <1>1 DEF Idle
  <2>2. QED
    BY <1>1, <2>1, CacheFresh DEF CacheOK
<1>5. SnapshotOK(req[w])'
  BY <1>1, <1>2 DEF SnapshotOK
<1>6. QED
  BY <1>1, <1>3, <1>4, <1>5, OneSlotSerial

\* What an idle worker is told of an item's stock.
LEMMA SeenOK ==
    ASSUME NEW w \in Workers, NoneBut(w), SerialInv, req[w] = Idle,
           NEW i \in Items
    PROVE  Seen(i) >= 0 /\ (i \notin lost => Seen(i) = stock[i])
<1>1. req[w].op \notin {"written", "recheck"}
  BY DEF Idle
<1>2. stock[i] >= 0
  BY DEF SerialInv, NoStockBelowZero
<1>3. QED
  BY <1>1, <1>2, CacheFresh DEF Seen

LEMMA BeginKeepsSerial ==
    ASSUME NEW w \in Workers, NoneBut(w), NoneBut(w)', SerialInv, Begin(w)
    PROVE  SerialInv' /\ UNCHANGED purchase
<1>0. RowsOK /\ RowsOK'
  BY BeginType DEF SerialInv
<1>1. ASSUME NEW i \in Items, NEW q, NEW op \in FindOne,
             op = "OUT" => Seen(i) >= q, ParkSeen(w, op, i, q)
      PROVE  SerialInv' /\ UNCHANGED purchase
  <2> PICK r : r = [op |-> op, i |-> i, qty |-> q, seen |-> Seen(i), fill |-> i \notin cached]
    OBVIOUS
  <2>1. Park(w, r) /\ req[w] = Idle
    BY <1>1 DEF ParkSeen, Park
  <2>2. Seen(i) >= 0 /\ (i \notin lost => Seen(i) = stock[i])
    BY <2>1, SeenOK
  <2>3. op \in Withdrawals => op = "OUT"
    BY DEF FindOne, Withdrawals
  <2>4. op \notin {"reserve", "dispatch", "receive", "recheck", "status"}
    BY DEF FindOne
  <2>5. SnapshotOK(r)
    BY <1>1, <2>2, <2>3, <2>4 DEF SnapshotOK
  <2>6. QED
    BY <1>0, <2>1, <2>5, ParkKeepsSerial
<1>2. ASSUME NEW i \in Items, BeginGet(w, i) \/ BeginTouch(w, i)
      PROVE  SerialInv' /\ UNCHANGED purchase
  BY <1>1, <1>2 DEF BeginGet, BeginTouch, FindOne
<1>3. ASSUME NEW i \in Items, NEW type \in {"IN", "OUT", "ADJUSTMENT"}, NEW q \in Qty,
             BeginMovement(w, i, type, q)
      PROVE  SerialInv' /\ UNCHANGED purchase
  BY <1>1, <1>3 DEF BeginMovement, FindOne
<1>4. ASSUME NEW i \in Items, NEW q \in Qty, BeginEdit(w, i, q)
      PROVE  SerialInv' /\ UNCHANGED purchase
  BY <1>1, <1>4 DEF BeginEdit, FindOne
<1>5. ASSUME NEW i \in Items, NEW q \in Qty, BeginReserve(w, i, q) \/ BeginDispatch(w, i, q)
      PROVE  SerialInv' /\ UNCHANGED purchase
  <2>1. PICK op \in {"reserve", "dispatch"} : ParkRow(w, op, i, q)
    BY <1>5 DEF BeginReserve, BeginDispatch
  <2> PICK r : r = [op |-> op, i |-> i, qty |-> q, seen |-> stock[i], fill |-> FALSE]
    OBVIOUS
  <2>2. stock[i] >= q
    BY <1>5 DEF BeginReserve, BeginDispatch
  <2>3. SnapshotOK(r)
    BY <2>1, <2>2 DEF SnapshotOK
  <2>4. QED
    BY <1>0, <2>1, <2>3, ParkKeepsSerial DEF ParkRow
<1>6. ASSUME NEW b \in Batches, BeginReceive(w, b)
      PROVE  SerialInv' /\ UNCHANGED purchase
  <2>1. purchase \notin Final
    BY <1>6 DEF BeginReceive, Final
  <2>2. SnapshotOK([op |-> "receive", batch |-> b, base |-> received])
    BY <2>1 DEF SnapshotOK, Withdrawals
  <2>3. QED
    BY <1>0, <1>6, <2>2, ParkKeepsSerial DEF BeginReceive
<1>7. ASSUME NEW to \in PurchaseStatus, BeginStatus(w, to)
      PROVE  SerialInv' /\ UNCHANGED purchase
  <2>1. purchase \notin Final
    BY <1>7 DEF BeginStatus, VALID_TRANSITIONS, Final
  <2>2. SnapshotOK([op |-> "status", to |-> to])
    BY <2>1 DEF SnapshotOK, Withdrawals
  <2>3. QED
    BY <1>0, <1>7, <2>2, ParkKeepsSerial DEF BeginStatus
<1>8. QED
  BY <1>2, <1>3, <1>4, <1>5, <1>6, <1>7 DEF Begin

\* A transaction that leaves a stock no less than zero, and equal to the theory
\* unless the item's key was left behind.
LEMMA StoreKeepsSerial ==
    ASSUME NEW w \in Workers, NoneBut(w), NoneBut(w)', SerialInv, RowsOK',
           ~overlap, NEW ops, NEW s \in Nat, NEW l \in Int, req[w].op \in FindOne \cup Withdrawals,
           Store(w, ops, s, l), req[w].i \notin lost => s = l
    PROVE  SerialInv' /\ UNCHANGED purchase
<1>0. RowsOK /\ StoreOK
  BY DEF SerialInv, StoreOK
<1> PICK i \in Items : i = req[w].i
  BY <1>0, StoreNumbers
<1> PICK r : r = [op |-> "written", drop |-> {i}]
  OBVIOUS
<1>1. /\ stock' = [stock EXCEPT ![i] = s] /\ ledger' = [ledger EXCEPT ![i] = l]
      /\ req' = [req EXCEPT ![w] = r]
      /\ UNCHANGED <<cached, copy, lost, purchase, received, stocked, doubled>>
  BY DEF Store, buying
<1>2. /\ stock'[i] = s /\ ledger'[i] = l /\ req'[w] = r
      /\ \A x \in Items \ {i} : stock'[x] = stock[x] /\ ledger'[x] = ledger[x]
  BY <1>0, <1>1 DEF RowsOK
<1>3. NoStockBelowZero'
  BY <1>0, <1>2 DEF StoreOK, NoStockBelowZero
<1>4. LedgerHolds'
  BY <1>0, <1>1, <1>2 DEF StoreOK, LedgerHolds
<1>5. StoreOK'
  BY <1>0, <1>1, <1>3, <1>4 DEF StoreOK, AllCounted
<1>6. CacheOK'
  <2>1. req[w].op \notin {"written", "recheck"}
    BY DEF FindOne, Withdrawals
  <2>2. req'[w].op = "written" /\ i \in req'[w].drop
    BY <1>2
  <2>3. \A x \in cached : copy[x] >= 0 /\ (x \in lost \/ copy[x] = stock[x])
    BY <2>1, CacheFresh
  <2>4. QED
    BY <1>0, <1>1, <1>2, <2>2, <2>3 DEF CacheOK, RowsOK
<1>7. SnapshotOK(req[w])'
  BY <1>2 DEF SnapshotOK, Withdrawals
<1>8. QED
  BY <1>1, <1>5, <1>6, <1>7, OneSlotSerial

\* Each of the five ways to store a stock meets the conditions above.
LEMMA MovementKeepsSerial ==
    ASSUME ~overlap, NEW w \in Workers, NoneBut(w), NoneBut(w)', SerialInv, RowsOK',
           \/ CommitIn(w) \/ CommitOut(w) \/ CommitAbsolute(w) \/ CommitTouch(w)
           \/ CommitReserve(w)
    PROVE  SerialInv' /\ UNCHANGED purchase
<1>0. RowsOK /\ SnapshotOK(req[w])
  BY DEF SerialInv
<1>1. req[w].op \in FindOne \cup Withdrawals
  BY DEF CommitIn, CommitOut, CommitAbsolute, CommitTouch, CommitReserve, Store,
         FindOne, Withdrawals
<1> PICK i \in Items, q \in Nat, seen \in Int :
      i = req[w].i /\ q = req[w].qty /\ seen = req[w].seen
  BY <1>0, <1>1, StoreNumbers
<1>2. stock[i] \in Int /\ ledger[i] \in Int /\ stock[i] >= 0
  BY <1>0 DEF SerialInv, NoStockBelowZero, RowsOK
<1>3. i \notin lost => stock[i] = ledger[i]
  BY DEF SerialInv, LedgerHolds
<1>4. CASE CommitIn(w)
  <2>1. req[w].op = "IN"
    BY <1>4 DEF CommitIn, Store
  <2>2. seen >= 0 /\ (i \notin lost => seen = stock[i])
    BY <1>0, <2>1 DEF SnapshotOK
  <2>3. /\ seen + q \in Nat /\ ledger[i] + q \in Int
        /\ i \notin lost => seen + q = ledger[i] + q
    BY <1>2, <1>3, <2>2
  <2>4. QED
    BY <1>1, <1>4, <2>3, StoreKeepsSerial DEF CommitIn
<1>5. CASE CommitOut(w)
  <2>1. req[w].op \in {"OUT", "dispatch"}
    BY <1>5 DEF CommitOut, Store
  <2>2. seen >= q /\ (i \notin lost => seen = stock[i])
    BY <1>0, <2>1 DEF SnapshotOK, Withdrawals
  <2>3. /\ seen - q \in Nat /\ ledger[i] - q \in Int
        /\ i \notin lost => seen - q = ledger[i] - q
    BY <1>2, <1>3, <2>2
  <2>4. QED
    BY <1>1, <1>5, <2>3, StoreKeepsSerial DEF CommitOut
<1>6. CASE CommitAbsolute(w)
  BY <1>1, <1>6, StoreKeepsSerial DEF CommitAbsolute
<1>7. CASE CommitTouch(w)
  <2>1. stock[i] \in Nat
    BY <1>2
  <2>2. QED
    BY <1>1, <1>2, <1>3, <1>7, <2>1, StoreKeepsSerial DEF CommitTouch
<1>8. CASE CommitReserve(w)
  <2>1. req[w].op = "reserve"
    BY <1>8 DEF CommitReserve, Store
  <2>2. seen >= q /\ seen = stock[i]
    BY <1>0, <2>1 DEF SnapshotOK, Withdrawals
  <2>3. /\ stock[i] - q \in Nat /\ ledger[i] - q \in Int
        /\ i \notin lost => stock[i] - q = ledger[i] - q
    BY <1>2, <1>3, <2>2
  <2>4. QED
    BY <1>1, <1>8, <2>3, StoreKeepsSerial DEF CommitReserve
<1>9. QED
  BY <1>4, <1>5, <1>6, <1>7, <1>8

LEMMA ReceiveKeepsSerial ==
    ASSUME ~overlap, NEW w \in Workers, NoneBut(w), NoneBut(w)', SerialInv, ReceiptInv,
           RowsOK', CommitReceive(w)
    PROVE  SerialInv' /\ UNCHANGED purchase
<1>0. RowsOK /\ SnapshotOK(req[w]) /\ ReceiptOK(req[w]) /\ StoreOK
  BY DEF SerialInv, ReceiptInv, StoreOK
<1>1. req[w] \in ReceiveRequest /\ req[w].op = "receive"
  BY <1>0, SlotKind DEF CommitReceive
<1> PICK b \in Batches : req[w].batch = b
  BY <1>1 DEF ReceiveRequest
<1> PICK r : r = [op |-> "recheck", drop |-> Touched(b)]
  OBVIOUS
<1>2. /\ req[w].base = received /\ purchase \notin Final
      /\ \A i \in Items : b[i].sum > 0 => received[i] + b[i].max <= Ordered[i]
  BY <1>0, <1>1 DEF SnapshotOK, ReceiptOK
<1>3. /\ stock' = [i \in Items |-> stock[i] + b[i].sum]
      /\ ledger' = [i \in Items |-> ledger[i] + b[i].sum]
      /\ stocked' = [i \in Items |-> stocked[i] + b[i].sum]
      /\ doubled' = [i \in Items |-> doubled[i] + b[i].sum - b[i].last]
      /\ received' = [i \in Items |-> IF i \in Touched(b) THEN received[i] + b[i].last
                                      ELSE received[i]]
      /\ req' = [req EXCEPT ![w] = r]
      /\ UNCHANGED <<cached, copy, lost, purchase>>
  BY <1>2 DEF CommitReceive
<1>4. ASSUME NEW i \in Items
      PROVE  /\ stock'[i] >= 0
             /\ stock[i] = ledger[i] => stock'[i] = ledger'[i]
             /\ stocked'[i] = received'[i] + doubled'[i]
             /\ i \notin Touched(b) => stock'[i] = stock[i]
  <2>1. /\ stock[i] \in Int /\ ledger[i] \in Int /\ stock[i] >= 0
        /\ stocked[i] \in Nat /\ received[i] \in Nat /\ doubled[i] \in Nat
        /\ stocked[i] = received[i] + doubled[i]
    BY <1>0 DEF RowsOK, StoreOK, NoStockBelowZero, AllCounted
  <2>2. /\ b[i].last \in Nat /\ b[i].max \in Nat /\ b[i].sum \in Nat
        /\ b[i].last <= b[i].max /\ b[i].max <= b[i].sum
    BY BatchType
  <2>3. i \in Touched(b) <=> b[i].sum > 0
    BY DEF Touched
  <2>4. /\ stock'[i] = stock[i] + b[i].sum /\ ledger'[i] = ledger[i] + b[i].sum
        /\ stocked'[i] = stocked[i] + b[i].sum
        /\ doubled'[i] = doubled[i] + b[i].sum - b[i].last
        /\ received'[i] = IF i \in Touched(b) THEN received[i] + b[i].last ELSE received[i]
    BY <1>3
  <2>5. b[i].sum > 0 => received[i] + b[i].max <= Ordered[i]
    BY <1>2
  <2>6. QED
    BY <2>1, <2>2, <2>3, <2>4, <2>5
<1>5. NoStockBelowZero' /\ AllCounted'
  BY <1>4 DEF NoStockBelowZero, AllCounted
<1>6. LedgerHolds'
  BY <1>0, <1>3, <1>4 DEF StoreOK, LedgerHolds
<1>8. CacheOK'
  <2>1. req[w].op \notin {"written", "recheck"}
    BY <1>1
  <2>2. \A x \in cached : copy[x] >= 0 /\ (x \in lost \/ copy[x] = stock[x])
    BY <2>1, CacheFresh
  <2>3. req'[w].op = "recheck" /\ req'[w].drop = Touched(b)
    BY <1>0, <1>3 DEF RowsOK
  <2>4. QED
    BY <1>0, <1>3, <1>4, <2>2, <2>3 DEF CacheOK, RowsOK
<1>9. SnapshotOK(req[w])'
  <2>1. req'[w].op = "recheck" /\ purchase' \notin Final
    BY <1>0, <1>2, <1>3 DEF RowsOK
  <2>2. QED
    BY <2>1 DEF SnapshotOK, Withdrawals
<1>10. QED
  BY <1>3, <1>5, <1>6, <1>8, <1>9, OneSlotSerial DEF StoreOK

\* The stored state counts only stock, ledger, lost keys and the two counts.
LEMMA StoreUntouched ==
    ASSUME SerialInv, UNCHANGED <<stock, ledger, received, stocked, doubled>>, lost \subseteq lost'
    PROVE  StoreOK'
BY DEF SerialInv, StoreOK, NoStockBelowZero, LedgerHolds, AllCounted

\* A purchase that is final stays so.
Finality == purchase \in Final => purchase' = purchase

LEMMA ContinueKeepsSerial ==
    ASSUME ~overlap, NEW w \in Workers, NoneBut(w), NoneBut(w)', SerialInv, ReceiptInv,
           Continue(w)
    PROVE  SerialInv' /\ Finality
<1>0. RowsOK /\ RowsOK' /\ SnapshotOK(req[w])
  BY ContinueType DEF SerialInv
<1>1. CASE Fill(w)
  <2>1. PICK r : /\ r = IF req[w].op = "get" THEN Idle ELSE [req[w] EXCEPT !.fill = FALSE]
                 /\ req' = [req EXCEPT ![w] = r]
    BY <1>1 DEF Fill
  <2>2. req[w] \in ItemRequest /\ req[w].op \in FindOne
    BY <1>0, <1>1, SlotKind DEF Fill, FindOne
  <2> PICK i \in Items : i = req[w].i
    BY <2>2 DEF ItemRequest
  <2>3. /\ cached' = cached \cup {i} /\ copy' = [copy EXCEPT ![i] = req[w].seen]
        /\ UNCHANGED <<stock, ledger, lost, purchase, received, stocked, doubled>>
        /\ req'[w] = r
    BY <1>0, <1>1, <2>1 DEF Fill, buying, RowsOK
  <2>4. req[w].seen >= 0 /\ (i \notin lost => req[w].seen = stock[i])
    BY <1>0, <2>2 DEF SnapshotOK, FindOne
  <2>5. CacheOK'
    <3>1. req[w].op \notin {"written", "recheck"}
      BY <2>2 DEF FindOne
    <3>2. \A x \in cached : copy[x] >= 0 /\ (x \in lost \/ copy[x] = stock[x])
      BY <3>1, CacheFresh
    <3>3. /\ copy'[i] = req[w].seen
          /\ \A x \in cached \ {i} : copy'[x] = copy[x]
      BY <1>0, <2>3 DEF RowsOK
    <3>4. \A x \in cached' : copy'[x] >= 0 /\ (x \in lost' \/ copy'[x] = stock'[x])
      BY <2>3, <2>4, <3>2, <3>3
    <3>5. QED
      BY <3>4 DEF CacheOK
  <2>6. r = Idle \/ /\ r.op = req[w].op /\ r.i = i /\ r.qty = req[w].qty
                    /\ r.seen = req[w].seen
    BY <2>1, <2>2 DEF ItemRequest
  <2>7. req'[w] = Idle \/ SnapshotOK(req[w])'
    <3>1. CASE r # Idle
      <4>1. /\ r.op = req[w].op /\ r.i = i /\ r.qty = req[w].qty
            /\ r.seen = req[w].seen
        BY <2>6, <3>1
      <4>2. r.op \notin {"reserve", "dispatch", "receive", "recheck", "status"}
        BY <2>2, <4>1 DEF FindOne
      <4>3. r.op \in Withdrawals => r.seen >= r.qty
        BY <1>0, <4>1 DEF SnapshotOK
      <4>4. QED
        BY <2>3, <2>4, <4>1, <4>2, <4>3 DEF SnapshotOK
    <3>2. QED
      BY <2>3, <3>1
  <2>8. StoreOK'
    BY <2>3, StoreUntouched
  <2>9. QED
    BY <1>0, <2>3, <2>5, <2>7, <2>8, OneSlotSerial DEF Finality
<1>2. CASE \/ CommitIn(w) \/ CommitOut(w) \/ CommitAbsolute(w) \/ CommitTouch(w)
           \/ CommitReserve(w)
  BY <1>0, <1>2, MovementKeepsSerial DEF Finality
<1>3. CASE CommitReceive(w)
  BY <1>0, <1>3, ReceiveKeepsSerial DEF Finality
<1>4. ASSUME NEW i \in Items, Drop(w, i) PROVE SerialInv' /\ Finality
  <2>1. PICK r : /\ r = IF req[w] = [op |-> "written", drop |-> {i}] THEN Idle
                       ELSE [req[w] EXCEPT !.drop = @ \ {i}]
                 /\ req' = [req EXCEPT ![w] = r]
    BY <1>4 DEF Drop
  <2>2. req[w] \in WrittenRequest
    BY <1>0, <1>4, SlotKind DEF Drop
  <2>3. /\ cached' = cached \ {i} /\ copy' = [copy EXCEPT ![i] = 0]
        /\ UNCHANGED <<stock, ledger, lost, purchase, received, stocked, doubled>>
        /\ req'[w] = r
    BY <1>0, <1>4, <2>1 DEF Drop, buying, RowsOK
  <2>4. \/ r = Idle /\ req[w].drop = {i}
        \/ r.op = req[w].op /\ r.drop = req[w].drop \ {i}
    <3>1. CASE req[w] = [op |-> "written", drop |-> {i}]
      BY <2>1, <3>1
    <3>2. CASE req[w] # [op |-> "written", drop |-> {i}]
      <4>1. r = [req[w] EXCEPT !.drop = @ \ {i}]
        BY <2>1, <3>2
      <4> QED BY <4>1, <2>2 DEF WrittenRequest
    <3> QED BY <3>1, <3>2
  <2>5. ASSUME NEW x \in cached'
        PROVE  /\ copy'[x] >= 0
               /\ \/ x \in lost'
                  \/ copy'[x] = stock'[x]
                  \/ req'[w].op \in {"written", "recheck"} /\ x \in req'[w].drop
    <3>1. x \in cached /\ x # i /\ copy'[x] = copy[x]
      BY <1>0, <2>3 DEF RowsOK
    <3>2. /\ copy[x] >= 0
          /\ \/ x \in lost
             \/ copy[x] = stock[x]
             \/ req[w].op \in {"written", "recheck"} /\ x \in req[w].drop
      BY <3>1, CacheOwn
    <3>3. QED
      BY <2>3, <2>4, <3>1, <3>2
  <2>6. CacheOK'
    BY <2>5 DEF CacheOK
  <2>7. req'[w] = Idle \/ SnapshotOK(req[w])'
    <3>1. CASE r.op = req[w].op /\ r.drop = req[w].drop \ {i}
      <4>1. r.op \in {"written", "recheck"} /\ purchase' = purchase
        BY <2>2, <2>3, <3>1 DEF WrittenRequest
      <4>2. r.op = "recheck" => purchase \notin Final
        BY <1>0, <3>1 DEF SnapshotOK
      <4>3. QED
        BY <2>3, <4>1, <4>2 DEF SnapshotOK, Withdrawals
    <3>2. QED
      BY <2>3, <2>4, <3>1
  <2>8. StoreOK'
    BY <2>3, StoreUntouched
  <2>9. QED
    BY <1>0, <2>3, <2>6, <2>7, <2>8, OneSlotSerial DEF Finality
<1>5. CASE Recheck(w)
  <2>1. PICK r : /\ \/ r = [op |-> "status", to |-> "RECEIVED"]
                    \/ r = [op |-> "status", to |-> "PARTIALLY_RECEIVED"]
                    \/ r = Idle
                 /\ req' = [req EXCEPT ![w] = r]
    BY <1>5 DEF Recheck
  <2>2. /\ UNCHANGED <<stock, ledger, cached, copy, lost, purchase, received, stocked, doubled>>
        /\ req[w].op = "recheck" /\ req[w].drop = {} /\ req'[w] = r
    BY <1>0, <1>5, <2>1 DEF Recheck, store, buying, RowsOK
  <2>3. purchase \notin Final
    BY <1>0, <2>2 DEF SnapshotOK
  <2>4. CacheOK'
    <3>1. \A x \in cached : copy[x] >= 0 /\ (x \in lost \/ copy[x] = stock[x])
      BY <2>2, CacheOwn
    <3>2. QED
      BY <2>2, <3>1 DEF CacheOK
  <2>5. req'[w] = Idle \/ SnapshotOK(req[w])'
    BY <2>1, <2>2, <2>3 DEF SnapshotOK, Withdrawals
  <2>6. StoreOK'
    BY <2>2, StoreUntouched
  <2>7. QED
    BY <1>0, <2>2, <2>4, <2>5, <2>6, OneSlotSerial DEF Finality
<1>6. CASE CommitStatus(w)
  <2>1. /\ UNCHANGED <<stock, ledger, cached, copy, lost, received, stocked, doubled>>
        /\ req[w].op = "status" /\ req'[w] = Idle
    BY <1>0, <1>6 DEF CommitStatus, store, RowsOK
  <2>2. purchase \notin Final
    BY <1>0, <2>1 DEF SnapshotOK
  <2>3. CacheOK'
    <3>1. req[w].op \notin {"written", "recheck"}
      BY <2>1
    <3>2. QED
      BY <2>1, <3>1, CacheFresh DEF CacheOK
  <2>4. StoreOK'
    BY <2>1, StoreUntouched
  <2>5. QED
    BY <1>0, <2>1, <2>2, <2>3, <2>4, OneSlotSerial DEF Finality
<1>7. QED
  BY <1>1, <1>2, <1>3, <1>4, <1>5, <1>6 DEF Continue

\* A request changes its own slot only.
LEMMA OnlyOwnSlot ==
    ASSUME RowsOK, NEW w \in Workers, Begin(w) \/ Continue(w) \/ Fail(w)
    PROVE  \A v \in Workers : v # w => req'[v] = req[v]
<1>1. ASSUME NEW r, req' = [req EXCEPT ![w] = r]
      PROVE  \A v \in Workers : v # w => req'[v] = req[v]
  BY <1>1 DEF RowsOK
<1>2. CASE Begin(w)
  BY <1>1, <1>2 DEF Begin, BeginGet, BeginTouch, BeginMovement, BeginEdit, BeginReserve,
                    BeginDispatch, BeginReceive, BeginStatus, ParkSeen, ParkRow, Park
<1>3. CASE Continue(w)
  <2>1. CASE Fill(w)
    BY <1>1, <2>1 DEF Fill
  <2>2. CASE CommitIn(w) \/ CommitOut(w) \/ CommitAbsolute(w) \/ CommitTouch(w) \/ CommitReserve(w)
    BY <1>1, <2>2 DEF CommitIn, CommitOut, CommitAbsolute, CommitTouch, CommitReserve, Store
  <2>3. CASE CommitReceive(w)
    BY <1>1, <2>3 DEF CommitReceive
  <2>4. ASSUME NEW i \in Items, Drop(w, i)
        PROVE  \A v \in Workers : v # w => req'[v] = req[v]
    BY <1>1, <2>4 DEF Drop
  <2>5. CASE Recheck(w) \/ CommitStatus(w)
    BY <1>1, <2>5 DEF Recheck, CommitStatus
  <2>6. QED
    BY <1>3, <2>1, <2>2, <2>3, <2>4, <2>5 DEF Continue
<1>4. CASE Fail(w)
  BY <1>1, <1>4 DEF Fail
<1>5. QED
  BY <1>2, <1>3, <1>4

\* A request that dies leaves its undropped keys to `lost`.
LEMMA FailKeepsSerial ==
    ASSUME ~overlap, NEW w \in Workers, NoneBut(w), NoneBut(w)', SerialInv, Fail(w)
    PROVE  SerialInv' /\ Finality
<1>0. RowsOK /\ RowsOK'
  <2>1. req[w].op \in {"written", "recheck"} => req[w].drop \subseteq Items
    BY SlotKind DEF WrittenRequest, SerialInv
  <2>2. QED
    BY <2>1 DEF RowsOK, Fail, buying, SerialInv
<1>1. /\ UNCHANGED <<stock, ledger, cached, copy, purchase, received, stocked, doubled>>
      /\ lost' = IF req[w].op \in {"written", "recheck"} THEN lost \cup req[w].drop ELSE lost
      /\ req'[w] = Idle
  BY <1>0 DEF Fail, buying, RowsOK
<1>2. CacheOK'
  <2>1. ASSUME NEW x \in cached PROVE copy[x] >= 0 /\ (x \in lost' \/ copy[x] = stock[x])
    <3>1. /\ copy[x] >= 0
          /\ \/ x \in lost
             \/ copy[x] = stock[x]
             \/ req[w].op \in {"written", "recheck"} /\ x \in req[w].drop
      BY CacheOwn
    <3>2. QED
      BY <1>1, <3>1
  <2>2. QED
    BY <1>1, <2>1 DEF CacheOK
<1>3. StoreOK'
  BY <1>1, StoreUntouched
<1>4. QED
  BY <1>0, <1>1, <1>2, <1>3, OneSlotSerial DEF Finality

\* A request that starts leaves the purchase alone.
LEMMA BeginKeepsPurchase ==
    ASSUME NEW w \in Workers, Begin(w)
    PROVE  UNCHANGED purchase
BY DEF Begin, BeginGet, BeginTouch, BeginMovement, BeginEdit, BeginReserve, BeginDispatch,
       BeginReceive, BeginStatus, ParkSeen, ParkRow, Park, buying

\* A step of the only request under way, or of the cache and the order around it.
LEMMA SerialStep ==
    ASSUME SerialInv, ReceiptInv, \A v, w \in Busy : v = w,
           [Next]_vars, ~overlap'
    PROVE  SerialInv' /\ Finality /\ \A v, w \in Busy' : v = w
<1>0. RowsOK /\ RowsOK'
  BY TypeStep DEF SerialInv
<1>1. ASSUME UNCHANGED <<stock, ledger, cached, copy, lost, purchase, received, stocked, doubled, req>>
      PROVE  SerialInv' /\ Finality /\ \A v, w \in Busy' : v = w
  BY <1>0, <1>1 DEF SerialInv, NoStockBelowZero, LedgerHolds, AllCounted, CacheOK,
                    SnapshotOK, Finality, Busy
<1>2. CASE OrderMoves
  BY <1>1, <1>2 DEF OrderMoves, store, buying
<1>3. CASE UNCHANGED vars
  BY <1>1, <1>3 DEF vars
<1>4. ASSUME NEW i \in Items, Expire(i)
      PROVE  SerialInv' /\ Finality /\ \A v, w \in Busy' : v = w
  <2>1. /\ UNCHANGED <<stock, ledger, lost, purchase, received, stocked, doubled, req>>
        /\ cached' = cached \ {i} /\ copy' = [copy EXCEPT ![i] = 0]
    BY <1>4 DEF Expire, buying
  <2>2. \A x \in cached' : x \in cached /\ copy'[x] = copy[x]
    BY <1>0, <2>1 DEF RowsOK
  <2>3. CacheOK'
    BY <2>1, <2>2 DEF SerialInv, CacheOK
  <2>4. StoreOK'
    BY <2>1, StoreUntouched
  <2>5. \A w \in Workers : SnapshotOK(req[w])'
    BY <2>1 DEF SerialInv, SnapshotOK
  <2>6. QED
    BY <1>0, <2>1, <2>3, <2>4, <2>5 DEF SerialInv, StoreOK, Finality, Busy
<1>a. ~overlap
  BY DEF Next, vars
<1>5. ASSUME NEW w \in Workers, NoneBut(w), Begin(w) \/ Continue(w) \/ Fail(w)
      PROVE  SerialInv' /\ Finality /\ \A v, u \in Busy' : v = u
  <2>1. NoneBut(w)'
    BY <1>0, <1>5, OnlyOwnSlot DEF NoneBut
  <2>2. \A v, u \in Busy' : v = u
    BY <2>1 DEF NoneBut, Busy
  <2>3. CASE Begin(w)
    BY <1>5, <2>1, <2>2, <2>3, BeginKeepsSerial DEF Finality
  <2>4. CASE Continue(w)
    BY <1>5, <1>a, <2>1, <2>2, <2>4, ContinueKeepsSerial
  <2>5. CASE Fail(w)
    BY <1>5, <1>a, <2>1, <2>2, <2>5, FailKeepsSerial
  <2>6. QED
    BY <1>5, <2>3, <2>4, <2>5
<1>6. ASSUME NEW w \in Workers, Begin(w), overlap' = (overlap \/ Busy # {})
      PROVE  NoneBut(w)
  BY <1>6 DEF NoneBut, Busy
<1>7. ASSUME NEW w \in Workers, Continue(w) \/ Fail(w)
      PROVE  NoneBut(w)
  <2>1. Continue(w) => req[w].op # "idle"
    <3>1. Fill(w) => req[w].op # "idle"
      BY DEF Fill
    <3>2. (CommitIn(w) \/ CommitOut(w) \/ CommitAbsolute(w) \/ CommitTouch(w)
           \/ CommitReserve(w)) => req[w].op # "idle"
      BY DEF CommitIn, CommitOut, CommitAbsolute, CommitTouch, CommitReserve, Store
    <3>3. CommitReceive(w) \/ CommitStatus(w) => req[w].op # "idle"
      BY DEF CommitReceive, CommitStatus
    <3>4. Recheck(w) => req[w].op # "idle"
      BY DEF Recheck
    <3>5. \A i \in Items : Drop(w, i) => req[w].op # "idle"
      BY DEF Drop
    <3>6. QED
      BY <3>1, <3>2, <3>3, <3>4, <3>5 DEF Continue
  <2>2. req[w] # Idle
    BY <1>7, <2>1 DEF Fail, Idle
  <2>3. QED
    BY <2>2 DEF NoneBut, Busy
<1>8. QED
  BY <1>2, <1>3, <1>4, <1>5, <1>6, <1>7 DEF Next

LEMMA AloneStep ==
    ASSUME AloneInv, ReceiptInv, [Next]_vars
    PROVE  AloneInv' /\ (~overlap => Finality)
<1>1. ~overlap' => ~overlap
  BY DEF Next, vars
<1>2. AloneInv'
  BY <1>1, SerialStep DEF AloneInv
<1>3. ASSUME ~overlap, overlap' PROVE Finality
  <2>1. PICK w \in Workers : Begin(w)
    BY <1>3 DEF Next, vars
  <2>2. QED
    BY <2>1, BeginKeepsPurchase DEF Finality
<1>4. ASSUME ~overlap, ~overlap' PROVE Finality
  BY <1>4, SerialStep DEF AloneInv
<1>5. QED
  BY <1>2, <1>3, <1>4

THEOREM SerialInvariant == Spec => []AloneInv
<1>1. AloneInv /\ ReceiptInv /\ [Next]_vars => AloneInv'
  BY AloneStep
<1>2. Init => AloneInv
  BY SerialInit DEF AloneInv, Busy, Init, ItemsCreated, PurchaseCreated
<1>3. QED
  BY <1>1, <1>2, ReceiptInvariant, PTL DEF Spec

\* The kardex (inventory.service.ts, dispatch-parts-to-order.use-case.ts,
\* purchases.service.ts): until two requests overlap the stock of an item is what
\* was accepted for it, unless a write left its cached copy behind.
THEOREM SerialLedger == Spec => []LedgerMatches
<1>1. AloneInv => LedgerMatches
  BY DEF AloneInv, SerialInv, LedgerMatches
<1>2. QED
  BY <1>1, SerialInvariant, PTL

\* "Stock no puede ser negativo" (inventory.dto.ts): until two requests overlap none
\* is, cached copies left behind included.
THEOREM SerialStock == Spec => []StockNonNegative
<1>1. AloneInv => StockNonNegative
  BY DEF AloneInv, SerialInv, StockNonNegative
<1>2. QED
  BY <1>1, SerialInvariant, PTL

\* receiveItems (purchases.service.ts): receptions that do not overlap count all
\* they bring in, but for the earlier entries of a line named twice.
THEOREM SerialReceipts == Spec => []StockedAsCounted
<1>1. AloneInv => StockedAsCounted
  BY DEF AloneInv, SerialInv, StockedAsCounted
<1>2. QED
  BY <1>1, SerialInvariant, PTL

\* updateStatus and receiveItems (purchases.service.ts): RECEIVED and CANCELLED are
\* final until two requests overlap.
THEOREM SerialFinality == Spec => PurchaseFinal
<1>1. AloneInv /\ ReceiptInv /\ [Next]_vars => (~overlap /\ purchase \in Final => purchase' = purchase)
  BY AloneStep DEF Finality
<1>2. QED
  BY <1>1, SerialInvariant, ReceiptInvariant, PTL DEF Spec, PurchaseFinal

\* Until two requests overlap, stock is what the kardex says and never below zero.
THEOREM SerialStockIsBooked == Spec => []StockIsBooked
<1>1. LedgerMatches /\ StockNonNegative => StockIsBooked
  BY DEF StockIsBooked
<1>2. QED
  BY <1>1, SerialLedger, SerialStock, PTL

\* receivedQty is always within the order and backed by what came in; until requests
\* overlap it misses only the earlier entries of a line named twice.
THEOREM SerialReceiptsHold == Spec => []ReceiptsHold
<1>1. ReceiptsBacked /\ StockedAsCounted => ReceiptsHold
  BY DEF ReceiptsHold
<1>2. QED
  BY <1>1, ReceiptsAreBacked, SerialReceipts, PTL

-----------------------------------------------------------------------------
(* Intake *)

\* Orders, workers and rows are finite sets, and so are their parts.
LEMMA PartsAreFinite ==
    /\ \A S \in SUBSET Photos : IsFiniteSet(S) /\ Cardinality(S) \in 0..MaxRows
    /\ \A S, T \in SUBSET Photos : S \subseteq T => Cardinality(S) <= Cardinality(T)
    /\ \A S \in SUBSET Orders : IsFiniteSet(S) /\ Cardinality(S) \in Nat
    /\ \A S \in SUBSET Workers :
         IsFiniteSet(S) /\ Cardinality(S) \in Nat /\ Cardinality(S) <= Cardinality(Workers)
    /\ \A S, T \in SUBSET Workers : S \subseteq T => Cardinality(S) <= Cardinality(T)
    /\ Cardinality(Workers) \in Nat
<1>1. IsFiniteSet(Photos) /\ Cardinality(Photos) = MaxRows
  BY FS_Interval, PhotoAssumption DEF Photos
<1>2. ASSUME NEW A, IsFiniteSet(A), NEW S \in SUBSET A
      PROVE  IsFiniteSet(S) /\ Cardinality(S) \in Nat /\ Cardinality(S) <= Cardinality(A)
  BY <1>2, FS_Subset, FS_CardinalityType
<1>3. ASSUME NEW A, IsFiniteSet(A), NEW S \in SUBSET A, NEW T \in SUBSET A, S \subseteq T
      PROVE  Cardinality(S) <= Cardinality(T)
  BY <1>2, <1>3, FS_Subset
<1> QED BY <1>1, <1>2, <1>3, PhotoAssumption, FS_CardinalityType

\* A row that is kept is a shot of one order with one image.
LEMMA ShotsAre ==
    /\ \A o, i : /\ Shot(o, i).op = "kept" /\ Shot(o, i).of = o /\ Shot(o, i).image = i
                 /\ Shot(o, i) # Unused /\ Shot(o, i) # Deleted
    /\ \A o, i, x, j : Shot(o, i) = Shot(x, j) => o = x /\ i = j
    /\ Unused # Deleted /\ Unused.op # "kept" /\ Deleted.op # "kept"
<1>1. \A o, i : Shot(o, i).op = "kept" /\ Shot(o, i).of = o /\ Shot(o, i).image = i
  BY DEF Shot
<1>2. Unused.op = "unused" /\ Deleted.op = "deleted"
  BY DEF Unused, Deleted
<1> QED BY <1>1, <1>2

\* A slot is of the kind its op says.
LEMMA IntakeSlots ==
    ASSUME IntakeTypeOK, NEW w \in Workers
    PROVE  /\ req[w].op = "checkin" => req[w].known \in BOOLEAN
           /\ req[w].op = "insert" =>
                req[w].via \in {"desk", "checkin", "founding"} /\ req[w].n \in Nat
           /\ req[w].op \in {"upload", "push", "camera"} =>
                /\ req[w].o \in Orders /\ req[w].image \in Images
                /\ req[w] \in [op : {"upload", "push", "camera"}, o : Orders, image : Images]
           /\ req[w].op = "delete" =>
                req[w].o \in Orders /\ req[w].p \in Photos /\ req[w].seen \in Sheet
           /\ req[w].op = "trim" => req[w].o \in Orders /\ req[w].left \in Sheet
BY DEF IntakeTypeOK, Requests, Idle

\* A step that opens nothing leaves plates and numbers in order.
LEMMA KeysStay ==
    ASSUME IntakeInv, UNCHANGED <<vehicle, number, founded>>,
           \A o \in Orders : status'[o] = "none" <=> status[o] = "none",
           \A v \in Workers :
               \/ req'[v] = req[v]
               \/ /\ req'[v].op = "checkin" => (req'[v].known => vehicle)
                  /\ req'[v].op = "insert" =>
                       req'[v].n \in 1..NextNumber /\ (req'[v].via # "founding" => vehicle)
    PROVE  KeysHold' /\ NumbersAreTrue' /\ Existing' = Existing /\ NextNumber' = NextNumber
<1>1. Existing' = Existing
  BY DEF Existing
<1>2. NextNumber' = NextNumber
  BY <1>1 DEF NextNumber
<1>3. KeysHold'
  BY <1>1 DEF IntakeInv, KeysHold, NewPlateOnce, NumbersGapless
<1>4. NumbersAreTrue'
  BY <1>1, <1>2 DEF IntakeInv, NumbersAreTrue
<1> QED BY <1>1, <1>2, <1>3, <1>4

\* A step that writes no row keeps the bound, when whoever is let through found room.
LEMMA RowsStay ==
    ASSUME IntakeInv, photo' = photo,
           \A o \in Orders : status'[o] = "none" => status[o] = "none",
           \A v \in Workers :
               \/ req'[v] = req[v]
               \/ req'[v].op \in {"upload", "push", "camera"} => status[req'[v].o] # "none",
           \A v \in Workers : req'[v].op \in {"upload", "push", "camera"} => req'[v].o \in Orders,
           \A o \in Orders : Shooting(o)' \subseteq Shooting(o) \/ Room(o)
    PROVE  RowsAreTrue'
<1>1. Written' = Written /\ \A o \in Orders : RowsOf(o)' = RowsOf(o)
  BY DEF Written, RowsOf
<1>2. ASSUME NEW o \in Orders
      PROVE  Cardinality(RowsOf(o)) + Cardinality(Shooting(o)')
               <= MaxPhotos + Cardinality(Workers) - 1
  <2>1. /\ Cardinality(RowsOf(o)) \in Nat /\ MaxPhotos \in Nat /\ Cardinality(Workers) \in Nat
        /\ Cardinality(Shooting(o)) \in Nat /\ Cardinality(Shooting(o)') \in Nat
        /\ Cardinality(Shooting(o)') <= Cardinality(Workers)
    BY PartsAreFinite, PhotoAssumption DEF RowsOf, Shooting
  <2>2. CASE Shooting(o)' \subseteq Shooting(o)
    <3>1. Cardinality(Shooting(o)') <= Cardinality(Shooting(o))
      BY <2>2, PartsAreFinite DEF Shooting
    <3> QED BY <2>1, <3>1 DEF IntakeInv, RowsAreTrue
  <2>3. CASE Room(o)
    BY <2>1, <2>3 DEF Room
  <2> QED BY <2>2, <2>3
<1>3. \A o \in Orders : status'[o] = "none" => RowsOf(o)' = {}
  BY <1>1 DEF IntakeInv, RowsAreTrue
<1>4. ASSUME NEW v \in Workers, req'[v].op \in {"upload", "push", "camera"}
      PROVE  status'[req'[v].o] # "none"
  BY <1>4 DEF IntakeInv, RowsAreTrue
<1>5. ({p \in Photos : photo[p] # Unused} = 1..Written)'
  BY <1>1 DEF IntakeInv, RowsAreTrue
<1> QED BY <1>1, <1>2, <1>3, <1>4, <1>5 DEF RowsAreTrue

\* One request is under way at most, and it has read what is so.
LEMMA BetweenHolds ==
    ASSUME NEW w \in Workers, \A v \in Workers : v # w => req'[v] = Idle,
           ReadIsStill(w)',
           \A o \in Orders \ torn' :
               \/ Backed(o, column[o])'
               \/ req'[w].op = "trim" /\ req'[w].o = o
    PROVE  NobodyBetween'
<1>1. Alone'
  BY DEF Alone
<1>2. ASSUME NEW v \in Workers PROVE ReadIsStill(v)'
  BY DEF ReadIsStill, Idle
<1>3. \A o \in Orders \ torn' :
        Backed(o, column[o])' \/ \E v \in Workers : req'[v].op = "trim" /\ req'[v].o = o
  OBVIOUS
<1> QED BY <1>1, <1>2, <1>3 DEF NobodyBetween

\* What holds between requests, and while one is under way alone.
LEMMA BetweenIs ==
    ASSUME IntakeInv, ~overlap
    PROVE  /\ Busy = {} => \A v \in Workers : req[v] = Idle
           /\ Busy = {} => \A o \in Orders \ torn : Backed(o, column[o])
           /\ \A w \in Workers : req[w] # Idle =>
                /\ ReadIsStill(w)
                /\ \A v \in Workers : v # w => req[v] = Idle
                /\ \A o \in Orders \ torn :
                     Backed(o, column[o]) \/ (req[w].op = "trim" /\ req[w].o = o)
<1>1. NobodyBetween
  BY DEF IntakeInv
<1>2. Busy = {} => \A v \in Workers : req[v] = Idle
  BY DEF Busy
<1>3. Idle.op # "trim"
  BY DEF Idle
<1> QED BY <1>1, <1>2, <1>3 DEF NobodyBetween, Alone

\* A request that begins has seen what is so, and is alone or overlaps.
LEMMA WaitKeeps ==
    ASSUME IntakeInv, NEW w \in Workers, NEW r \in Requests, Wait(w, r),
           overlap' = (overlap \/ Busy # {}),
           r.op = "checkin" => Active = {} /\ (r.known => vehicle),
           r.op = "insert" => r.via = "desk" /\ r.n = NextNumber /\ vehicle,
           r.op \in {"upload", "push", "camera"} => r.op # "push" /\ Room(r.o) /\ r.o \in Orders,
           r.op = "delete" => r.seen = column[r.o] /\ photo[r.p].of = r.o,
           r.op # "trim"
    PROVE  IntakeInv'
<1>1. /\ req' = [v \in Workers |-> IF v = w THEN r ELSE req[v]] /\ req[w] = Idle
      /\ UNCHANGED <<vehicle, status, number, founded, photo, column, torn>>
      /\ IntakeTypeOK
  <2>1. IntakeTypeOK /\ req \in [Workers -> Requests \cup {Idle}]
    BY DEF IntakeInv, IntakeTypeOK
  <2> QED BY <2>1 DEF Wait, opening, evidence
<1>2. overlap \in BOOLEAN /\ overlap' \in BOOLEAN
  BY <1>1 DEF IntakeTypeOK
<1>3. IntakeTypeOK'
  BY <1>1, <1>2 DEF IntakeTypeOK
<1>4. NextNumber \in 1..NextNumber
  BY PartsAreFinite DEF NextNumber, Existing
<1>5. KeysHold' /\ NumbersAreTrue'
  <2>1. \A v \in Workers :
          \/ req'[v] = req[v]
          \/ /\ req'[v].op = "checkin" => (req'[v].known => vehicle)
             /\ req'[v].op = "insert" =>
                  req'[v].n \in 1..NextNumber /\ (req'[v].via # "founding" => vehicle)
    BY <1>1, <1>4
  <2> QED BY <1>1, <2>1, KeysStay
<1>6. RowsAreTrue'
  <2>1. \A v \in Workers : req'[v].op \in {"upload", "push", "camera"} => req'[v].o \in Orders
    BY <1>1, IntakeSlots
  <2>2. \A v \in Workers :
          \/ req'[v] = req[v]
          \/ req'[v].op \in {"upload", "push", "camera"} => status[req'[v].o] # "none"
    BY <1>1 DEF Room
  <2>3. ASSUME NEW o \in Orders, ~Room(o) PROVE Shooting(o)' \subseteq Shooting(o)
    BY <1>1, <2>3 DEF Shooting
  <2> QED BY <1>1, <2>1, <2>2, <2>3, RowsStay
<1>7. ASSUME ~overlap' PROVE NobodyBetween'
  <2>1. ~overlap /\ Busy = {}
    BY <1>7
  <2>2. \A v \in Workers : v # w => req'[v] = Idle
    BY <1>1, <2>1, BetweenIs
  <2>3. \A o \in Orders \ torn' : Backed(o, column[o])'
    BY <1>1, <2>1, BetweenIs DEF Backed, RowsWith
  <2>4. ReadIsStill(w)'
    <3>1. req'[w] = r
      BY <1>1
    <3> QED BY <1>1, <3>1 DEF ReadIsStill, Active
  <2> QED BY <2>2, <2>3, <2>4, BetweenHolds
<1> QED BY <1>3, <1>5, <1>6, <1>7 DEF IntakeInv

LEMMA BeginCheckinKeeps ==
    ASSUME IntakeInv, NEW w \in Workers, BeginCheckin(w), overlap' = (overlap \/ Busy # {})
    PROVE  IntakeInv'
<1> DEFINE r == [op |-> "checkin", known |-> vehicle]
<1>1. Wait(w, r) /\ (vehicle => Active = {})
  BY DEF BeginCheckin
<1>2. r \in Requests /\ r.op = "checkin" /\ r.known = vehicle
  BY DEF Requests, IntakeInv, IntakeTypeOK
<1>3. Active = {}
  BY <1>1 DEF IntakeInv, NumbersAreTrue, Active, Existing
<1> HIDE DEF r
<1> QED BY <1>1, <1>2, <1>3, WaitKeeps

LEMMA CountForDeskKeeps ==
    ASSUME IntakeInv, NEW w \in Workers, CountForDesk(w), overlap' = (overlap \/ Busy # {})
    PROVE  IntakeInv'
<1> DEFINE r == [op |-> "insert", n |-> NextNumber, via |-> "desk"]
<1>1. Wait(w, r) /\ vehicle
  BY DEF CountForDesk
<1>2. NextNumber \in Nat
  BY PartsAreFinite DEF NextNumber, Existing
<1>3. r \in Requests /\ r.op = "insert" /\ r.via = "desk" /\ r.n = NextNumber
  BY <1>2 DEF Requests
<1> HIDE DEF r
<1> QED BY <1>1, <1>3, WaitKeeps

LEMMA BeginPhotoKeeps ==
    ASSUME IntakeInv, NEW w \in Workers, NEW op \in {"upload", "camera"}, NEW o \in Orders,
           NEW i \in Images, BeginPhoto(w, op, o, i), overlap' = (overlap \/ Busy # {})
    PROVE  IntakeInv'
<1> DEFINE r == [op |-> op, o |-> o, image |-> i]
<1>1. Wait(w, r) /\ Room(o)
  BY DEF BeginPhoto
<1>2. r \in Requests /\ r.op = op /\ r.o = o
  BY DEF Requests
<1> HIDE DEF r
<1> QED BY <1>1, <1>2, WaitKeeps

LEMMA BeginDeleteKeeps ==
    ASSUME IntakeInv, NEW w \in Workers, NEW p \in Photos, BeginDelete(w, p),
           overlap' = (overlap \/ Busy # {})
    PROVE  IntakeInv'
<1> DEFINE r == [op |-> "delete", o |-> photo[p].of, p |-> p, seen |-> column[photo[p].of]]
<1>1. Wait(w, r) /\ photo[p].op = "kept"
  BY DEF BeginDelete
<1>2. photo[p].of \in Orders
  BY <1>1, ShotsAre DEF IntakeInv, IntakeTypeOK
<1>3. column[photo[p].of] \in Sheet
  BY <1>2 DEF IntakeInv, IntakeTypeOK
<1>4. r \in Requests
  BY <1>2, <1>3 DEF Requests
<1>5. r.op = "delete" /\ r.o = photo[p].of /\ r.p = p /\ r.seen = column[photo[p].of]
  OBVIOUS
<1> HIDE DEF r
<1> QED BY <1>1, <1>4, <1>5, WaitKeeps

\* The routes that move an order keep its number and its rows.
LEMMA MoveKeeps ==
    ASSUME IntakeInv, NEW o \in Orders, Move(o), overlap' = (overlap \/ Busy # {})
    PROVE  IntakeInv'
<1>1. /\ status[o] # "none"
      /\ status' = [status EXCEPT ![o] = IF @ = "active" THEN "closed" ELSE "active"]
      /\ UNCHANGED <<vehicle, number, founded, photo, column, torn, req>> /\ IntakeTypeOK
  BY DEF Move, evidence, IntakeInv
<1>2. overlap \in BOOLEAN /\ overlap' \in BOOLEAN
  BY <1>1 DEF IntakeTypeOK
<1>3. IntakeTypeOK'
  BY <1>1, <1>2 DEF IntakeTypeOK
<1>4. \A x \in Orders : status'[x] = "none" <=> status[x] = "none"
  BY <1>1 DEF IntakeTypeOK
<1>5. KeysHold' /\ NumbersAreTrue'
  BY <1>1, <1>4, KeysStay
<1>6. RowsAreTrue'
  <2>1. \A x \in Orders : Shooting(x)' = Shooting(x)
    BY <1>1 DEF Shooting
  <2> QED BY <1>1, <1>4, <2>1, IntakeSlots, RowsStay
<1>7. ASSUME ~overlap' PROVE NobodyBetween'
  <2>1. \A v \in Workers : req[v] = Idle
    BY <1>7, BetweenIs
  <2>2. \A x \in Orders \ torn : Backed(x, column[x])
    BY <1>7, BetweenIs
  <2> QED BY <1>1, <2>1, <2>2 DEF NobodyBetween, Alone, ReadIsStill, Idle, Backed, RowsWith
<1> QED BY <1>3, <1>5, <1>6, <1>7 DEF IntakeInv

LEMMA CountForCheckinKeeps ==
    ASSUME IntakeInv, NEW w \in Workers, CountForCheckin(w), overlap' = overlap
    PROVE  IntakeInv'
<1> DEFINE r == [op |-> "insert", n |-> NextNumber,
                 via |-> IF req[w].known THEN "checkin" ELSE "founding"]
<1>1. /\ req[w].op = "checkin" /\ req' = [v \in Workers |-> IF v = w THEN r ELSE req[v]]
      /\ UNCHANGED <<vehicle, status, number, founded, photo, column, torn>> /\ IntakeTypeOK
  <2>1. IntakeTypeOK /\ req \in [Workers -> Requests \cup {Idle}]
    BY DEF IntakeInv, IntakeTypeOK
  <2> QED BY <2>1 DEF CountForCheckin, opening, evidence
<1>2. NextNumber \in Nat /\ NextNumber \in 1..NextNumber
  BY PartsAreFinite DEF NextNumber, Existing
<1>3. r \in Requests /\ r.op = "insert" /\ r.n = NextNumber
      /\ (r.via # "founding" => req[w].known)
  BY <1>2 DEF Requests
<1> HIDE DEF r
<1>4. IntakeTypeOK'
  BY <1>1, <1>3 DEF IntakeTypeOK
<1>5. KeysHold' /\ NumbersAreTrue'
  <2>1. req[w].known => vehicle
    BY <1>1 DEF IntakeInv, NumbersAreTrue
  <2>2. \A v \in Workers :
          \/ req'[v] = req[v]
          \/ /\ req'[v].op = "checkin" => (req'[v].known => vehicle)
             /\ req'[v].op = "insert" =>
                  req'[v].n \in 1..NextNumber /\ (req'[v].via # "founding" => vehicle)
    BY <1>1, <1>2, <1>3, <2>1
  <2> QED BY <1>1, <2>2, KeysStay
<1>6. RowsAreTrue'
  <2>1. \A x \in Orders : Shooting(x)' \subseteq Shooting(x)
    BY <1>1, <1>3 DEF Shooting
  <2>2. \A v \in Workers : req'[v].op \in {"upload", "push", "camera"} => req'[v] = req[v]
    BY <1>1, <1>3
  <2> QED BY <1>1, <2>1, <2>2, IntakeSlots, RowsStay
<1>7. ASSUME ~overlap' PROVE NobodyBetween'
  <2>1. req[w] # Idle
    BY <1>1 DEF Idle
  <2>2. /\ ReadIsStill(w) /\ \A v \in Workers : v # w => req'[v] = Idle
        /\ \A o \in Orders \ torn : Backed(o, column[o])
    BY <1>1, <1>7, <2>1, BetweenIs
  <2>3. ReadIsStill(w)'
    BY <1>1, <1>3, <2>2 DEF ReadIsStill, Active
  <2>4. \A o \in Orders \ torn' : Backed(o, column[o])'
    BY <1>1, <2>2 DEF Backed, RowsWith
  <2> QED BY <2>2, <2>3, <2>4, BetweenHolds
<1> QED BY <1>4, <1>5, <1>6, <1>7 DEF IntakeInv

\* The order is opened with the next number, or the key refuses it.
LEMMA OpenKeepsKeys ==
    ASSUME IntakeInv, NEW w \in Workers, NEW o \in Orders, Open(w, o), vehicle',
           founded' = founded \/ (~vehicle /\ founded' = founded + 1)
    PROVE  /\ KeysHold' /\ NumbersAreTrue'
           /\ vehicle' \in BOOLEAN /\ status' \in [Orders -> {"none", "active", "closed"}]
           /\ number' \in [Orders -> Nat] /\ founded' \in 0..Cardinality(Orders)
           /\ \A x \in Orders : status'[x] = "none" => status[x] = "none"
<1> DEFINE n == req[w].n
           N == Cardinality(Existing)
<1>1. /\ req[w].op = "insert" /\ status[o] = "none" /\ \A x \in Orders : number[x] # n
      /\ status' = [status EXCEPT ![o] = "active"] /\ number' = [number EXCEPT ![o] = n]
      /\ req' = [req EXCEPT ![w] = Idle]
      /\ status \in [Orders -> {"none", "active", "closed"}] /\ number \in [Orders -> Nat]
  BY DEF Open, Takes, IntakeInv, IntakeTypeOK
<1>2. req \in [Workers -> Requests \cup {Idle}] /\ founded \in 0..Cardinality(Orders)
      /\ IntakeTypeOK
  BY DEF IntakeInv, IntakeTypeOK
<1>3. n \in 1..(N + 1) /\ N \in Nat
  BY <1>1, PartsAreFinite DEF IntakeInv, NumbersAreTrue, NextNumber, Existing
<1>4. /\ \A x \in Existing : x \in Orders /\ x # o /\ number'[x] = number[x] /\ number[x] # n
      /\ number'[o] = n
  BY <1>1, <1>2 DEF Existing
<1>5. {number[x] : x \in Existing} = 1..N
  BY DEF IntakeInv, KeysHold, NumbersGapless
<1>6. n = N + 1
  BY <1>3, <1>4, <1>5
<1>7. Existing' = Existing \cup {o} /\ o \notin Existing
  BY <1>1 DEF Existing
<1>8. Cardinality(Existing') = N + 1
  BY <1>7, PartsAreFinite, FS_AddElement DEF Existing
<1>9. NumbersGapless'
  <2>1. {number'[x] : x \in Existing'} = 1..(N + 1)
    <3> HIDE DEF n, N
    <3> QED BY <1>3, <1>4, <1>5, <1>6, <1>7
  <2> QED BY <1>8, <2>1 DEF NumbersGapless
<1>10. founded' \in 0..Cardinality(Orders) /\ founded' <= 1
  <2>1. Cardinality(Orders) \in Nat /\ Cardinality(Orders) # 0
    BY PartsAreFinite, PhotoAssumption, FS_EmptySet
  <2>2. founded <= 1 /\ founded \in Nat /\ (~vehicle => founded = 0)
    <3>1. founded \in Nat
      BY <1>2, <2>1
    <3> QED BY <3>1 DEF IntakeInv, KeysHold, NewPlateOnce, NumbersAreTrue
  <2> QED BY <1>2, <2>1, <2>2
<1>11. KeysHold'
  BY <1>9, <1>10 DEF KeysHold, NewPlateOnce
<1>12. NextNumber' = N + 2 /\ NextNumber = N + 1
  BY <1>3, <1>8 DEF NextNumber
<1>13. NumbersAreTrue'
  <2>1. ASSUME NEW v \in Workers
        PROVE  /\ req'[v].op = "checkin" => (req'[v].known => vehicle')
               /\ req'[v].op = "insert" =>
                    /\ req'[v].n \in 1..NextNumber'
                    /\ req'[v].via # "founding" => vehicle'
    <3>1. CASE v = w
      BY <1>1, <1>2, <3>1 DEF Idle
    <3>2. CASE v # w
      <4>1. req'[v] = req[v]
        BY <1>1, <1>2, <3>2
      <4>2. req[v].op = "insert" => req[v].n \in 1..(N + 1)
        BY <1>12 DEF IntakeInv, NumbersAreTrue
      <4> QED BY <1>3, <1>12, <4>1, <4>2
    <3> QED BY <3>1, <3>2
  <2> QED BY <2>1 DEF NumbersAreTrue
<1>14. status' \in [Orders -> {"none", "active", "closed"}] /\ number' \in [Orders -> Nat]
  BY <1>1, <1>3
<1> QED BY <1>1, <1>10, <1>11, <1>13, <1>14

LEMMA OpenAtDeskKeeps ==
    ASSUME IntakeInv, NEW w \in Workers, NEW o \in Orders, OpenAtDesk(w, o), overlap' = overlap
    PROVE  IntakeInv'
<1>1. /\ req[w].op = "insert" /\ req[w].via = "desk" /\ Open(w, o)
      /\ UNCHANGED <<vehicle, founded, photo, column, torn>>
  BY DEF OpenAtDesk, evidence
<1>2. vehicle
  BY <1>1 DEF IntakeInv, NumbersAreTrue
<1>3. /\ KeysHold' /\ NumbersAreTrue'
      /\ vehicle' \in BOOLEAN /\ status' \in [Orders -> {"none", "active", "closed"}]
      /\ number' \in [Orders -> Nat] /\ founded' \in 0..Cardinality(Orders)
      /\ \A x \in Orders : status'[x] = "none" => status[x] = "none"
  BY <1>1, <1>2, OpenKeepsKeys
<1>4. req \in [Workers -> Requests \cup {Idle}] /\ IntakeTypeOK
  BY DEF IntakeInv, IntakeTypeOK
<1>5. req' = [v \in Workers |-> IF v = w THEN Idle ELSE req[v]]
  BY <1>1, <1>4 DEF Open, Takes
<1>6. IntakeTypeOK'
  BY <1>1, <1>3, <1>4, <1>5 DEF IntakeTypeOK
<1>7. RowsAreTrue'
  <2>1. \A x \in Orders : Shooting(x)' \subseteq Shooting(x)
    BY <1>5 DEF Shooting, Idle
  <2>2. \A v \in Workers : req'[v].op \in {"upload", "push", "camera"} => req'[v] = req[v]
    BY <1>5 DEF Idle
  <2> QED BY <1>1, <1>3, <1>4, <2>1, <2>2, IntakeSlots, RowsStay
<1>8. ASSUME ~overlap' PROVE NobodyBetween'
  <2>1. req[w] # Idle
    BY <1>1 DEF Idle
  <2>2. /\ \A v \in Workers : v # w => req'[v] = Idle
        /\ \A x \in Orders \ torn : Backed(x, column[x])
    BY <1>1, <1>5, <1>8, <2>1, BetweenIs
  <2>3. ReadIsStill(w)'
    BY <1>5 DEF ReadIsStill, Idle
  <2>4. \A x \in Orders \ torn' : Backed(x, column[x])'
    BY <1>1, <2>2 DEF Backed, RowsWith
  <2> QED BY <2>2, <2>3, <2>4, BetweenHolds
<1> QED BY <1>3, <1>6, <1>7, <1>8 DEF IntakeInv

\* The rows that are there, and the next one.
LEMMA RowsInOrder ==
    ASSUME IntakeInv
    PROVE  /\ Written \in 0..MaxRows /\ MaxRows \in Nat
           /\ \A p \in Photos : p \in Nat /\ (photo[p] = Unused <=> p > Written)
           /\ \A p \in Photos : p > Written => /\ \A x : p \notin RowsOf(x)
                                               /\ \A x, j : p \notin RowsWith(x, j)
           /\ \A x \in Orders : RowsOf(x) \in SUBSET Photos
           /\ \A x \in Orders, j \in Images : RowsWith(x, j) \in SUBSET Photos
<1>1. Written \in 0..MaxRows /\ MaxRows \in Nat
  BY PartsAreFinite, PhotoAssumption DEF Written
<1>2. \A p \in Photos : p \in Nat /\ (photo[p] = Unused <=> p > Written)
  <2>1. {p \in Photos : photo[p] # Unused} = 1..Written
    BY DEF IntakeInv, RowsAreTrue
  <2>2. \A p \in Photos : p \in 1..MaxRows
    BY DEF Photos
  <2> QED BY <1>1, <2>1, <2>2
<1> QED BY <1>1, <1>2, ShotsAre DEF RowsOf, RowsWith

\* One more row.
LEMMA StoredIs ==
    ASSUME IntakeInv, NEW w \in Workers, req[w].op \in {"upload", "camera"}, Stored(w)
    PROVE  /\ photo' \in [Photos -> {Unused, Deleted} \cup {Shot(x, j) : x \in Orders, j \in Images}]
           /\ {p \in Photos : photo'[p] # Unused} = 1..Written'
           /\ \A x \in Orders :
                /\ x # req[w].o => RowsOf(x)' = RowsOf(x)
                /\ Cardinality(RowsOf(x)') <= Cardinality(RowsOf(x)) + 1
           /\ \A x \in Orders, j \in Images :
                Cardinality(RowsWith(x, j)') = Cardinality(RowsWith(x, j))
                    + (IF x = req[w].o /\ j = req[w].image THEN 1 ELSE 0)
<1> DEFINE N == Written
           s == Shot(req[w].o, req[w].image)
<1>1. /\ N < MaxRows /\ N \in Nat /\ MaxRows \in Nat
      /\ photo' = [photo EXCEPT ![N + 1] = s]
      /\ req[w].o \in Orders /\ req[w].image \in Images /\ IntakeTypeOK
  BY RowsInOrder, IntakeSlots DEF Stored, IntakeInv
<1>2. N + 1 \in Photos
  BY <1>1 DEF Photos
<1>3. photo \in [Photos -> {Unused, Deleted} \cup {Shot(x, j) : x \in Orders, j \in Images}]
  BY <1>1 DEF IntakeTypeOK
<1>4. photo' = [p \in Photos |-> IF p = N + 1 THEN s ELSE photo[p]]
  <2>1. photo = [p \in Photos |-> photo[p]]
    <3> DEFINE T == {Unused, Deleted} \cup {Shot(x, j) : x \in Orders, j \in Images}
    <3>1. photo \in [Photos -> T]
      BY <1>3
    <3> HIDE DEF T
    <3> QED BY <3>1
  <2>2. photo' = [photo EXCEPT ![N + 1] = s]
    BY <1>1
  <2> HIDE DEF N, s
  <2> QED BY <2>1, <2>2
<1>5. photo' \in [Photos -> {Unused, Deleted} \cup {Shot(x, j) : x \in Orders, j \in Images}]
  <2>1. s \in {Shot(x, j) : x \in Orders, j \in Images}
    BY <1>1
  <2> HIDE DEF N, s
  <2> QED BY <1>3, <1>4, <2>1
<1>6. {p \in Photos : photo'[p] # Unused} = 1..(N + 1)
  <2>1. {p \in Photos : photo[p] # Unused} = 1..N
    BY DEF IntakeInv, RowsAreTrue
  <2>2. {p \in Photos : photo'[p] # Unused} = (1..N) \cup {N + 1}
    BY <1>2, <1>4, <2>1, ShotsAre
  <2> HIDE DEF N
  <2> QED BY <1>1, <2>2
<1>7. Written' = N + 1
  <2>1. Cardinality(1..(N + 1)) = N + 1
    BY <1>1, FS_Interval
  <2> QED BY <1>6, <2>1 DEF Written
<1>8. ASSUME NEW x \in Orders
      PROVE  /\ x # req[w].o => RowsOf(x)' = RowsOf(x)
             /\ RowsOf(x)' \subseteq RowsOf(x) \cup {N + 1}
  <2>1. N + 1 \notin RowsOf(x)
    BY <1>1, <1>2, RowsInOrder
  <2> HIDE DEF N
  <2> QED BY <1>2, <1>4, <2>1, ShotsAre DEF RowsOf
<1>9. ASSUME NEW x \in Orders
      PROVE  Cardinality(RowsOf(x)') <= Cardinality(RowsOf(x)) + 1
  <2>1. IsFiniteSet(RowsOf(x)) /\ Cardinality(RowsOf(x)) \in Nat
    BY RowsInOrder, PartsAreFinite
  <2>2. /\ IsFiniteSet(RowsOf(x) \cup {N + 1})
        /\ Cardinality(RowsOf(x) \cup {N + 1}) <= Cardinality(RowsOf(x)) + 1
    <3>1. Cardinality(RowsOf(x) \cup {N + 1}) \in {Cardinality(RowsOf(x)), Cardinality(RowsOf(x)) + 1}
      BY <2>1, FS_AddElement
    <3> QED BY <2>1, <3>1, FS_AddElement
  <2>3. /\ Cardinality(RowsOf(x)') <= Cardinality(RowsOf(x) \cup {N + 1})
        /\ Cardinality(RowsOf(x) \cup {N + 1}) \in Nat /\ Cardinality(RowsOf(x)') \in Nat
    <3>1. RowsOf(x)' \in SUBSET (RowsOf(x) \cup {N + 1})
      BY <1>8
    <3> QED BY <2>2, <3>1, FS_Subset, FS_CardinalityType
  <2> QED BY <2>1, <2>2, <2>3
<1>10. ASSUME NEW x \in Orders, NEW j \in Images
       PROVE  Cardinality(RowsWith(x, j)') = Cardinality(RowsWith(x, j))
                  + (IF x = req[w].o /\ j = req[w].image THEN 1 ELSE 0)
  <2>1. /\ N + 1 \notin RowsWith(x, j) /\ IsFiniteSet(RowsWith(x, j))
        /\ Cardinality(RowsWith(x, j)) \in Nat
    BY <1>1, <1>2, RowsInOrder, PartsAreFinite
  <2> HIDE DEF N
  <2>2. CASE x = req[w].o /\ j = req[w].image
    <3>1. RowsWith(x, j)' = RowsWith(x, j) \cup {N + 1}
      BY <1>2, <1>4, <2>2 DEF RowsWith
    <3>2. Cardinality(RowsWith(x, j) \cup {N + 1}) = Cardinality(RowsWith(x, j)) + 1
      BY <2>1, FS_AddElement
    <3> QED BY <2>2, <3>1, <3>2
  <2>3. CASE ~(x = req[w].o /\ j = req[w].image)
    <3>1. RowsWith(x, j)' = RowsWith(x, j)
      BY <1>2, <1>4, <2>1, <2>3, ShotsAre DEF RowsWith
    <3> QED BY <2>1, <2>3, <3>1
  <2> QED BY <2>2, <2>3
<1> QED BY <1>5, <1>6, <1>7, <1>8, <1>9, <1>10

\* The photo that was let through is a row now.
LEMMA StoredKeepsRows ==
    ASSUME IntakeInv, NEW w \in Workers, req[w].op \in {"upload", "camera"}, Stored(w),
           UNCHANGED status, \A v \in Workers : v # w => req'[v] = req[v],
           req'[w].op \notin {"upload", "camera"}, req'[w].op = "push" => req'[w].o = req[w].o
    PROVE  RowsAreTrue'
<1>1. req[w].o \in Orders /\ IntakeTypeOK
  BY IntakeSlots DEF IntakeInv
<1>2. \A v \in Workers : req'[v].op \in {"upload", "push", "camera"} => status'[req'[v].o] # "none"
  BY DEF IntakeInv, RowsAreTrue
<1>3. ASSUME NEW x \in Orders
      PROVE  /\ status'[x] = "none" => RowsOf(x)' = {}
             /\ Cardinality(RowsOf(x)') + Cardinality(Shooting(x)')
                  <= MaxPhotos + Cardinality(Workers) - 1
  <2>1. /\ status[x] = "none" => RowsOf(x) = {}
        /\ Cardinality(RowsOf(x)) + Cardinality(Shooting(x))
             <= MaxPhotos + Cardinality(Workers) - 1
    BY DEF IntakeInv, RowsAreTrue
  <2>2. /\ Cardinality(RowsOf(x)) \in Nat /\ MaxPhotos \in Nat /\ Cardinality(Workers) \in Nat
        /\ Cardinality(RowsOf(x)') \in Nat /\ Cardinality(Shooting(x)') \in Nat
        /\ Cardinality(Shooting(x)) \in Nat
    BY PartsAreFinite, PhotoAssumption DEF RowsOf, Shooting
  <2>3. CASE x = req[w].o
    <3>1. Shooting(x)' = Shooting(x) \ {w} /\ w \in Shooting(x)
      BY <2>3 DEF Shooting
    <3>2. Cardinality(Shooting(x)') = Cardinality(Shooting(x)) - 1
      <4>1. IsFiniteSet(Shooting(x))
        BY PartsAreFinite DEF Shooting
      <4> QED BY <3>1, <4>1, FS_RemoveElement
    <3>3. Cardinality(RowsOf(x)') <= Cardinality(RowsOf(x)) + 1
      BY StoredIs
    <3>4. status[x] # "none"
      BY <2>3 DEF IntakeInv, RowsAreTrue
    <3> QED BY <2>1, <2>2, <3>2, <3>3, <3>4
  <2>4. CASE x # req[w].o
    <3>1. Shooting(x)' = Shooting(x)
      BY <2>4 DEF Shooting
    <3>2. RowsOf(x)' = RowsOf(x)
      BY <2>4, StoredIs
    <3> QED BY <2>1, <3>1, <3>2
  <2> QED BY <2>3, <2>4
<1>4. ({p \in Photos : photo[p] # Unused} = 1..Written)'
  BY StoredIs
<1> QED BY <1>2, <1>3, <1>4 DEF RowsAreTrue

\* What a request that goes on changes in its slot.
LEMMA SlotIs ==
    ASSUME IntakeInv, NEW w \in Workers, NEW r, req' = [req EXCEPT ![w] = r]
    PROVE  /\ req' = [v \in Workers |-> IF v = w THEN r ELSE req[v]]
           /\ r \in Requests \cup {Idle} => req' \in [Workers -> Requests \cup {Idle}]
<1>1. req \in [Workers -> Requests \cup {Idle}]
  BY DEF IntakeInv, IntakeTypeOK
<1> QED BY <1>1

LEMMA UploadRowKeeps ==
    ASSUME IntakeInv, NEW w \in Workers, UploadRow(w), overlap' = overlap
    PROVE  IntakeInv'
<1> DEFINE r == [req[w] EXCEPT !.op = "push"]
<1>1. /\ req[w].op = "upload" /\ Stored(w) /\ req' = [req EXCEPT ![w] = r]
      /\ UNCHANGED <<vehicle, status, number, founded, column, torn>> /\ IntakeTypeOK
  BY DEF UploadRow, opening, IntakeInv
<1>2. /\ req[w] \in [op : {"upload", "push", "camera"}, o : Orders, image : Images]
      /\ req[w].o \in Orders /\ req[w].image \in Images
  BY <1>1, IntakeSlots
<1>3. r \in Requests /\ r.op = "push" /\ r.o = req[w].o /\ r.image = req[w].image
  BY <1>2 DEF Requests
<1> HIDE DEF r
<1>4. /\ req' = [v \in Workers |-> IF v = w THEN r ELSE req[v]]
      /\ req' \in [Workers -> Requests \cup {Idle}]
  BY <1>1, <1>3, SlotIs
<1>5. IntakeTypeOK'
  BY <1>1, <1>4, StoredIs DEF IntakeTypeOK
<1>6. KeysHold' /\ NumbersAreTrue'
  <2>1. \A v \in Workers : v = w \/ req'[v] = req[v]
    BY <1>4
  <2>2. req'[w].op # "checkin" /\ req'[w].op # "insert"
    BY <1>3, <1>4
  <2> QED BY <1>1, <2>1, <2>2, KeysStay
<1>7. RowsAreTrue'
  BY <1>1, <1>3, <1>4, StoredKeepsRows
<1>8. ASSUME ~overlap' PROVE NobodyBetween'
  <2>1. req[w] # Idle
    BY <1>1 DEF Idle
  <2>2. /\ \A v \in Workers : v # w => req'[v] = Idle
        /\ \A x \in Orders \ torn : Backed(x, column[x])
    BY <1>1, <1>4, <1>8, <2>1, BetweenIs
  <2>3. \A x \in Orders, j \in Images : column[x][j] \in Nat /\ Cardinality(RowsWith(x, j)) \in Nat
    BY <1>1, PartsAreFinite DEF IntakeTypeOK, Sheet, RowsWith
  <2>4. ASSUME NEW x \in Orders \ torn' PROVE Backed(x, column[x])'
    BY <1>1, <2>2, <2>3, StoredIs DEF Backed
  <2>5. PICK o \in Orders, i \in Images : o = req[w].o /\ i = req[w].image
    BY <1>2
  <2>6. o \in torn \/ column[o][i] < Cardinality(RowsWith(o, i)')
    <3>1. o \in torn \/ column[o][i] <= Cardinality(RowsWith(o, i))
      BY <2>2 DEF Backed
    <3>2. Cardinality(RowsWith(o, i)') = Cardinality(RowsWith(o, i)) + 1
      BY <1>1, <2>5, StoredIs
    <3> QED BY <2>3, <3>1, <3>2
  <2>7. ReadIsStill(w)'
    <3>1. req'[w].op = "push" /\ req'[w].o = o /\ req'[w].image = i
      BY <1>3, <1>4, <2>5
    <3> QED BY <1>1, <2>6, <3>1 DEF ReadIsStill, RowsWith
  <2> QED BY <2>2, <2>4, <2>7, BetweenHolds
<1> QED BY <1>5, <1>6, <1>7, <1>8 DEF IntakeInv

\* A step of w that ends its request, and what it then is between requests.
LEMMA EndIsQuiet ==
    ASSUME IntakeInv, NEW w \in Workers, req[w] # Idle, req' = [req EXCEPT ![w] = Idle],
           overlap' = overlap,
           \A x \in Orders \ torn' : ~overlap => Backed(x, column[x])'
    PROVE  ~overlap' => NobodyBetween'
<1> SUFFICES ASSUME ~overlap' PROVE NobodyBetween'
  OBVIOUS
<1>1. req' = [v \in Workers |-> IF v = w THEN Idle ELSE req[v]]
  BY SlotIs
<1>2. \A v \in Workers : v # w => req'[v] = Idle
  BY <1>1, BetweenIs
<1>3. ReadIsStill(w)'
  BY <1>1 DEF ReadIsStill, Idle
<1> QED BY <1>2, <1>3, BetweenHolds

\* So do its keys and, when it writes no row, its rows.
LEMMA EndKeeps ==
    ASSUME IntakeInv, NEW w \in Workers, req' = [req EXCEPT ![w] = Idle],
           UNCHANGED <<vehicle, status, number, founded>>
    PROVE  /\ KeysHold' /\ NumbersAreTrue' /\ (photo' = photo => RowsAreTrue')
           /\ req' \in [Workers -> Requests \cup {Idle}]
<1>1. /\ req' = [v \in Workers |-> IF v = w THEN Idle ELSE req[v]] /\ IntakeTypeOK
      /\ req' \in [Workers -> Requests \cup {Idle}]
  BY SlotIs DEF IntakeInv
<1>2. KeysHold' /\ NumbersAreTrue'
  <2>1. \A v \in Workers : req'[v].op \in {"checkin", "insert"} => req'[v] = req[v]
    BY <1>1 DEF Idle
  <2> QED BY <2>1, KeysStay
<1>3. photo' = photo => RowsAreTrue'
  <2>1. \A x \in Orders : Shooting(x)' \subseteq Shooting(x)
    BY <1>1 DEF Shooting, Idle
  <2>2. \A v \in Workers : req'[v].op \in {"upload", "push", "camera"} => req'[v] = req[v]
    BY <1>1 DEF Idle
  <2> QED BY <1>1, <2>1, <2>2, IntakeSlots, RowsStay
<1> QED BY <1>1, <1>2, <1>3

\* The list of one order with one image more.
LEMMA ListedIs ==
    ASSUME IntakeTypeOK, NEW o \in Orders, NEW i \in Images, Listed(o, i)
    PROVE  /\ column' \in [Orders -> Sheet]
           /\ \A x \in Orders, j \in Images :
                /\ column[x][j] \in Nat
                /\ column'[x][j] = column[x][j] + (IF x = o /\ j = i THEN 1 ELSE 0)
<1>1. column \in [Orders -> [Images -> Nat]]
  BY DEF IntakeTypeOK, Sheet
<1>2. column' = [column EXCEPT ![o] = [column[o] EXCEPT ![i] = @ + 1]]
  BY <1>1 DEF Listed
<1>3. [column[o] EXCEPT ![i] = @ + 1] \in [Images -> Nat]
  BY <1>1
<1>4. column' \in [Orders -> [Images -> Nat]]
  BY <1>1, <1>2, <1>3
<1> QED BY <1>1, <1>2, <1>4 DEF Sheet

LEMMA UploadColumnKeeps ==
    ASSUME IntakeInv, NEW w \in Workers, UploadColumn(w), overlap' = overlap
    PROVE  IntakeInv'
<1> DEFINE o == req[w].o
           i == req[w].image
<1>1. /\ req[w].op = "push" /\ Listed(o, i) /\ req' = [req EXCEPT ![w] = Idle]
      /\ UNCHANGED <<vehicle, status, number, founded, photo, torn>> /\ IntakeTypeOK
  BY DEF UploadColumn, Takes, opening, IntakeInv
<1>2. o \in Orders /\ i \in Images /\ req[w] # Idle
  BY <1>1, IntakeSlots DEF Idle
<1>3. column' \in [Orders -> Sheet]
  BY <1>1, <1>2, ListedIs
<1>4. /\ KeysHold' /\ NumbersAreTrue' /\ RowsAreTrue'
      /\ req' \in [Workers -> Requests \cup {Idle}]
  BY <1>1, EndKeeps
<1>5. IntakeTypeOK'
  BY <1>1, <1>3, <1>4 DEF IntakeTypeOK
<1>6. ASSUME NEW x \in Orders \ torn', ~overlap PROVE Backed(x, column[x])'
  <2>1. /\ Backed(x, column[x]) /\ (o \in torn \/ column[o][i] < Cardinality(RowsWith(o, i)))
    BY <1>1, <1>2, <1>6, BetweenIs DEF ReadIsStill
  <2>2. ASSUME NEW j \in Images PROVE column'[x][j] <= Cardinality(RowsWith(x, j))
    <3>1. /\ column[x][j] \in Nat
          /\ column'[x][j] = column[x][j] + (IF x = o /\ j = i THEN 1 ELSE 0)
      BY <1>1, <1>2, ListedIs
    <3>2. Cardinality(RowsWith(x, j)) \in Nat
      BY PartsAreFinite DEF RowsWith
    <3>3. column[x][j] <= Cardinality(RowsWith(x, j))
      BY <2>1 DEF Backed
    <3> HIDE DEF o, i
    <3> QED BY <1>1, <2>1, <3>1, <3>2, <3>3
  <2> QED BY <1>1, <2>2 DEF Backed, RowsWith
<1> QED BY <1>2, <1>1, <1>4, <1>5, <1>6, EndIsQuiet DEF IntakeInv

LEMMA CameraPhotoKeeps ==
    ASSUME IntakeInv, NEW w \in Workers, CameraPhoto(w), overlap' = overlap
    PROVE  IntakeInv'
<1> DEFINE o == req[w].o
           i == req[w].image
<1>1. /\ req[w].op = "camera" /\ Stored(w) /\ Listed(o, i) /\ req' = [req EXCEPT ![w] = Idle]
      /\ UNCHANGED <<vehicle, status, number, founded, torn>> /\ IntakeTypeOK
  BY DEF CameraPhoto, Takes, opening, IntakeInv
<1>2. o \in Orders /\ i \in Images /\ req[w] # Idle
  BY <1>1, IntakeSlots DEF Idle
<1>3. column' \in [Orders -> Sheet]
  BY <1>1, <1>2, ListedIs
<1>4. KeysHold' /\ NumbersAreTrue' /\ req' \in [Workers -> Requests \cup {Idle}]
  BY <1>1, EndKeeps
<1>5. RowsAreTrue'
  <2>1. req' = [v \in Workers |-> IF v = w THEN Idle ELSE req[v]]
    BY <1>1, SlotIs
  <2>2. req'[w].op = "idle" /\ \A v \in Workers : v # w => req'[v] = req[v]
    BY <2>1 DEF Idle
  <2> QED BY <1>1, <2>2, StoredKeepsRows
<1>6. IntakeTypeOK'
  BY <1>1, <1>3, <1>4, StoredIs DEF IntakeTypeOK
<1>7. ASSUME NEW x \in Orders \ torn', ~overlap PROVE Backed(x, column[x])'
  <2>1. Backed(x, column[x])
    BY <1>1, <1>2, <1>7, BetweenIs
  <2>2. ASSUME NEW j \in Images PROVE column'[x][j] <= Cardinality(RowsWith(x, j)')
    <3>1. /\ column[x][j] \in Nat
          /\ column'[x][j] = column[x][j] + (IF x = o /\ j = i THEN 1 ELSE 0)
      BY <1>1, <1>2, ListedIs
    <3>2. Cardinality(RowsWith(x, j)) \in Nat
      BY PartsAreFinite DEF RowsWith
    <3>3. column[x][j] <= Cardinality(RowsWith(x, j))
      BY <2>1 DEF Backed
    <3>4. Cardinality(RowsWith(x, j)') = Cardinality(RowsWith(x, j)) + (IF x = o /\ j = i THEN 1 ELSE 0)
      BY <1>1, StoredIs
    <3> HIDE DEF o, i
    <3> QED BY <3>1, <3>2, <3>3, <3>4
  <2> QED BY <2>2 DEF Backed
<1> QED BY <1>2, <1>1, <1>4, <1>5, <1>6, <1>7, EndIsQuiet DEF IntakeInv

\* A row that goes leaves fewer rows of each order, and the others as they were.
Erases(q) == photo[q].op = "kept" /\ photo' = [photo EXCEPT ![q] = Deleted]

LEMMA DeletedIs ==
    ASSUME IntakeInv, NEW q \in Photos, Erases(q)
    PROVE  /\ photo' \in [Photos -> {Unused, Deleted} \cup {Shot(x, j) : x \in Orders, j \in Images}]
           /\ ({p \in Photos : photo[p] # Unused} = 1..Written)'
           /\ photo[q].image \in Images
           /\ \A x \in Orders : RowsOf(x)' \subseteq RowsOf(x)
           /\ \A x \in Orders, j \in Images :
                x # photo[q].of \/ j # photo[q].image => RowsWith(x, j)' = RowsWith(x, j)
<1> DEFINE T == {Unused, Deleted} \cup {Shot(x, j) : x \in Orders, j \in Images}
<1>1. photo \in [Photos -> T] /\ Deleted \in T
  BY DEF IntakeInv, IntakeTypeOK
<1>2. photo' = [p \in Photos |-> IF p = q THEN Deleted ELSE photo[p]] /\ photo' \in [Photos -> T]
  <2>1. photo' = [photo EXCEPT ![q] = Deleted]
    BY DEF Erases
  <2> HIDE DEF T
  <2> QED BY <1>1, <2>1
<1>3. photo[q].image \in Images /\ photo[q] # Unused
  BY <1>1, ShotsAre DEF Erases
<1>4. {p \in Photos : photo'[p] # Unused} = {p \in Photos : photo[p] # Unused}
  BY <1>2, <1>3, ShotsAre
<1>5. ({p \in Photos : photo[p] # Unused} = 1..Written)'
  BY <1>4 DEF IntakeInv, RowsAreTrue, Written
<1>6. \A x \in Orders : RowsOf(x)' \subseteq RowsOf(x)
  BY <1>2, ShotsAre DEF RowsOf
<1>7. ASSUME NEW x \in Orders, NEW j \in Images, x # photo[q].of \/ j # photo[q].image
      PROVE  RowsWith(x, j)' = RowsWith(x, j)
  <2>1. photo[q] # Shot(x, j)
    BY <1>7, ShotsAre
  <2> QED BY <1>2, <2>1, ShotsAre DEF RowsWith
<1> QED BY <1>2, <1>3, <1>5, <1>6, <1>7

\* The row goes; the list that was read, without what looks the same, is backed.
LEMMA DeleteRowKeeps ==
    ASSUME IntakeInv, NEW w \in Workers, DeleteRow(w), overlap' = overlap
    PROVE  IntakeInv'
<1>1. /\ req[w].op = "delete" /\ photo[req[w].p].op = "kept"
      /\ photo' = [photo EXCEPT ![req[w].p] = Deleted]
      /\ UNCHANGED <<vehicle, status, number, founded, column, torn>> /\ IntakeTypeOK
  BY DEF DeleteRow, opening, IntakeInv
<1>2. req[w].o \in Orders /\ req[w].p \in Photos /\ req[w].seen \in Sheet /\ req[w] # Idle
  BY <1>1, IntakeSlots DEF Idle
<1>3. PICK o \in Orders, q \in Photos, seen \in Sheet, i \in Images :
        o = req[w].o /\ q = req[w].p /\ seen = req[w].seen /\ i = photo[q].image
  <2>1. \A q \in Photos : photo[q].op = "kept" => photo[q].image \in Images
    BY <1>1, ShotsAre DEF IntakeTypeOK
  <2> QED BY <1>1, <1>2, <2>1
<1> DEFINE left == [seen EXCEPT ![i] = 0]
           r == [op |-> "trim", o |-> o, left |-> left]
<1>4. req' = [req EXCEPT ![w] = r]
  BY <1>3 DEF DeleteRow
<1>5. left \in Sheet /\ (\A j \in Images : left[j] = IF j = i THEN 0 ELSE seen[j])
  BY <1>3 DEF Sheet
<1>6. r \in Requests /\ r.op = "trim" /\ r.o = o /\ r.left = left
  <2> HIDE DEF left
  <2> QED BY <1>5 DEF Requests
<1> HIDE DEF r, left
<1>7. /\ req' = [v \in Workers |-> IF v = w THEN r ELSE req[v]]
      /\ req' \in [Workers -> Requests \cup {Idle}]
  BY <1>4, <1>6, SlotIs
<1>8. /\ photo' \in [Photos -> {Unused, Deleted} \cup {Shot(x, j) : x \in Orders, j \in Images}]
      /\ ({p \in Photos : photo[p] # Unused} = 1..Written)'
      /\ \A x \in Orders : RowsOf(x)' \subseteq RowsOf(x)
      /\ \A x \in Orders, j \in Images :
           x # photo[q].of \/ j # i => RowsWith(x, j)' = RowsWith(x, j)
  <2>1. Erases(q)
    BY <1>1, <1>3 DEF Erases
  <2>2. \A x \in Orders, j \in Images :
          x # photo[q].of \/ j # photo[q].image => RowsWith(x, j)' = RowsWith(x, j)
    BY <2>1, DeletedIs
  <2> QED BY <1>3, <2>1, <2>2, DeletedIs
<1>9. IntakeTypeOK'
  BY <1>1, <1>7, <1>8 DEF IntakeTypeOK
<1>10. KeysHold' /\ NumbersAreTrue'
  <2>1. \A v \in Workers : v = w \/ req'[v] = req[v]
    BY <1>7
  <2>2. req'[w].op # "checkin" /\ req'[w].op # "insert"
    BY <1>6, <1>7
  <2> QED BY <1>1, <2>1, <2>2, KeysStay
<1>11. RowsAreTrue'
  <2>1. ASSUME NEW x \in Orders
        PROVE  /\ status'[x] = "none" => RowsOf(x)' = {}
               /\ Cardinality(RowsOf(x)') + Cardinality(Shooting(x)')
                    <= MaxPhotos + Cardinality(Workers) - 1
    <3>1. Shooting(x)' = Shooting(x)
      BY <1>1, <1>6, <1>7 DEF Shooting
    <3>2. Cardinality(RowsOf(x)') <= Cardinality(RowsOf(x))
      BY <1>8, PartsAreFinite DEF RowsOf
    <3>3. /\ Cardinality(RowsOf(x)') \in Nat /\ Cardinality(RowsOf(x)) \in Nat
          /\ Cardinality(Shooting(x)) \in Nat /\ MaxPhotos \in Nat /\ Cardinality(Workers) \in Nat
      BY PartsAreFinite, PhotoAssumption DEF RowsOf, Shooting
    <3>4. /\ status[x] = "none" => RowsOf(x) = {}
          /\ Cardinality(RowsOf(x)) + Cardinality(Shooting(x))
               <= MaxPhotos + Cardinality(Workers) - 1
      BY DEF IntakeInv, RowsAreTrue
    <3> QED BY <1>1, <1>8, <3>1, <3>2, <3>3, <3>4
  <2>2. ASSUME NEW v \in Workers, req'[v].op \in {"upload", "push", "camera"}
        PROVE  status'[req'[v].o] # "none"
    <3>1. req'[v] = req[v]
      BY <1>6, <1>7, <2>2
    <3> QED BY <1>1, <2>2, <3>1 DEF IntakeInv, RowsAreTrue
  <2> QED BY <1>8, <2>1, <2>2 DEF RowsAreTrue
<1>12. ASSUME ~overlap' PROVE NobodyBetween'
  <2>1. /\ ReadIsStill(w) /\ \A v \in Workers : v # w => req'[v] = Idle
        /\ \A x \in Orders \ torn : Backed(x, column[x])
    BY <1>1, <1>2, <1>7, <1>12, BetweenIs
  <2>2. seen = column[o] /\ photo[q].of = o
    BY <1>1, <1>3, <2>1 DEF ReadIsStill
  <2>3. ASSUME NEW x \in Orders \ torn', x # o PROVE Backed(x, column[x])'
    BY <1>1, <1>8, <2>1, <2>2, <2>3 DEF Backed
  <2>4. o \notin torn => \A j \in Images : left[j] <= Cardinality(RowsWith(o, j)')
    <3> SUFFICES ASSUME o \notin torn, NEW j \in Images
                 PROVE  left[j] <= Cardinality(RowsWith(o, j)')
      OBVIOUS
    <3>1. Cardinality(RowsWith(o, j)') \in Nat
      BY PartsAreFinite DEF RowsWith
    <3>2. seen[j] <= Cardinality(RowsWith(o, j))
      BY <2>1, <2>2 DEF Backed
    <3> QED BY <1>5, <1>8, <3>1, <3>2
  <2>5. req'[w].op = "trim" /\ req'[w].o = o /\ req'[w].left = left
    BY <1>6, <1>7
  <2>6. ReadIsStill(w)'
    BY <1>1, <2>4, <2>5 DEF ReadIsStill, Backed
  <2> QED BY <2>1, <2>3, <2>5, <2>6, BetweenHolds
<1> QED BY <1>9, <1>10, <1>11, <1>12 DEF IntakeInv

LEMMA DeleteFromColumnKeeps ==
    ASSUME IntakeInv, NEW w \in Workers, DeleteFromColumn(w), overlap' = overlap
    PROVE  IntakeInv'
<1>1. /\ req[w].op = "trim" /\ req' = [req EXCEPT ![w] = Idle]
      /\ column' = [column EXCEPT ![req[w].o] = req[w].left]
      /\ UNCHANGED <<vehicle, status, number, founded, photo, torn>> /\ IntakeTypeOK
  BY DEF DeleteFromColumn, Takes, opening, IntakeInv
<1>2. req[w].o \in Orders /\ req[w].left \in Sheet /\ req[w] # Idle
  BY <1>1, IntakeSlots DEF Idle
<1>3. column' \in [Orders -> Sheet]
  BY <1>1, <1>2 DEF IntakeTypeOK
<1>4. /\ KeysHold' /\ NumbersAreTrue' /\ RowsAreTrue'
      /\ req' \in [Workers -> Requests \cup {Idle}]
  BY <1>1, EndKeeps
<1>5. IntakeTypeOK'
  BY <1>1, <1>3, <1>4 DEF IntakeTypeOK
<1>6. ASSUME NEW x \in Orders \ torn', ~overlap PROVE Backed(x, column[x])'
  <2>1. /\ x # req[w].o => Backed(x, column[x])
        /\ x = req[w].o => Backed(x, req[w].left)
    BY <1>1, <1>2, <1>6, BetweenIs DEF ReadIsStill
  <2>2. column'[x] = IF x = req[w].o THEN req[w].left ELSE column[x]
    BY <1>1, <1>2 DEF IntakeTypeOK
  <2> QED BY <1>1, <2>1, <2>2 DEF Backed, RowsWith
<1> QED BY <1>2, <1>1, <1>4, <1>5, <1>6, EndIsQuiet DEF IntakeInv

\* What a request leaves half done is torn.
LEMMA IntakeFailKeeps ==
    ASSUME IntakeInv, NEW w \in Workers, IntakeFail(w), overlap' = overlap
    PROVE  IntakeInv'
<1>1. /\ req[w] # Idle /\ req' = [req EXCEPT ![w] = Idle]
      /\ torn' = IF req[w].op \in {"push", "trim"} THEN torn \cup {req[w].o} ELSE torn
      /\ UNCHANGED <<vehicle, status, number, founded, photo, column>> /\ IntakeTypeOK
  BY DEF IntakeFail, opening, IntakeInv
<1>2. torn' \in SUBSET Orders
  BY <1>1, IntakeSlots DEF IntakeTypeOK
<1>3. /\ KeysHold' /\ NumbersAreTrue' /\ RowsAreTrue'
      /\ req' \in [Workers -> Requests \cup {Idle}]
  BY <1>1, EndKeeps
<1>4. IntakeTypeOK'
  BY <1>1, <1>2, <1>3 DEF IntakeTypeOK
<1>5. ASSUME NEW x \in Orders \ torn', ~overlap PROVE Backed(x, column[x])'
  <2>1. x \in Orders \ torn /\ ~(req[w].op = "trim" /\ req[w].o = x)
    BY <1>1, <1>5
  <2>2. Backed(x, column[x])
    BY <1>1, <1>5, <2>1, BetweenIs
  <2> QED BY <1>1, <2>2 DEF Backed, RowsWith
<1> QED BY <1>1, <1>3, <1>4, <1>5, EndIsQuiet DEF IntakeInv

\* The photos of a check-in are rows of its order, as many as its list shows.
LEMMA AttachIs ==
    ASSUME IntakeInv, NEW o \in Orders, NEW pics \in Bundles(o), Attach(o, pics),
           status[o] = "none"
    PROVE  /\ photo' \in [Photos -> {Unused, Deleted} \cup {Shot(x, j) : x \in Orders, j \in Images}]
           /\ ({p \in Photos : photo[p] # Unused} = 1..Written)'
           /\ Cardinality(RowsOf(o)') <= MaxPhotos
           /\ \A x \in Orders : x # o =>
                /\ RowsOf(x)' = RowsOf(x) /\ column'[x] = column[x]
                /\ \A j \in Images : RowsWith(x, j)' = RowsWith(x, j)
           /\ column' \in [Orders -> Sheet] /\ torn' = torn
           /\ \A j \in Images : column'[o][j] <= Cardinality(RowsWith(o, j)')
<1> DEFINE N == Written
           T == {Unused, Deleted} \cup {Shot(x, j) : x \in Orders, j \in Images}
<1>1. PICK n \in 0..MaxPhotos : DOMAIN pics = 1..n /\ Len(pics) = n /\ \A k \in 1..n : pics[k] \in Images
  <2>1. CASE pics = <<>>
    <3>1. DOMAIN pics = 1..0 /\ Len(pics) = 0
      BY <2>1
    <3> QED BY <3>1, PhotoAssumption
  <2>2. CASE \E n \in Checkin : pics \in [1..n -> Images]
    <3>1. PICK n \in Checkin : pics \in [1..n -> Images]
      BY <2>2
    <3>2. n \in 1..MaxPhotos /\ n \in Nat
      BY PhotoAssumption
    <3>3. Len(pics) = n
      BY <3>1, <3>2
    <3> QED BY <3>1, <3>2, <3>3, PhotoAssumption
  <2> QED BY <2>1, <2>2 DEF Bundles
<1>2. /\ N + n <= MaxRows /\ torn' = torn
      /\ photo' = [p \in Photos |-> IF p - N \in 1..n THEN Shot(o, pics[p - N]) ELSE photo[p]]
      /\ column' = [column EXCEPT ![o] = [i \in Images |-> Cardinality({k \in 1..n : pics[k] = i})]]
  BY <1>1 DEF Attach
<1>3. N \in Nat /\ MaxRows \in Nat /\ n \in Nat /\ MaxPhotos \in Nat
  BY <1>1, RowsInOrder, PhotoAssumption
<1>4. photo \in [Photos -> T] /\ \A p \in Photos : p \in Nat /\ (photo[p] = Unused <=> p > N)
  BY RowsInOrder DEF IntakeInv, IntakeTypeOK
<1>5. \A k \in 1..n : Shot(o, pics[k]) \in T
  BY <1>1
<1>6. photo' \in [Photos -> T]
  <2> HIDE DEF T, N
  <2> QED BY <1>2, <1>4, <1>5
<1>7. {p \in Photos : photo'[p] # Unused} = 1..(N + n)
  <2>1. \A p \in Photos : photo'[p] # Unused <=> p <= N + n
    <3> HIDE DEF T, N
    <3> QED BY <1>2, <1>3, <1>4, ShotsAre
  <2>2. \A p \in 1..(N + n) : p \in Photos
    BY <1>2, <1>3 DEF Photos
  <2>3. \A p \in Photos : p >= 1 /\ p \in Nat
    BY DEF Photos
  <2> HIDE DEF N
  <2> QED BY <1>3, <2>1, <2>2, <2>3
<1>8. Written' = N + n
  <2>1. Cardinality(1..(N + n)) = N + n
    <3> HIDE DEF N
    <3>1. N + n \in Int /\ 1 \in Int
      BY <1>3
    <3>2. Cardinality(1..(N + n)) = IF 1 > N + n THEN 0 ELSE (N + n) - 1 + 1
      BY <3>1, FS_Interval
    <3> QED BY <1>3, <3>2
  <2> QED BY <1>7, <2>1 DEF Written
<1>9. Cardinality(RowsOf(o)') <= MaxPhotos
  <2>1. RowsOf(o) = {}
    BY DEF IntakeInv, RowsAreTrue
  <2>2. RowsOf(o)' \subseteq (N + 1)..(N + n)
    <3>1. ASSUME NEW p \in RowsOf(o)' PROVE p \in (N + 1)..(N + n)
      <4>1. p \in Photos /\ p \in Nat /\ \E i \in Images : photo'[p] = Shot(o, i)
        BY <1>4 DEF RowsOf
      <4>2. ~\E i \in Images : photo[p] = Shot(o, i)
        BY <2>1, <4>1 DEF RowsOf
      <4>3. p - N \in 1..n
        BY <1>2, <4>1, <4>2
      <4> HIDE DEF N
      <4> QED BY <1>3, <4>1, <4>3
    <3> QED BY <3>1
  <2>3. IsFiniteSet((N + 1)..(N + n)) /\ Cardinality((N + 1)..(N + n)) <= n
    <3> HIDE DEF N
    <3>1. N + 1 \in Int /\ N + n \in Int
      BY <1>3
    <3>2. IsFiniteSet((N + 1)..(N + n))
          /\ Cardinality((N + 1)..(N + n)) = IF N + 1 > N + n THEN 0 ELSE (N + n) - (N + 1) + 1
      BY <3>1, FS_Interval
    <3> QED BY <1>3, <3>2
  <2>4. Cardinality(RowsOf(o)') <= Cardinality((N + 1)..(N + n))
    BY <2>2, <2>3, FS_Subset
  <2>5. Cardinality(RowsOf(o)') \in Nat /\ Cardinality((N + 1)..(N + n)) \in Nat
    BY <2>3, PartsAreFinite, FS_CardinalityType DEF RowsOf
  <2> QED BY <1>1, <1>3, <2>3, <2>4, <2>5
<1>10. ASSUME NEW x \in Orders, x # o
       PROVE  /\ RowsOf(x)' = RowsOf(x) /\ column'[x] = column[x]
              /\ \A j \in Images : RowsWith(x, j)' = RowsWith(x, j)
  <2>1. \A p \in Photos, j \in Images : photo'[p] = Shot(x, j) <=> photo[p] = Shot(x, j)
    <3> HIDE DEF N
    <3> QED BY <1>2, <1>3, <1>4, <1>10, ShotsAre
  <2>2. column'[x] = column[x]
    BY <1>2, <1>10 DEF IntakeInv, IntakeTypeOK
  <2> QED BY <2>1, <2>2 DEF RowsOf, RowsWith
<1>11. ASSUME NEW j \in Images
       PROVE  /\ Cardinality({k \in 1..n : pics[k] = j}) \in Nat
              /\ Cardinality({k \in 1..n : pics[k] = j}) <= Cardinality(RowsWith(o, j)')
  <2> DEFINE S == {k \in 1..n : pics[k] = j}
             R == RowsWith(o, j)'
             f == [k \in S |-> k + N]
  <2>1. IsFiniteSet(S) /\ Cardinality(S) \in Nat
    <3>1. IsFiniteSet(1..n) /\ S \in SUBSET (1..n)
      BY <1>3, FS_Interval
    <3> HIDE DEF S
    <3>2. IsFiniteSet(S)
      BY <3>1, FS_Subset
    <3> QED BY <3>2, FS_CardinalityType
  <2>2. \A k \in S : k + N \in R
    <3>1. ASSUME NEW k \in S PROVE k + N \in Photos /\ photo'[k + N] = Shot(o, j)
      <4>1. k + N \in Photos /\ (k + N) - N = k
        BY <1>2, <1>3 DEF Photos
      <4> HIDE DEF N
      <4> QED BY <1>2, <4>1
    <3> QED BY <3>1 DEF RowsWith
  <2>3. f \in Injection(S, R)
    <3>1. \A k \in S : k \in Nat
      BY <1>3
    <3> HIDE DEF R, N
    <3> QED BY <1>3, <2>2, <3>1 DEF Injection, IsInjective
  <2>4. IsFiniteSet(R)
    BY PartsAreFinite DEF RowsWith
  <2>5. Cardinality(S) <= Cardinality(R)
    <3> HIDE DEF S, R, f
    <3> QED BY <2>3, <2>4, FS_Injection
  <2> QED BY <2>1, <2>5
<1>12. column' \in [Orders -> Sheet] /\ \A j \in Images : column'[o][j] = Cardinality({k \in 1..n : pics[k] = j})
  <2> DEFINE c == [i \in Images |-> Cardinality({k \in 1..n : pics[k] = i})]
  <2>1. c \in Sheet /\ \A j \in Images : c[j] = Cardinality({k \in 1..n : pics[k] = j})
    BY <1>11 DEF Sheet
  <2>2. column' = [column EXCEPT ![o] = c] /\ column \in [Orders -> Sheet]
    BY <1>2 DEF IntakeInv, IntakeTypeOK
  <2> HIDE DEF c
  <2> QED BY <2>1, <2>2
<1>13. \A j \in Images : column'[o][j] <= Cardinality(RowsWith(o, j)')
  BY <1>11, <1>12
<1>14. ({p \in Photos : photo[p] # Unused} = 1..Written)'
  BY <1>7, <1>8
<1>15. /\ photo' \in [Photos -> {Unused, Deleted} \cup {Shot(x, j) : x \in Orders, j \in Images}]
       /\ column' \in [Orders -> Sheet] /\ torn' = torn
  BY <1>2, <1>6, <1>12
<1> QED BY <1>9, <1>10, <1>13, <1>14, <1>15

LEMMA OpenAtCheckinKeeps ==
    ASSUME IntakeInv, NEW w \in Workers, NEW o \in Orders, NEW pics \in Bundles(o),
           OpenAtCheckin(w, o, pics), overlap' = overlap
    PROVE  IntakeInv'
<1>1. /\ req[w].op = "insert" /\ req[w].via # "desk" /\ Open(w, o) /\ Attach(o, pics)
      /\ req[w].via = "founding" => ~vehicle
      /\ vehicle' = TRUE
      /\ founded' = IF req[w].via = "founding" THEN founded + 1 ELSE founded
      /\ status[o] = "none" /\ status' = [status EXCEPT ![o] = "active"]
      /\ req' = [req EXCEPT ![w] = Idle] /\ IntakeTypeOK
  BY DEF OpenAtCheckin, Open, Takes, IntakeInv
<1>2. founded' = founded \/ (~vehicle /\ founded' = founded + 1)
  BY <1>1
<1>3. /\ KeysHold' /\ NumbersAreTrue'
      /\ vehicle' \in BOOLEAN /\ status' \in [Orders -> {"none", "active", "closed"}]
      /\ number' \in [Orders -> Nat] /\ founded' \in 0..Cardinality(Orders)
      /\ \A x \in Orders : status'[x] = "none" => status[x] = "none"
  BY <1>1, <1>2, OpenKeepsKeys
<1>4. /\ req' = [v \in Workers |-> IF v = w THEN Idle ELSE req[v]]
      /\ req' \in [Workers -> Requests \cup {Idle}]
  BY <1>1, SlotIs
<1>5. IntakeTypeOK'
  BY <1>1, <1>3, <1>4, AttachIs DEF IntakeTypeOK
<1>6. status'[o] # "none" /\ \A x \in Orders : x # o => status'[x] = status[x]
  BY <1>1 DEF IntakeTypeOK
<1>7. RowsAreTrue'
  <2>1. ASSUME NEW x \in Orders
        PROVE  /\ status'[x] = "none" => RowsOf(x)' = {}
               /\ Cardinality(RowsOf(x)') + Cardinality(Shooting(x)')
                    <= MaxPhotos + Cardinality(Workers) - 1
    <3>1. Shooting(x)' = Shooting(x)
      BY <1>1, <1>4 DEF Shooting, Idle
    <3>2. CASE x = o
      <4>1. Shooting(x) = {}
        BY <1>1, <3>2 DEF IntakeInv, RowsAreTrue, Shooting
      <4>2. Cardinality(Shooting(x)') = 0
        BY <3>1, <4>1, FS_EmptySet
      <4>3. Cardinality(Workers) \in Nat /\ Cardinality(Workers) # 0
        BY PartsAreFinite, PhotoAssumption, FS_EmptySet
      <4>4. Cardinality(RowsOf(x)') <= MaxPhotos /\ Cardinality(RowsOf(x)') \in Nat
        BY <1>1, <3>2, AttachIs, PartsAreFinite DEF RowsOf
      <4> QED BY <1>6, <3>2, <4>2, <4>3, <4>4, PhotoAssumption
    <3>3. CASE x # o
      <4>1. RowsOf(x)' = RowsOf(x)
        BY <1>1, <3>3, AttachIs
      <4> QED BY <1>3, <3>1, <4>1 DEF IntakeInv, RowsAreTrue
    <3> QED BY <3>2, <3>3
  <2>2. ASSUME NEW v \in Workers, req'[v].op \in {"upload", "push", "camera"}
        PROVE  status'[req'[v].o] # "none"
    <3>1. req'[v] = req[v] /\ req[v].o \in Orders
      BY <1>1, <1>4, <2>2, IntakeSlots DEF Idle
    <3>2. status[req[v].o] # "none"
      BY <2>2, <3>1 DEF IntakeInv, RowsAreTrue
    <3> QED BY <1>3, <3>1, <3>2
  <2>3. ({p \in Photos : photo[p] # Unused} = 1..Written)'
    BY <1>1, AttachIs
  <2> QED BY <2>1, <2>2, <2>3 DEF RowsAreTrue
<1>8. req[w] # Idle
  BY <1>1 DEF Idle
<1>9. ASSUME NEW x \in Orders \ torn', ~overlap PROVE Backed(x, column[x])'
  <2>1. torn' = torn
    BY <1>1, AttachIs
  <2>2. CASE x = o
    <3>1. \A j \in Images : column'[x][j] <= Cardinality(RowsWith(x, j)')
      BY <1>1, <2>2, AttachIs
    <3> QED BY <3>1 DEF Backed
  <2>3. CASE x # o
    <3>1. Backed(x, column[x])
      BY <1>1, <1>8, <1>9, <2>1, BetweenIs
    <3>2. column'[x] = column[x] /\ \A j \in Images : RowsWith(x, j)' = RowsWith(x, j)
      BY <1>1, <2>3, AttachIs
    <3> QED BY <3>1, <3>2 DEF Backed
  <2> QED BY <2>2, <2>3
<1> QED BY <1>1, <1>3, <1>5, <1>7, <1>8, <1>9, EndIsQuiet DEF IntakeInv

LEMMA IntakeStart == IntakeInit => IntakeInv
<1> SUFFICES ASSUME IntakeInit PROVE IntakeInv
  OBVIOUS
<1>1. /\ vehicle \in BOOLEAN /\ status = [o \in Orders |-> "none"]
      /\ number = [o \in Orders |-> 0] /\ founded = 0
      /\ photo = [p \in Photos |-> Unused] /\ column = [o \in Orders |-> [i \in Images |-> 0]]
      /\ torn = {} /\ overlap = FALSE /\ req = [w \in Workers |-> Idle]
  BY DEF IntakeInit
<1>2. Cardinality(Orders) \in Nat
  BY PartsAreFinite
<1>3. IntakeTypeOK
  <2>1. column \in [Orders -> Sheet]
    BY <1>1 DEF Sheet
  <2>2. photo \in [Photos -> {Unused, Deleted} \cup {Shot(o, i) : o \in Orders, i \in Images}]
    BY <1>1
  <2>3. req \in [Workers -> Requests \cup {Idle}]
    BY <1>1
  <2>4. founded \in 0..Cardinality(Orders)
    BY <1>1, <1>2
  <2>5. overlap \in BOOLEAN
    BY <1>1
  <2> QED BY <1>1, <2>1, <2>2, <2>3, <2>4, <2>5 DEF IntakeTypeOK
<1>4. Existing = {} /\ Cardinality(Existing) = 0
  BY <1>1, FS_EmptySet DEF Existing
<1>5. KeysHold
  BY <1>1, <1>4 DEF KeysHold, NewPlateOnce, NumbersGapless
<1>6. NumbersAreTrue
  BY <1>1, <1>4 DEF NumbersAreTrue, Idle
<1>7. \A o \in Orders : RowsOf(o) = {} /\ Shooting(o) = {}
  BY <1>1, ShotsAre DEF RowsOf, Shooting, Idle
<1>8. {p \in Photos : photo[p] # Unused} = {} /\ Written = 0
  <2>1. {p \in Photos : photo[p] # Unused} = {}
    BY <1>1
  <2> QED BY <2>1, FS_EmptySet DEF Written
<1>9. RowsAreTrue
  <2>1. \A o \in Orders : Cardinality(RowsOf(o)) + Cardinality(Shooting(o))
                            <= MaxPhotos + Cardinality(Workers) - 1
    BY <1>7, FS_EmptySet, PartsAreFinite, PhotoAssumption
  <2> QED BY <1>1, <1>7, <1>8, <2>1 DEF RowsAreTrue, Idle
<1>10. NobodyBetween
  <2>1. ASSUME NEW o \in Orders PROVE Backed(o, column[o])
    <3>1. \A i \in Images : column[o][i] = 0 /\ Cardinality(RowsWith(o, i)) \in Nat
      BY <1>1, PartsAreFinite DEF RowsWith
    <3> QED BY <3>1 DEF Backed
  <2> QED BY <1>1, <2>1 DEF NobodyBetween, Alone, ReadIsStill, Idle
<1> QED BY <1>3, <1>5, <1>6, <1>9, <1>10 DEF IntakeInv

LEMMA IntakeStep == IntakeInv /\ [IntakeNext]_intakeVars => IntakeInv'
<1> SUFFICES ASSUME IntakeInv, [IntakeNext]_intakeVars PROVE IntakeInv'
  OBVIOUS
<1>1. ASSUME NEW w \in Workers, IntakeBegin(w), overlap' = (overlap \/ Busy # {})
      PROVE  IntakeInv'
  <2>1. Documented \subseteq Orders
    BY PhotoAssumption
  <2> QED BY <1>1, <2>1, BeginCheckinKeeps, CountForDeskKeeps, BeginPhotoKeeps, BeginDeleteKeeps
      DEF IntakeBegin
<1>2. ASSUME NEW w \in Workers, IntakeContinue(w), overlap' = overlap PROVE IntakeInv'
  BY <1>2, CountForCheckinKeeps, OpenAtDeskKeeps, OpenAtCheckinKeeps, UploadRowKeeps,
     UploadColumnKeeps, CameraPhotoKeeps, DeleteRowKeeps, DeleteFromColumnKeeps, IntakeFailKeeps
     DEF IntakeContinue
<1>3. CASE UNCHANGED intakeVars
  <2>1. UNCHANGED <<vehicle, status, number, founded, photo, column, torn, overlap, req>>
    BY <1>3 DEF intakeVars
  <2>2. IntakeTypeOK'
    BY <2>1 DEF IntakeInv, IntakeTypeOK
  <2>3. KeysHold' /\ NumbersAreTrue'
    BY <2>1, KeysStay
  <2>4. RowsAreTrue'
    <3>1. \A o \in Orders : Shooting(o)' = Shooting(o)
      BY <2>1 DEF Shooting
    <3> QED BY <2>1, <3>1, IntakeSlots, RowsStay DEF IntakeInv
  <2>5. overlap' \/ NobodyBetween'
    <3>1. ASSUME NEW v \in Workers, ReadIsStill(v) PROVE ReadIsStill(v)'
      BY <2>1, <3>1 DEF ReadIsStill, Active, Backed, RowsWith
    <3>2. \A x \in Orders : Backed(x, column[x])' <=> Backed(x, column[x])
      BY <2>1 DEF Backed, RowsWith
    <3>3. NobodyBetween => NobodyBetween'
      BY <2>1, <3>1, <3>2 DEF NobodyBetween, Alone
    <3> QED BY <2>1, <3>3 DEF IntakeInv
  <2> QED BY <2>2, <2>3, <2>4, <2>5 DEF IntakeInv
<1> QED BY <1>1, <1>2, <1>3, MoveKeeps DEF IntakeNext

\* However check-ins, the desk, uploads and deletions interleave and fail, what the
\* slots hold fits the orders and their rows.
THEOREM IntakeInvariant == IntakeSpec => []IntakeInv
BY IntakeStart, IntakeStep, PTL DEF IntakeSpec

\* A new plate founds one vehicle, and the numbers in use are 1 to their count.
THEOREM KeysAlwaysHold == IntakeSpec => []KeysHold
<1>1. IntakeInv => KeysHold
  BY DEF IntakeInv
<1> QED BY <1>1, IntakeInvariant, PTL

\* The limit of photos is passed by less than one photo for each request in flight.
THEOREM PhotosAreBounded == IntakeSpec => []PhotoCapBounded
<1>1. IntakeInv => PhotoCapBounded
  <2> SUFFICES ASSUME IntakeInv, NEW o \in Orders
               PROVE  Cardinality(RowsOf(o)) <= MaxPhotos + Cardinality(Workers) - 1
    BY DEF PhotoCapBounded
  <2>1. /\ Cardinality(RowsOf(o)) \in Nat /\ Cardinality(Shooting(o)) \in Nat
        /\ Cardinality(Workers) \in Nat /\ MaxPhotos \in Nat
    BY PartsAreFinite, PhotoAssumption DEF RowsOf, Shooting
  <2>2. Cardinality(RowsOf(o)) + Cardinality(Shooting(o)) <= MaxPhotos + Cardinality(Workers) - 1
    BY DEF IntakeInv, RowsAreTrue
  <2> QED BY <2>1, <2>2
<1> QED BY <1>1, IntakeInvariant, PTL

\* Until requests overlap, the list shows no image more often than there are rows.
THEOREM ColumnsAreBacked == IntakeSpec => []ColumnBacked
<1>1. IntakeInv => ColumnBacked
  BY BetweenIs DEF ColumnBacked
<1> QED BY <1>1, IntakeInvariant, PTL

\* Until requests overlap, no check-in opens an order beside an active one.
THEOREM CheckinsFindNoActive == IntakeSpec => CheckinFindsNoActive
<1>1. ASSUME IntakeInv
      PROVE  [\A w \in Workers :
                req[w].op = "insert" /\ req[w].via # "desk" /\ Existing' # Existing /\ ~overlap =>
                    Active = {}]_intakeVars
  <2>1. ASSUME NEW w \in Workers, req[w].op = "insert", req[w].via # "desk", ~overlap
        PROVE  Active = {}
    <3>1. ReadIsStill(w)
      BY <1>1, <2>1 DEF IntakeInv, NobodyBetween
    <3> QED BY <2>1, <3>1 DEF ReadIsStill
  <2> QED BY <2>1
<1> QED BY <1>1, IntakeInvariant, PTL DEF CheckinFindsNoActive
=============================================================================
