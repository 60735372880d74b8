------------------------------ MODULE Inventory ------------------------------
(***************************************************************************)
(* Stock: manual movements, reservations and dispatches for an order, the  *)
(* edit of an item, and the reception of a purchase, over the table        *)
(* inventory_items and its copy in Redis (the key inventory:item:<id>).    *)
(*                                                                         *)
(* A handler reads the stock, from the cache or from the table, decides,   *)
(* writes in a transaction and drops the key afterwards.  Under READ       *)
(* COMMITTED a read inside the transaction locks nothing, so a request is  *)
(* a slot in req, as in WorkOrders: what it has read and is about to do.   *)
(***************************************************************************)
EXTENDS Integers, Overlaps

CONSTANTS
    Items,      \* rows of inventory_items, each a line of the purchase
    Opening,    \* initial stocks
    Qty,        \* quantities of a movement, new stocks of an adjustment
    Ordered,    \* PurchaseItem.quantity of each line
    Batches,    \* what the items of a reception amount to, line by line
    MaxUnits,   \* bound: stock and ledger stay between -MaxUnits and MaxUnits
    MaxStocked  \* bound: units of a line that receptions bring

\* The entries of a reception for one line, which may be named more than once:
\* the quantity of the last, the largest, and their sum (one entry: all three
\* are its quantity).
Entries == [last : Nat, max : Nat, sum : Nat]

ASSUME QuantityAssumption ==
    /\ Opening \subseteq Nat
    /\ Qty \subseteq Nat
    /\ Ordered \in [Items -> Nat]
    /\ MaxUnits \in Nat
    /\ MaxStocked \in Nat

ASSUME BatchAssumption ==
    /\ Batches \subseteq [Items -> Entries]
    /\ \A b \in Batches : \A i \in Items : b[i].last <= b[i].max /\ b[i].max <= b[i].sum

VARIABLES
    stock,      \* InventoryItem.stock
    ledger,     \* the opening stock and every accepted change since, applied
                \* one after the other: the theoretical stock, kept until two
                \* requests overlap (after that it follows the stock)
    cached,     \* items with a live inventory:item:<id> key
    copy,       \* the stock in that key
    lost,       \* items whose key was not dropped after a write (a crash, a
                \* Redis error), until two requests overlap
    purchase,   \* Purchase.status
    received,   \* PurchaseItem.receivedQty of each line
    stocked,    \* units of each line that came into stock
    doubled,    \* those of them a later entry of the same reception left
                \* uncounted
    working     \* the order the requests name is IN_PROGRESS

store == <<stock, ledger, cached, copy, lost>>
buying == <<purchase, received, stocked, doubled>>
vars == <<stock, ledger, cached, copy, lost, purchase, received, stocked, doubled, working,
          overlap, req>>

-----------------------------------------------------------------------------
VALID_TRANSITIONS ==
    [DRAFT              |-> {"SENT", "CANCELLED"},
     SENT               |-> {"CONFIRMED", "CANCELLED"},
     CONFIRMED          |-> {"PARTIALLY_RECEIVED", "RECEIVED", "CANCELLED"},
     PARTIALLY_RECEIVED |-> {"RECEIVED", "CANCELLED"},
     RECEIVED           |-> {},
     CANCELLED          |-> {}]

PurchaseStatus == {"DRAFT", "SENT", "CONFIRMED", "PARTIALLY_RECEIVED", "RECEIVED", "CANCELLED"}

Final == {"RECEIVED", "CANCELLED"}

Withdrawals == {"OUT", "reserve", "dispatch"}

\* fill: a miss of the cache, the key is still to be set to what was seen.
ItemRequest == [op : Withdrawals \cup {"get", "IN", "ADJUSTMENT", "touch"},
                i : Items, qty : Nat, seen : Int, fill : BOOLEAN]
ReceiveRequest == [op : {"receive"}, batch : Batches, base : [Items -> Nat]]
WrittenRequest == [op : {"written", "recheck"}, drop : SUBSET Items]
StatusRequest == [op : {"status"}, to : PurchaseStatus]

Request == ItemRequest \cup ReceiveRequest \cup WrittenRequest \cup StatusRequest


RowsOK ==
    /\ stock    \in [Items -> Int]
    /\ ledger   \in [Items -> Int]
    /\ cached   \in SUBSET Items
    /\ copy     \in [Items -> Int]
    /\ lost     \in SUBSET Items
    /\ purchase \in PurchaseStatus
    /\ received \in [Items -> Nat]
    /\ stocked  \in [Items -> Nat]
    /\ doubled  \in [Items -> Nat]
    /\ working  \in BOOLEAN
    /\ req      \in [Workers -> Request \cup {Idle}]

TypeOK == RowsOK /\ overlap \in BOOLEAN

\* POST /inventory/items: the body names the first stock; no key is made.
ItemsCreated ==
    /\ stock \in [Items -> Opening]
    /\ ledger = stock
    /\ cached = {}
    /\ copy = [i \in Items |-> 0]
    /\ lost = {}

\* POST /purchases: a draft with its lines, of which nothing has come.
PurchaseCreated ==
    /\ purchase = "DRAFT"
    /\ received = [i \in Items |-> 0]
    /\ stocked = [i \in Items |-> 0]
    /\ doubled = [i \in Items |-> 0]

Init ==
    /\ ItemsCreated
    /\ PurchaseCreated
    /\ working \in BOOLEAN
    /\ overlap = FALSE
    /\ req = [w \in Workers |-> Idle]

-----------------------------------------------------------------------------
(* Reading: a request starts *)

Park(w, r) ==
    /\ req[w] = Idle
    /\ req' = [req EXCEPT ![w] = r]
    /\ UNCHANGED <<store, buying, working>>

\* findOne's answer: the key if it is live, otherwise the row.
Seen(i) == IF i \in cached THEN copy[i] ELSE stock[i]

ParkSeen(w, op, i, qty) ==
    Park(w, [op |-> op, i |-> i, qty |-> qty, seen |-> Seen(i), fill |-> i \notin cached])

ParkRow(w, op, i, qty) ==
    Park(w, [op |-> op, i |-> i, qty |-> qty, seen |-> stock[i], fill |-> FALSE])

\* GET /inventory/:id, and whatever fails after its findOne.
BeginGet(w, i) ==
    /\ i \notin cached
    /\ ParkSeen(w, "get", i, 0)

\* POST /inventory/:id/movements: an exit asks for stock, and for the id of
\* some order.
BeginMovement(w, i, type, qty) ==
    /\ type = "OUT" => Seen(i) >= qty
    /\ ParkSeen(w, type, i, qty)

\* PATCH /inventory/:id, with a new stock, which is written as an adjustment is,
\* and without.
BeginEdit(w, i, qty) == ParkSeen(w, "ADJUSTMENT", i, qty)

BeginTouch(w, i) == ParkSeen(w, "touch", i, 0)

\* POST /inventory/:id/reserve
BeginReserve(w, i, qty) ==
    /\ working
    /\ stock[i] >= qty
    /\ ParkRow(w, "reserve", i, qty)

\* POST /orders/:id/parts
BeginDispatch(w, i, qty) ==
    /\ working
    /\ stock[i] >= qty
    /\ ParkRow(w, "dispatch", i, qty)

\* Mutant: a cancelled purchase may still be received.
BeginReceiveCancelled(w, b) ==
    /\ purchase \in {"CONFIRMED", "SENT", "PARTIALLY_RECEIVED", "CANCELLED"}
    /\ \A i \in Items : b[i].sum > 0 => received[i] + b[i].max <= Ordered[i]
    /\ Park(w, [op |-> "receive", batch |-> b, base |-> received])

\* POST /purchases/:id/receive: every entry is compared with the quantity read
\* before the transaction.
BeginReceive(w, b) ==
    /\ purchase \in {"CONFIRMED", "SENT", "PARTIALLY_RECEIVED"}
    /\ \A i \in Items : b[i].sum > 0 => received[i] + b[i].max <= Ordered[i]
    /\ Park(w, [op |-> "receive", batch |-> b, base |-> received])

\* PATCH /purchases/:id/status
BeginStatus(w, to) ==
    /\ to \in VALID_TRANSITIONS[purchase]
    /\ Park(w, [op |-> "status", to |-> to])

-----------------------------------------------------------------------------
(* Writing: the rest of a request *)

\* findOne sets the key to the row it read.
Fill(w) ==
    /\ req[w].op \in {"get", "IN", "OUT", "ADJUSTMENT", "touch"}
    /\ req[w].fill
    /\ cached' = cached \cup {req[w].i}
    /\ copy' = [copy EXCEPT ![req[w].i] = req[w].seen]
    /\ req' = [req EXCEPT ![w] = IF req[w].op = "get" THEN Idle
                                 ELSE [req[w] EXCEPT !.fill = FALSE]]
    /\ UNCHANGED <<stock, ledger, lost, buying, working>>

\* The transaction of w on its item: the stock becomes s, the theory l; the
\* key is dropped after it.
Store(w, ops, s, l) ==
    /\ req[w].op \in ops
    /\ ~req[w].fill
    /\ {s, l} \subseteq -MaxUnits..MaxUnits
    /\ stock' = [stock EXCEPT ![req[w].i] = s]
    /\ ledger' = IF overlap THEN stock' ELSE [ledger EXCEPT ![req[w].i] = l]
    /\ req' = [req EXCEPT ![w] = [op |-> "written", drop |-> {req[w].i}]]
    /\ UNCHANGED <<cached, copy, lost, buying, working>>

CommitIn(w) ==
    Store(w, {"IN"}, req[w].seen + req[w].qty, ledger[req[w].i] + req[w].qty)

CommitOut(w) ==
    Store(w, {"OUT", "dispatch"}, req[w].seen - req[w].qty, ledger[req[w].i] - req[w].qty)

CommitAbsolute(w) == Store(w, {"ADJUSTMENT"}, req[w].qty, req[w].qty)

CommitTouch(w) == Store(w, {"touch"}, stock[req[w].i], ledger[req[w].i])

\* The only exit written as a decrement.
CommitReserve(w) ==
    Store(w, {"reserve"}, stock[req[w].i] - req[w].qty, ledger[req[w].i] - req[w].qty)

\* The bounds leave room for n more units of i.
Bounded(i, n) ==
    /\ {stock[i] + n, ledger[i] + n} \subseteq -MaxUnits..MaxUnits
    /\ stocked[i] + n <= MaxStocked

Touched(b) == {i \in Items : b[i].sum > 0}

\* Mutant: receivedQty is incremented like the stock, by every entry.
CommitReceiveIncrement(w) ==
    /\ req[w].op = "receive"
    /\ LET b == req[w].batch IN
         /\ \A i \in Items : Bounded(i, b[i].sum)
         /\ stock' = [i \in Items |-> stock[i] + b[i].sum]
         /\ ledger' = IF overlap THEN stock' ELSE [i \in Items |-> ledger[i] + b[i].sum]
         /\ stocked' = [i \in Items |-> stocked[i] + b[i].sum]
         /\ received' = [i \in Items |-> received[i] + b[i].sum]
         /\ doubled' = doubled
         /\ req' = [req EXCEPT ![w] = [op |-> "recheck", drop |-> Touched(b)]]
    /\ UNCHANGED <<cached, copy, lost, purchase, working>>

\* Every entry increments the stock; receivedQty is overwritten from the earlier
\* read, so that of two entries for a line only the last is counted.
CommitReceive(w) ==
    /\ req[w].op = "receive"
    /\ LET b == req[w].batch IN
         /\ \A i \in Items : Bounded(i, b[i].sum)
         /\ stock' = [i \in Items |-> stock[i] + b[i].sum]
         /\ ledger' = IF overlap THEN stock' ELSE [i \in Items |-> ledger[i] + b[i].sum]
         /\ stocked' = [i \in Items |-> stocked[i] + b[i].sum]
         /\ received' = [i \in Items |-> IF i \in Touched(b) THEN req[w].base[i] + b[i].last
                                         ELSE received[i]]
         /\ doubled' = [i \in Items |-> doubled[i] + b[i].sum - b[i].last]
         /\ req' = [req EXCEPT ![w] = [op |-> "recheck", drop |-> Touched(b)]]
    /\ UNCHANGED <<cached, copy, lost, purchase, working>>

\* Mutant: the key survives the write.
DropNothing(w, i) ==
    /\ req[w].op \in {"written", "recheck"}
    /\ i \in req[w].drop
    /\ req' = [req EXCEPT ![w] = IF req[w] = [op |-> "written", drop |-> {i}] THEN Idle
                                 ELSE [req[w] EXCEPT !.drop = @ \ {i}]]
    /\ UNCHANGED <<store, buying, working>>

Drop(w, i) ==
    /\ req[w].op \in {"written", "recheck"}
    /\ i \in req[w].drop
    /\ cached' = cached \ {i}
    /\ copy' = [copy EXCEPT ![i] = 0]
    /\ req' = [req EXCEPT ![w] = IF req[w] = [op |-> "written", drop |-> {i}] THEN Idle
                                 ELSE [req[w] EXCEPT !.drop = @ \ {i}]]
    /\ UNCHANGED <<stock, ledger, lost, buying, working>>

\* The reception reads the lines again and chooses the purchase's status.
Recheck(w) ==
    /\ req[w] = [op |-> "recheck", drop |-> {}]
    /\ LET all == \A i \in Items : received[i] >= Ordered[i]
           some == \E i \in Items : received[i] > 0
       IN req' = [req EXCEPT ![w] =
                    IF all THEN [op |-> "status", to |-> "RECEIVED"]
                    ELSE IF some THEN [op |-> "status", to |-> "PARTIALLY_RECEIVED"]
                    ELSE Idle]
    /\ UNCHANGED <<store, buying, working>>

CommitStatus(w) ==
    /\ req[w].op = "status"
    /\ purchase' = req[w].to
    /\ req' = [req EXCEPT ![w] = Idle]
    /\ UNCHANGED <<store, received, stocked, doubled, working>>

-----------------------------------------------------------------------------
\* The order the requests name enters or leaves IN_PROGRESS.
OrderMoves ==
    /\ working' = ~working
    /\ UNCHANGED <<store, buying, req>>

\* ITEM_CACHE_TTL
Expire(i) ==
    /\ i \in cached
    /\ cached' = cached \ {i}
    /\ copy' = [copy EXCEPT ![i] = 0]
    /\ UNCHANGED <<stock, ledger, lost, buying, working, req>>

\* A request dies, or one of its calls fails: a transaction not yet committed
\* leaves no trace, keys not yet dropped stay.
Fail(w) ==
    /\ req[w] # Idle
    /\ lost' = IF req[w].op \in {"written", "recheck"} /\ ~overlap THEN lost \cup req[w].drop
               ELSE lost
    /\ req' = [req EXCEPT ![w] = Idle]
    /\ UNCHANGED <<stock, ledger, cached, copy, buying, working>>

Begin(w) ==
    \/ \E i \in Items : BeginGet(w, i) \/ BeginTouch(w, i)
    \/ \E i \in Items, type \in {"IN", "OUT", "ADJUSTMENT"}, q \in Qty :
         BeginMovement(w, i, type, q)
    \/ \E i \in Items, q \in Qty :
         BeginEdit(w, i, q) \/ BeginReserve(w, i, q) \/ BeginDispatch(w, i, q)
    \/ \E b \in Batches : BeginReceive(w, b)
    \/ \E to \in PurchaseStatus : BeginStatus(w, to)

Continue(w) ==
    \/ Fill(w)
    \/ CommitIn(w) \/ CommitOut(w) \/ CommitAbsolute(w) \/ CommitTouch(w) \/ CommitReserve(w)
    \/ CommitReceive(w)
    \/ \E i \in Items : Drop(w, i)
    \/ Recheck(w)
    \/ CommitStatus(w)

Next ==
    \/ OrderMoves /\ UNCHANGED overlap
    \/ \E i \in Items : Expire(i) /\ UNCHANGED overlap
    \/ \E w \in Workers :
         \/ Begin(w) /\ overlap' = (overlap \/ Busy # {})
         \/ (Continue(w) \/ Fail(w)) /\ UNCHANGED overlap

Spec == Init /\ [][Next]_vars

-----------------------------------------------------------------------------
(* What holds however the requests interleave *)

\* Receptions that overwrite each other's receivedQty may lose a count, never
\* invent one: a line shows no more than was ordered, nor than came into stock
\* by the last entries of receptions.
ReceiptsBacked ==
    \A i \in Items :
        /\ received[i] <= Ordered[i]
        /\ received[i] + doubled[i] <= stocked[i]

\* The inductive invariant behind it: a reception in flight started from a
\* count that was backed, and each of its entries fits on top of that count.
ReceiptOK(r) ==
    r.op = "receive" =>
        \A i \in Items :
            /\ r.base[i] + doubled[i] <= stocked[i]
            /\ r.batch[i].sum > 0 => r.base[i] + r.batch[i].max <= Ordered[i]

ReceiptInv ==
    /\ RowsOK
    /\ ReceiptsBacked
    /\ \A w \in Workers : ReceiptOK(req[w])

-----------------------------------------------------------------------------
(* What holds as long as requests do not overlap *)

\* The kardex: an item whose key was always dropped after a write has the stock
\* its movements, edits, dispatches and receptions add up to, even though
\* movements are computed from the cached copy.
LedgerHolds == \A i \in Items \ lost : stock[i] = ledger[i]

LedgerMatches == ~overlap => LedgerHolds

\* "Stock no puede ser negativo": no sequence of requests drives a stock below
\* zero, not even one that decides on a stale copy.
NoStockBelowZero == \A i \in Items : stock[i] >= 0

StockNonNegative == ~overlap => NoStockBelowZero

\* Stock is what the kardex says, and never less than nothing.
StockIsBooked == LedgerMatches /\ StockNonNegative

\* "Cantidad recibida excede la ordenada" is refused against the count, so what
\* comes into stock beyond an order is what the count misses.  Across partial
\* receptions and crashes that is exactly the earlier entries of receptions that
\* name a line twice, each of which is compared alone: without such a reception
\* no line is stocked beyond its order.
AllCounted == \A i \in Items : stocked[i] = received[i] + doubled[i]

StockedAsCounted == ~overlap => AllCounted

\* A purchase never counts more than came in or was ordered, and until receptions
\* overlap it misses nothing but the earlier entries of a line named twice.
ReceiptsHold == ReceiptsBacked /\ StockedAsCounted

\* What the request under way still knows when it writes.
SnapshotOK(r) ==
    /\ r.op \in {"get", "IN", "OUT", "ADJUSTMENT", "touch"} =>
         r.seen >= 0 /\ (r.i \notin lost => r.seen = stock[r.i])
    /\ r.op \in Withdrawals => r.seen >= r.qty
    /\ r.op \in {"reserve", "dispatch"} => r.seen = stock[r.i]
    /\ r.op = "receive" => r.base = received
    /\ r.op \in {"receive", "recheck", "status"} => purchase \notin Final

CacheOK ==
    \A i \in cached :
        /\ copy[i] >= 0
        /\ \/ i \in lost
           \/ copy[i] = stock[i]
           \/ \E w \in Workers : req[w].op \in {"written", "recheck"} /\ i \in req[w].drop

SerialInv ==
    /\ RowsOK
    /\ NoStockBelowZero
    /\ LedgerHolds
    /\ AllCounted
    /\ CacheOK
    /\ \A w \in Workers : SnapshotOK(req[w])

\* The inductive invariant: until two requests overlap there is one at most, and
\* what it read still holds.
AloneInv ==
    ~overlap =>
        /\ SerialInv
        /\ \A v, w \in Busy : v = w

\* A purchase that is RECEIVED or CANCELLED stays so, whatever receptions and
\* status changes follow or were cut short.
PurchaseFinal == [][~overlap /\ purchase \in Final => purchase' = purchase]_vars

=============================================================================
