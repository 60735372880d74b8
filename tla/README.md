# A verification project for the arellan-platform backend

The backend of a car workshop: NestJS on PostgreSQL (through Prisma), Redis, BullMQ and socket.io.
This directory holds TLA+ models of the parts of it where state, concurrency and money meet, the TLC
configurations that check them on small instances, and TLAPS proofs of what holds for instances of
every size. `PROJECT.json` maps each definition to the lines it stands for, lists the runs, the
hazards and the theorems.

## How the system behaves, and how the models follow it

Every request is handled by one asynchronous handler of a NestJS service. Several are in flight at
once, in one process and possibly in several. A handler has nearly always the same shape:

1. guards and reads: the rows it needs, outside any transaction or in a READ COMMITTED one without
   row locks, sometimes a cached copy in Redis;
2. a decision on that snapshot, with the early returns (4xx) that the guards make;
3. writes **by id**, in one statement or one `$transaction`, which do not test again what the
   decision rested on;
4. effects after the writes: audit rows, dropped cache keys, socket events, queued jobs.

So each module has a variable `req`, one slot per worker. `BeginX` is steps 1 and 2 in one go: its
guards are the handler's, and it leaves in the slot what the handler goes on to use. `CommitX` is a
write or a transaction. Where a handler makes several writes in a row each is an action of its own,
in the order of the code, and `Fail` may end a request between any two of them (a failed guard or
statement, a crash of the process). Between a Begin and its Commit any other request may run.

Two kinds of property follow, and each run checks both with two workers:

- those that survive every interleaving, stated plainly;
- those that hold only as long as requests do not race. They are guarded by an observer: `overlap`
  becomes true for good when two requests have been under way together; in `Costs`, `astray` when a
  handler has written although its row had changed since it read it; in `Sessions` the fields `by`
  and `closedBy` name the workers, so that a property can say that one worker alone does it never.
  With such a guard a property says exactly how much the code asks of its callers, and the behaviors
  in which nothing overlaps are among those of the run.

## Inventory of the system

| Part | State | Operations | What is hard | What must hold |
|---|---|---|---|---|
| Work orders and quotes (`orders`, `quotes`) | `work_orders.status`, mechanic, parts, amounts; `quotes` | create, check-in, PATCH, POST /status, delete, assign, progress, photos, quote and its approval, discount, dispatch, completion, delivery; the /quotes routes | Eleven routes write one status column, all by id; money columns written from whole-row reads; photos kept twice | Work starts by quote or PATCH; records match the gates passed; no unpaid release; hours billed once; final amount beyond the quote by no more than a discount below zero |
| Expense authorisation (`finance`) | `expense_authorizations`, audit rows, roles, tokens | create, approve, reject, role change, token refresh | Four signatures by threshold, two owners, stale role tokens, audit row written apart from the payment | Rank by amount; nobody pays what they asked for; two owners above S/ 2000 |
| Cash sessions (`finance`, `deliver-vehicle`) | `cashbox_sessions`, `financial_transactions`, audit rows | open, movement, desk payment, close (three levels), override | Check-then-insert, movements racing the count, audit before status | One open session; status, discrepancy and justification agree; audited blocks |
| Inventory and purchases | stock, movements, Redis copy, `purchases`, `receivedQty` | create, movement, edit, reserve, dispatch, receive, status | Absolute writes from cached or early reads, lost key deletions, unconditional status | Stock is what was booked, never below zero; receptions count what they stock, but for a line named twice; final purchases |
| Authentication (`auth`) | accounts, refresh tokens, MFA session tokens, Redis sessions | login, PIN, MFA, refresh, reuse detection, logout, revocation, password and role change | Refresh racing revocation; counters written from old reads; claims of two moments in one session | Rotation spends a token; wrong passwords lock; a new password closes old sessions; TOTP behind privilege |
| Billing (`invoices`, `payments`, QR webhook) | invoices, payments, `paymentStatus`, QR keys | create, issue, cancel, pay, verify, QR, webhook | Re-summing then writing; deliveries repeated, lost half way, late | Status rests on money; books agree; one payment per token |
| Realtime gateway | rooms, data of sockets | handshake, subscribe, progress, relay, broadcast, revoke | A socket outlives its token, role and orders; join after an await | Rights follow assignment; panels verified; expiry gains nothing |
| Queues and workers | jobs, what was emitted | add, process, stall, fail, crons | Row first, job after; one try; a job repeated after a stall; completions in flight together | Nothing untrue is told; what must be told is |
| Attendance, commissions | one row per day, commission status | check-in and -out by two services, biometric reader, verify; create, approve, pay | Two rules of lateness, marks dated days ago or ahead, midnight between day and stamp, pay after a stale test | Stamps agree; entries kept; paid only when approved |
| Guards, audit log, anti-fraud | audit rows, alerts | role and MFA checks, background checks, row after the answer | Swallowed failures, background work beside the handler, handlers that write and then throw | Every answered deed logged once; every flag told; no deed without TOTP unless somebody was promoted |
| Analytics, dashboards, master data, settings, bootstrapping | none of the business, caches | aggregate, CRUD | - | not modelled, see below |

The parts interact through rows and calls: the delivery desk writes a transaction in the open cash
session; dispatch writes the stock and the parts of an order; sending and approving quotes move
orders; payments cover an order's balance; role changes reach the expense desk when a token is
refreshed and sockets never; creating an expense and blocking a cash session queue jobs; access
tokens carry what the MFA interceptor and the gateway ask for.

## Modules

| Module | Models | Code |
|---|---|---|
| `WorkOrders` | An order and its quote under all its routes | `orders.service.ts`, `orders/use-cases/*`, `quotes.service.ts`, `work-order.entity.ts` |
| `Costs` | The money of an order: hours, costs, quote, discount, desk | the same files |
| `Intake` | Orders opened at desk and check-in, numbers, plate, photos | `orders.service.ts` |
| `Expenses` | Creation and approval of expenses, with roles and tokens | `finance.service.ts`, `personnel.service.ts`, `auth.service.ts` |
| `ExpenseControl` | What the expense desk promises | abstract specification, implemented by `Expenses` |
| `Cashbox` | Cash sessions, movements, desk payment, closing, override | `finance.service.ts`, `close-cashbox-session.use-case.ts`, `finance.controller.ts`, `deliver-vehicle.use-case.ts` |
| `Billing` | Invoice, payments, the order's payment status, QR and webhook | `invoices.service.ts`, `payments.service.ts`, `finance.service.ts`, `payment-webhook.controller.ts` |
| `Inventory` | Stock, its cached copy, purchases and receptions | `inventory.service.ts`, `purchases.service.ts`, `dispatch-parts-to-order.use-case.ts` |
| `Sessions` | Refresh tokens, their exchange, reuse and end, MFA, role changes | `auth.service.ts`, `personnel.service.ts` |
| `Accounts` | Passwords, the lock, PIN and TOTP, the exchange of a token, the changes of password and role | `auth.service.ts`, `personnel.service.ts` |
| `Trail` | Extends `Accounts` with the requests its tokens let in: guards, alerts, audit rows | `mfa-enforcement.interceptor.ts`, `roles.guard.ts`, `audit.interceptor.ts`, `anti-fraud.*.ts` |
| `Realtime` | Sockets, rooms, broadcasts | `realtime.gateway.ts` |
| `Alerts` | Jobs, processors, the low-stock cron | `queues`, `workers`, and the handlers that add jobs |
| `Staff` | Attendance and commissions | `attendance.service.ts`, `personnel.service.ts`, `process-biometric-attendance.use-case.ts`, `commissions.service.ts` |
| `Requests`, `Overlaps` | The slots of the requests under way, and whether two have been; extended by the others | every handler with an await |
| `MC*` | Bounds and symmetry for TLC | |
| `*Proofs` | Theorems of the module or modules they are named after | |

`Staff`, `Intake`, `Costs` and `Alerts` name their specification after themselves (`StaffSpec`, ...), so
that a module of proofs can extend two components; the others have `Init`, `Next` and `Spec`.

`Trail` composes the credentials of an account with the requests they open; `Expenses` refines
`ExpenseControl`. The other modules meet at single columns, named in each of them.

Each module carries definitions named after a mistake (`BeginDispatchAnyStatus`,
`CommitReceiveIncrement`, ...), marked "Mutant". They are not part of the specification: putting one
in the place of the definition that follows it must make TLC find a property violated, which shows
that the property can fail.

### WorkOrders

State: `status`, `quote`, `mechanic` and `balance` of each order, `been` (the gates it has passed),
`hasParts`, `completed`, `deskTx`. Money is a balance of three values (not priced, due, covered),
because validateVehicleDelivery only compares a total with a sum of payments. The reads that precede
a transaction are merged into one Begin, except in updateStatus, which reads the order a second time
(`CheckStatus`). Notifications, history rows and socket events are left out.

### Costs

The row of one order as the money handlers see it: labour, parts, total, discount, final amount, and
its only quote. A handler reads the row whole and writes some columns; `behind` says which requests
hold a row that was written since, and `astray` that one of them wrote. `totalCost` is nullable and so
a set of at most one value. A discount may be below zero, since the DTO sets no minimum: the handler
then raises the final amount (`Surcharge`). `Rate` is the fixed labour per reported hour.

### Intake

The orders of one vehicle. A number is the count plus one taken before the insert, the plate is
registered by a check-in that does not know it, and the unique keys of both refuse the second of two;
a refused insert is the failure of its request. `photo` is the table of photos, `column` the list in
the order. An image stands for a URL.

### Expenses and ExpenseControl

Amounts are in thousandths of a sol, because the level is decided on the amount of the request and
the column keeps two decimals (`Stored`). A user has a role in the table and one in the token, which
differ until the token is refreshed. `ExpenseControl` knows an expense, its votes and whether it is
paid; `Expenses!Control` is that specification under the mapping in the module, where a vote is a
signature written or carried by a request that is past its last check.

### Cashbox

`expected` keeps what closing computes from the rows: opening balance, payments minus expenses;
refunds and adjustments do not count, as in the code. Two closings of one session may overlap. The
override is in the controller (TOTP is its guard). The older `closeCashbox` of finance.service.ts is
not wired to a route and is left out.

### Billing

One order, its invoice, the payments registered for it. Registering is four calls (row, sum,
invoice, order); the webhook marks the token in Redis, inserts the payment, drops the QR key, and
both keys may expire at any time. `half` and `requoted` say when the books need not agree: a payment
died half way and none has come since, or the total was set again after the last payment. Taxes are
in the total. The number of the invoice is not carried.

### Inventory

One purchase with a line per item. `ledger` is the theoretical stock: the accepted changes applied
one after the other; `lost` remembers the items whose key was not dropped after a write. `cached`
and `copy` are the key in Redis; a miss reads the row and sets the key in a step of its own, which is
how an old value may be put back. A reception that names a line several times is described by the
last, the largest and the sum of its entries: the code overwrites receivedQty with the last, compares
each, and increments the stock by all. `doubled` keeps the units that only the stock has seen. A transaction over several items, which rolls back as a whole,
appears as its writes on one item (dispatch) or on all at once (reception).

### Sessions

One account, since no handler touches the tokens of two. A token stands for the pair of a refresh
token (`row` is its `revoked` column) and the access token signed with it. `claims` keeps what
generateTokens signs into the pair and, as history, which token it was exchanged for, which worker
made it and whether its login verified a TOTP code; `closedBy` says which worker ended a live token
otherwise than by exchanging it. A worker handles one request at a time, so two acts of one worker
never overlap: "no worker does it twice" says that only overlapping requests can. An exchange is
three steps (read, revoke, create). A handler that ends sessions reads only what cannot change back
(a row exists, a token is revoked), and so is one step; the enrolment keeps its steps. Refused logins
and expiry are requests that do not begin. The session keys in Redis are not carried, since nothing
reads them (`getActiveSessions` has no caller). Two pairs signed with the same claims in the same
second are the same JWT and collide on the unique column: the exchange has then revoked the old token
and made none, which is `Fail` after `Rotate`.

### Accounts and Trail

A password is the number of changes before it; a session is the password it was opened with and what
makes it count as verified: a TOTP code, a role without MFA, or nothing (`Factor`). The lock is
"none", "ahead" or "past" (fifteen minutes lapse at any moment). A login reads the account and writes
the counter, or what follows a right password, later. The exchange of a refresh token carries its
factor over and signs the role the account has by then, which `ChangeRole` may have moved; `promoted`
remembers a step from a role without MFA to one with it. Which token was exchanged, and its reuse, is
the subject of `Sessions`: here a session of a kind may be one of several, so an exchange may leave
its kind behind.

`Trail` lets a `Call` in when the role guard and the MFA interceptor do: a call is what the guards and
the four checks look at, namely the roles of its route, whether it manages the caller's own session,
its amount and area. The handler does its deed, refuses, or does it and throws afterwards (`Throw`: the
hash is written and the sessions cannot be revoked, the expense is there and the queue is not);
alerts are inserted one after another in the background; the row comes after an answer, and only
then; an insert may fail, and the process may crash with everything under way.

### Realtime

A socket keeps the claims of the token of its handshake, also after the connection is over; messages
are let in, read the order, and then join, report or relay. `given` remembers which orders a socket's
user has had since it connected. What the server broadcasts is a set of rooms per event (`ToBoard`,
`ToOrder`, `ToInspect`, `ToDelivered`), and the properties ask who hears it.

### Alerts

A handler's calls that are left after its row (add a job, emit, block the session) are a sequence in
`req`; `AlertsFail` drops them. A completion is read (`BeginComplete`) and written by id later
(`CommitComplete`), so that two may be in flight, and PATCH may put the order to work again
(`SetStatus`); the completions of an order are numbered and each has a job of its own. A job is waiting, active, handled (its work done but not acknowledged) or
gone; `Stall` puts a job whose worker died back once, as BullMQ does (it does its work again if that
had been done), and `FailJob` ends it, since the queues try once. Jobs of names no processor knows
are added and not followed further. Goods come in again (`Restock`), so that a shortage may be over
before the cron sees it; the cron reads active items only.

### Staff

`now` is the hour; a day has a few. A mark in the app names its day, reads the row of that day and takes
the time of the stamp only then (`BeginCheckIn`, `StampIn`): midnight may pass in between. Two routes
decide with two rules what is late. The reader's marks carry any time, days ago or ahead of the clock
(`ahead` remembers those). A row without an entry, recorded as an absence, may stand on any day and
keeps its type when the app finds it. A row per person and day is unique. The
panels of attendance.service.ts and personnel.service.ts are operators on the rows, so that the
stamps and both counts are compared.

## Runs

Every run takes what it can of the following: handlers interleaved at every read and write, requests
that die at every step, tokens, keys and locks that lapse at any moment.

| Run | Module | Shows |
|---|---|---|
| `orders` | `MCWorkOrders` | Whatever overlaps, work starts by quote or PATCH, and parts, quote and desk money match the gates passed; until overlap, moves obey the transition table and POST /status releases only paid vehicles |
| `costs` | `MCCosts` | As long as writes rest on the row as it is, hours are billed once, the order exceeds the quote (or zero) by no more than the last discount below zero unless its costs are patched, what was charged is what it cost |
| `intake` | `MCIntake` | Keys keep numbers gapless and plates single; the photo limit gives by one; without overlap a check-in meets no active order and the two lists of photos agree |
| `expenses` | `MCExpenses` | Four-eyes rules and the refinement of `ExpenseControl` |
| `cashbox` | `MCCashbox` | Status, discrepancy, justification and audit agree; until overlap one open session, complete books, unblocking by the owner |
| `billing` | `MCBilling` | PAID rests on money; until overlap the books agree and a token is paid once |
| `inventory` | `MCInventory` | Receptions invent nothing; until overlap the stock is what was booked, not below zero, a line is stocked as counted but for the earlier entries of one named twice, finished purchases final |
| `sessions` | `MCSessions` | Rotation spends tokens; only overlap buys a second successor or outlives a revocation; TOTP behind privilege unless promoted |
| `trail` | `MCTrail` | Wrong passwords lock; a new password closes old sessions; answered deeds logged, flags told; no deed without TOTP unless somebody was promoted |
| `realtime` | `MCRealtime` | Rooms follow assignments and verified roles; an expired connection gains nothing |
| `alerts` | `MCAlerts` | Nothing untrue is told; what has to reach somebody does, unless a call failed (liveness) |
| `staff` | `MCStaff` | Stamps, types and panels agree; entries are kept; a commission is paid when approved, once until overlap |

Bounds are constants, given in the .cfg or the MC module. Two workers throughout (one in `alerts`,
whose interleaving is between a handler, completions that have read their order, two processors and a
cron): every race in this code is of a
read of one request with a write of another, and a pair shows it; the theorems remove the bound.

- `orders`: one order, one mechanic, at most one desk payment (`MaxDesk`). Orders share no row, so one
  suffices. The cfg leaves out managers, who skip the scope check, and trainees, whose completion goes
  to IN_REVIEW: they add routes to states that PATCH reaches, and the theorems hold for any.
- `costs`: labour 2, no parts, customs 0 or 1, one per hour, up to `MaxLabor` 3, discounts -1, 0 or 3, none
  below zero that lifts the final amount beyond `MaxFinal` 3. A discount made before the costs are known
  may be more than they are, which makes a quote negative; the order then costs nothing, so the property
  compares with the quote or zero, whichever is more. Who may grant a discount is any caller for up to
  20 %, the owner above.
- `intake`: two orders, four photo rows, two images, a limit of two photos: the limit is reached, passed
  by a race, and a deletion finds a second photo of the same image.
- `expenses`: two owners and one of the staff; amounts from 99.996 to 2000.01 soles, on both sides of
  every limit and of its rounding.
- `cashbox`: two sessions (for "one open"), opening 51, a movement of 1 (`MaxTx` of them), cash 0, 46
  or 51: differences of 0, 4, 5, 50, 51 lie on both sides of the two limits.
- `billing`: two payments of 1, totals 1 and 2, one token: an invoice that one payment covers or two.
- `inventory`: one item, two ordered, opening 0 or 1; a reception leaves the line out, names it once with
  one or two, or twice with one; stock and ledger within `MaxUnits` 2 of zero, and receptions bring
  `MaxStocked` 4 units at most: twice what was ordered.
- `sessions`: three token pairs, a token and two successors; one privileged role and one other.
- `trail`: a privileged role and one without MFA, lock after two wrong passwords and three in a row, four
  requests on the account (`MaxRequests`), one change of password, any number of role changes, each of
  two calls let in once: a payment two checks flag, one alert of which may be lost and the other not,
  and a change of an order none does. Four requests reach a login by PIN, a promotion and an exchange.
- `realtime`: one socket, connected again and again with one token; two users, one order, four roles.
- `alerts`: one subject of each kind, two completions of the order (in flight together or one after the
  other), stock up to 2 with `minStock` 1, one fault in all.
- `staff`: one person, a day of three hours (before nine, nine, after) and the first hour of the next
  (`MaxTime` 3), absences on either day, one commission.

The largest are `costs`, `inventory` and `alerts`, which take two to four minutes on two cores.

### Fairness

Only `Alerts` assumes any, since only there does the code promise that something comes about. Weakly
fair are each handler's `Continue` (the event loop runs a continuation whose promise settled), each
queue's `Processor` (a BullMQ worker polls as long as there are jobs) and `CheckInventoryLevels` (a
@Cron of the process). Nothing forces a request, a decision, a failure or a stall; what fails is
recorded in `lost`, and `AlertsArrive` excuses just those subjects. Everywhere else a handler may
stop anywhere (`Fail`) and nothing in the code retries it, so no liveness is claimed.

## Proofs

All proofs are for arbitrary sets of workers, rows, users, sockets and tokens, and for every amount;
the assumptions are the named ASSUMEs of the modules (amounts are natural numbers, discounts
any integers, entries of a reception are as an array of quantities makes them, which may name a line
several times, `Nobody` is no user; the workers of `Intake` and
`Trail` and the orders of `Intake` are finite sets, since the properties count them; the limit of
photos is not zero, and a history of attendance is at least a day long). Where a theorem is about
what holds until two requests overlap, the observer is in its statement, and its inductive invariant
says `~overlap =>` the requests under way are one at most, and what it read is still so.

- `WorkOrdersProofs`: `GateInv` is inductive. The properties are about recorded state; to keep them,
  the invariant must also bound what each slot may still write: a dispatch in flight knows that its
  order has been in progress even if it no longer is, because `been` only grows. `SerialInv` gives
  the transition table and the paid release.
- `ExpensesStaffProofs`, of `Expenses`: `ExpenseInv` ties each slot past its check to a signature of the right rank by
  someone who is not the requester; from it follow authority, two owners, the truth of the audit
  row, and `ImplementsControl`: Init maps to Init, each step to a step of ExpenseControl or a
  stutter.
- `CashboxAlertsProofs`, of `Cashbox`: `CashInv` says that every row, and every closing about to be written over one,
  explains its status, and that the audit row is there before the row is blocked. `SerialInv` adds
  what a single request still knows of its session when it writes.
- `InventoryIntakeProofs`, of `Inventory`: `ReceiptInv` bounds a reception's early read by what has come into stock since,
  which only grows. `SerialInv` needs `CacheOK`: a live copy equals the row unless its deletion is
  pending or was lost. A reception that names a line twice is among them: what comes into stock is what
  is counted and `doubled` (`AllCounted`), and a count read early is still bounded by both.
- `SessionsProofs`: `SessionInv` says of an exchange in flight that its worker has neither ended the
  token it holds nor made another successor of it, and of roles that without a promotion a role once
  without MFA stays so.
- `BillingCostsProofs`, of `Billing`: `BackedInv` says that a sum read early is not more than what has come in since and
  a total read early is one the invoice has had, which no overlap undoes. `SerialInv` follows the books
  between the writes of a payment (`LedgerOK`) and says that a token which became a payment is marked
  or can be confirmed no more (`TokensOK`), whichever of its two keys expires first.
- `TrailProofs`: `AccountInv` and `TrailInv`. A login that is alone writes the counter it read plus
  one; a session about to be made without TOTP is of the present password. `AccountInv` looks only at
  the slots of the account's own requests, so it holds of the account alone (`AccountSpec`) and with
  the requests its tokens let in (`Spec`). `TrailInv` counts: rows written plus requests about to log
  are the deeds, and for each kind of alert those told plus the requests whose list still has it are
  the requests let in, unless one was lost. A request leaves the count of its kind exactly when the
  head of its list goes, because no list has a kind twice (`AlertsDiffer`, from the lemma that the
  four checks raise four kinds); what a handler did before it threw is set apart by `thrown`. As long as
  nobody was promoted, a privileged account has never been without MFA, so that no token, session or
  request under way of it is exempt (`NothingExempt`): what a request was let in with was verified by a
  code. For this the role read by a login must still be one with MFA, since a role may change meanwhile.
- `RealtimeProofs`: `RealtimeInv`. The claims of a token do not change once signed, `given` only grows
  while a socket is connected, and a message past its read rests on an order its user has had: so
  the join that comes late is still entitled. `ReachInv` adds what expiry needs: a panel's socket is in
  the dashboard room from the start.

- `BillingCostsProofs`, of `Costs`: `CostsInv`. While no stale write has gone astray, what a request not
  in `behind` has read is still in the row (`ReadStill`), and the one report between its event and its
  row owes just the hour it is about to bill (`HourIsOwed`). The bound by the quote needs a second
  one, of the total, for the discounts still to come.
- `CashboxAlertsProofs`, of `Alerts`: `AlertsInv`. What is left of a handler is a list of calls, and each
  such list has a reason in the rows: an expense that was requested, a session whose dashboards
  are told before the call that blocks it (`CallsAreTrue`). Each completion of an order has a number and
  a job of its own, which one request at most is about to add (`Reporting`). That job can run twice by a
  stall alone, so its audit rows are at most one more than the stalls it had (`JobsAreTrue`).
- `ExpensesStaffProofs`, of `Staff`: `StaffInv` follows a mark through its three steps. While the stamp is
  still to be taken, a row that was found without an entry is a recorded absence (`EntersOpen`), and one
  found with an entry keeps it (`LeavesOpen`); an exit about to be written does not precede the entry it found (`LeaveIsTrue`), because the clock only
  goes on and no entry but one dated ahead is still to come (`RowIsTrue`). Only an absence has its
  entry set later; two marks that meet on one are `Contested`.
- `InventoryIntakeProofs`, of `Intake`: `IntakeInv`. The unique key on numbers makes every number that a
  request carries at most the next one. Rows of an order plus the photos let through but not yet
  written (`Shooting`) stay within the limit plus the other requests: each that passes the check sees the
  rows below the limit, and every later one is counted. `ReadIsStill` follows the row and the column
  of a photo between the two writes.
The argument of a step is the same everywhere: a lemma says that a step which changes one row, or
one slot, and leaves that in order keeps the invariant; then there is one case per action.

Every safety and action property that a run checks is stated by a theorem. Only model-checked is
`AlertsArrive`: it is liveness under fairness, which with ENABLED is out of the prover's reach, as is
induction over data; no recursive operator is used in these modules, and the counts of `Intake` and
`Trail` are cardinalities, which steps change by one element, not sums over a set. The theorems say
nothing of the crons and caches named below.

## What the models bring to light

The properties are stated as the code keeps them. What they had to leave out, or guard, is behavior of
the code that its maintainers may want to know:

- Orders: approving a quote by /quotes reopens a cancelled order. Photos past the limit, two active
  orders of one vehicle and lost hours need two requests at once. A manual exit of stock does not ask
  whether its order is in progress.
- Costs: a discount below zero is accepted and lifts the final amount above the quote, without the owner;
  on a total of zero the owner's 20 % rule does not apply; a later smaller quote may leave the
  final amount negative; a PATCH followed by a discount of zero may lift it above the accepted quote;
  invoices.service.ts:99-103 takes the discount a second time; "Discount cannot exceed total cost
  before discount" of work-order.entity.ts is not enforced by the route; sending a quote again adds
  customs again; quotes drafted by POST /quotes are of total 0; approvals of type DISCOUNT are never
  applied to an order.
- Expenses: two decisions in flight may disburse what one of them rejected.
- Cash: two openings that overlap give two open sessions; a movement checked before a closing may be
  inserted after the count. finance.service.ts `closeCashbox` has no caller.
- Billing: the webhook marks its token before it inserts the payment, so that when the insert fails a
  retry is answered "already_processed" and no payment exists; two deliveries at once make two. Its
  default method "DYNAMIC_QR" is not in the enum. Overdue invoices are searched by a status nobody
  writes.
- Inventory: a reception that names a line twice is compared entry by entry and stocks both, while the
  line counts the last alone, in one request with nothing else under way; reservations in flight may drive a stock below zero, two dispatches may lose one; derived
  list caches are left to their TTL by edits, movements and receptions.
- Accounts: a session token of the TOTP step made before a change of password still opens a session;
  wrong codes are neither counted nor lock; after the fifteen minutes failedAttempts is still five, so
  that one wrong password locks again; exchanges of tokens do not look at the account's status, and
  changes of status or role end no session or socket. mfaVerified is carried through the exchange of a
  token, so that a mechanic promoted to a role with MFA who refreshes does what that role may, without a
  TOTP code, until the sessions end.
- Realtime: the room of a client is compared with the account's id while deliveries name the client's.
- Alerts: "low-stock-alert", "cashbox-blocked" and "quote-sent" jobs are of no effect, since no processor
  knows the names: only the cron tells of low stock. Two completions of an order in flight both pass the
  test of its status and both are reported; so is one that a PATCH put back to work.
- Audit: a handler that writes and then throws leaves no row, though nothing failed in the trail: the
  hash is changed and the sessions cannot be revoked (auth.service.ts:306-314), the expense is stored and
  the queue is down (finance.service.ts:173-223). The key list of generateMutationHash drops nested content; audit-anomaly filters entity
  "Finance" where the interceptor writes "finance", looks at five minutes of every hour and not at
  6 to 7 in the morning; rows of user "system" break the foreign key.
- Staff: a mark that waits over midnight stamps the next day on the row of the day before; the reader may
  date an entry ahead of the clock, before which the app then lets its owner leave; an absence that the
  app finds keeps the type ABSENT with an entry. Nine sharp is LATE by one route and PRESENT by the other; a vehicle that is out may be lent
  again and no route returns it; two payments of one commission both pass.

## Not modelled, and why

- Analytics and dashboards: read-only aggregates behind a cache bounded by a TTL.
- Clients, vehicles, settings, suppliers, personnel: CRUD of single rows, guarded by unique columns.
- LandedCost (the blended cost with customs) and the penalty arithmetic: pure formulas with no state.
- Vehicle loans: one unguarded insert; any property fails in a step.
- The anomaly, report, discrepancy and backup crons: they read tables and write a file or a log line.
- List caches, HTTP filters, rate limits, masking, bootstrapping, seeds: nothing the business rests on.

## Plan

1. Done: the fourteen modules above, their runs, and proofs of every safety property they check.
2. Abstract specifications of the cash session and of a family of refresh tokens, implemented by
   `Cashbox` and `Sessions` until two requests overlap, step by step as `Expenses` implements
   `ExpenseControl`.
3. `Sessions` composed with `Realtime`: revocation closes the sockets of the user.
4. `LandedCost` against a reference definition over bounded inputs.
