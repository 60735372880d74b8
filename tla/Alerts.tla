------------------------------- MODULE Alerts -------------------------------
(***************************************************************************)
(* Telling people: the jobs that expenses, cash closings, dispatches and   *)
(* completions put on BullMQ queues, the two processors that take them,    *)
(* the events they and the handlers emit to the dashboards, and the cron   *)
(* that repeats low stock.                                                 *)
(*                                                                         *)
(* A handler writes its row and then adds its jobs in calls of their own:  *)
(* the calls that are left are a slot in req.  Jobs are tried once, as the *)
(* queues' options say; a job whose worker dies is taken once more.        *)
(***************************************************************************)
EXTENDS Naturals, Sequences, FiniteSets, Requests

CONSTANTS
    Expenses,   \* rows of expense_authorizations
    Tills,      \* rows of cashbox_sessions
    Items,      \* inventory items
    ActiveItems,    \* those with isActive, which no route changes
    Orders,     \* work orders
    minStock,   \* InventoryItem.minStock
    MaxStock,   \* bound: stock of an item
    MaxCompletions, \* bound: how often one order is completed, those under way included
    MaxFaults   \* bound: jobs stalled, and expenses and completions lost

ASSUME BoundsAssumption ==
    /\ ActiveItems \subseteq Items
    /\ minStock \in Nat /\ MaxStock \in Nat
    /\ MaxCompletions \in Nat /\ MaxFaults \in Nat

VARIABLES
    expense,    \* "none", "small" (paid at once) or "pending", as it was created: nothing
                \* here looks at what is decided later
    suspicious, \* expenses of a suspicious amount or category
    blocked,    \* sessions with status BLOCKED
    stock,      \* InventoryItem.stock
    working,    \* orders with status IN_PROGRESS
    completing, \* requests that have read an order as IN_PROGRESS and not written it yet
    completed,  \* what complete-work-order has written: an order, and the how-manieth time
    job,        \* where each job is: "none" (not added yet, or over), "waiting",
                \* "active", "handled" (its work done, not yet acknowledged)
    stalled,    \* jobs whose worker has died once
    told,       \* what has been emitted to the dashboards
    warned,     \* items of which the cron has told since they last fell to minStock
    trail,      \* WORK_ORDER_COMPLETED rows of each completion written by the worker
    lost        \* observer: expenses and completions whose request or whose job failed

money == <<expense, suspicious, blocked>>
work == <<working, completing, completed>>
queues == <<job, stalled>>
emitted == <<told, warned>>
alertsVars == <<expense, suspicious, blocked, stock, working, completing, completed,
                job, stalled, told, warned, trail, lost, req>>

-----------------------------------------------------------------------------
\* The completions of an order are numbered; each job names its own.
Completions == Orders \X (1..MaxCompletions)

\* A job: its name and what it is about.
ApprovalJob == {"expense-approval-required", "suspicious-expense"} \X Expenses
BlockedJob == {"cashbox-blocked"} \X Tills
LowStockJob == {"low-stock-alert"} \X Items
EfficiencyJob == {"mechanic-efficiency"} \X Completions

\* The jobs that are followed.  AlertDispatcherProcessor does not know the others by
\* name: it takes them, logs them and is done.
Job == ApprovalJob \cup EfficiencyJob
UnknownJob == BlockedJob \cup LowStockJob

Queue(j) == IF j \in ApprovalJob THEN "alert-dispatcher" ELSE "audit-events"

Event == {"approval:requested", "alert:security", "anomaly:detected"} \X (Expenses \cup Tills)

\* What a handler has left to do, in this order.
Call == [do : {"add"}, job : Job \cup UnknownJob] \cup [do : {"emit", "block"}, s : Tills]

AlertsTypeOK ==
    /\ expense    \in [Expenses -> {"none", "small", "pending"}]
    /\ suspicious \in SUBSET Expenses
    /\ blocked    \in SUBSET Tills
    /\ stock      \in [Items -> 0..MaxStock]
    /\ working    \in SUBSET Orders
    /\ completing \in [Orders -> 0..MaxCompletions]
    /\ completed  \in SUBSET Completions
    /\ job        \in [Job -> {"none", "waiting", "active", "handled"}]
    /\ stalled    \in SUBSET Job
    /\ told       \in SUBSET Event
    /\ warned     \in SUBSET Items
    /\ trail      \in [Completions -> 0..2]
    /\ lost       \in SUBSET (Expenses \cup Completions)
    /\ req        \in [Workers -> Seq(Call)]

AlertsInit ==
    /\ expense    = [e \in Expenses |-> "none"]
    /\ suspicious = {}
    /\ blocked    = {}
    /\ stock      = [i \in Items |-> MaxStock]
    /\ working    = {}
    /\ completing = [o \in Orders |-> 0]
    /\ completed  = {}
    /\ job        = [j \in Job |-> "none"]
    /\ stalled    = {}
    /\ told       = {}
    /\ warned     = {}
    /\ trail      = [c \in Completions |-> 0]
    /\ lost       = {}
    /\ req        = [w \in Workers |-> <<>>]

-----------------------------------------------------------------------------
(* The handlers *)

\* w's request has written its row and is left with the calls cs.
Leave(w, cs) ==
    /\ req[w] = <<>>
    /\ req' = [req EXCEPT ![w] = cs]
    /\ UNCHANGED <<queues, told, trail, lost>>

Add(j) == [do |-> "add", job |-> j]

\* Mutant: a small expense is announced like any other.
CreateExpenseAnnounced(w, e, small, isSuspicious) ==
    /\ expense[e] = "none"
    /\ expense' = [expense EXCEPT ![e] = IF small THEN "small" ELSE "pending"]
    /\ suspicious' = IF isSuspicious THEN suspicious \cup {e} ELSE suspicious
    /\ Leave(w, <<Add(<<"expense-approval-required", e>>)>>)
    /\ UNCHANGED <<blocked, stock, work, warned>>

\* POST /finance/expenses: below S/ 100 it is paid and nobody is asked.
CreateExpense(w, e, small, isSuspicious) ==
    /\ expense[e] = "none"
    /\ expense' = [expense EXCEPT ![e] = IF small THEN "small" ELSE "pending"]
    /\ suspicious' = IF isSuspicious THEN suspicious \cup {e} ELSE suspicious
    /\ LET ask == Add(<<"expense-approval-required", e>>)
           warn == Add(<<"suspicious-expense", e>>)
       IN  Leave(w, IF small THEN <<>> ELSE IF isSuspicious THEN <<warn, ask>> ELSE <<ask>>)
    /\ UNCHANGED <<blocked, stock, work, warned>>

\* Mutant: the row is blocked before anybody is told.
BlockSessionFirst(w, s) ==
    /\ s \notin blocked
    /\ Leave(w, <<[do |-> "block", s |-> s], Add(<<"cashbox-blocked", s>>),
                  [do |-> "emit", s |-> s]>>)
    /\ UNCHANGED <<money, stock, work, warned>>

\* POST /finance/cashbox/close with a major discrepancy, after its audit row
BlockSession(w, s) ==
    /\ s \notin blocked
    /\ Leave(w, <<Add(<<"cashbox-blocked", s>>), [do |-> "emit", s |-> s],
                  [do |-> "block", s |-> s]>>)
    /\ UNCHANGED <<money, stock, work, warned>>

\* POST /orders/:id/dispatch-parts: an item strictly below its minStock is put on
\* the queue.
Dispatch(w, i) ==
    /\ stock[i] > 0
    /\ stock' = [stock EXCEPT ![i] = @ - 1]
    /\ Leave(w, IF stock'[i] < minStock THEN <<Add(<<"low-stock-alert", i>>)>> ELSE <<>>)
    /\ UNCHANGED <<money, work, warned>>

Low(i) == stock[i] <= minStock

\* Goods come in: a reception, a movement IN or an adjustment.
Restock(i) ==
    /\ stock[i] < MaxStock
    /\ stock' = [stock EXCEPT ![i] = @ + 1]
    /\ warned' = IF stock'[i] > minStock THEN warned \ {i} ELSE warned
    /\ UNCHANGED <<money, work, queues, told, trail, lost, req>>

\* The bound on completions leaves room for another.
Room(o) == completing[o] < MaxCompletions /\ <<o, MaxCompletions - completing[o]>> \notin completed

\* PATCH /orders/:id and the other routes put an order to work, back to work or on hold.
SetStatus(o) ==
    /\ Room(o)
    /\ working' \in {working \cup {o}, working \ {o}}
    /\ UNCHANGED <<money, stock, completing, completed, queues, emitted, trail, lost, req>>

\* POST /orders/:id/complete-work reads the order ...
BeginComplete(o) ==
    /\ o \in working /\ Room(o)
    /\ completing' = [completing EXCEPT ![o] = @ + 1]
    /\ UNCHANGED <<money, stock, working, completed, queues, emitted, trail, lost, req>>

\* Mutant: the job is added twice.
CommitCompleteTwice(w, o) ==
    /\ completing[o] > 0
    /\ completing' = [completing EXCEPT ![o] = @ - 1]
    /\ working' = working \ {o}
    /\ \E n \in 1..MaxCompletions :
         /\ <<o, n>> \notin completed
         /\ n > 1 => <<o, n - 1>> \in completed
         /\ completed' = completed \cup {<<o, n>>}
         /\ LET report == Add(<<"mechanic-efficiency", <<o, n>> >>)
            IN Leave(w, <<report, report>>)
    /\ UNCHANGED <<money, stock, warned>>

\* ... and writes it by its id, whatever it has become, and is left with a job.
CommitComplete(w, o) ==
    /\ completing[o] > 0
    /\ completing' = [completing EXCEPT ![o] = @ - 1]
    /\ working' = working \ {o}
    /\ \E n \in 1..MaxCompletions :
         /\ <<o, n>> \notin completed
         /\ n > 1 => <<o, n - 1>> \in completed
         /\ completed' = completed \cup {<<o, n>>}
         /\ Leave(w, <<Add(<<"mechanic-efficiency", <<o, n>> >>)>>)
    /\ UNCHANGED <<money, stock, warned>>

\* A request fails before it has written.
AbandonComplete(o) ==
    /\ completing[o] > 0
    /\ completing' = [completing EXCEPT ![o] = @ - 1]
    /\ UNCHANGED <<money, stock, working, completed, queues, emitted, trail, lost, req>>

-----------------------------------------------------------------------------
(* The calls that are left *)

First(w) == Head(req[w])

Done(w) == req' = [req EXCEPT ![w] = Tail(@)]

\* The job is put on its queue; each is added once.
AddJob(w) ==
    /\ req[w] # <<>> /\ First(w).do = "add"
    /\ job' = [j \in Job |-> IF j = First(w).job THEN "waiting" ELSE job[j]]
    /\ Done(w)
    /\ UNCHANGED <<money, stock, work, stalled, emitted, trail, lost>>

EmitBlocked(w) ==
    /\ req[w] # <<>> /\ First(w).do = "emit"
    /\ told' = told \cup {<<"anomaly:detected", First(w).s>>}
    /\ Done(w)
    /\ UNCHANGED <<money, stock, work, queues, warned, trail, lost>>

CommitBlocked(w) ==
    /\ req[w] # <<>> /\ First(w).do = "block"
    /\ blocked' = blocked \cup {First(w).s}
    /\ Done(w)
    /\ UNCHANGED <<expense, suspicious, stock, work, queues, emitted, trail, lost>>

\* The jobs a request has still to add, and what they are about.
Subjects(cs) == {j[2] : j \in {j \in Job : \E k \in DOMAIN cs : cs[k] = Add(j)}}

\* The bound on what goes wrong in one behaviour.
MayFail == Cardinality(stalled) + Cardinality(lost) < MaxFaults

\* Redis or the database fails, or the process dies.
AlertsFail(w) ==
    /\ req[w] # <<>>
    /\ req' = [req EXCEPT ![w] = <<>>]
    /\ lost' = lost \cup Subjects(req[w])
    /\ lost' # lost => MayFail
    /\ UNCHANGED <<money, stock, work, queues, emitted, trail>>

-----------------------------------------------------------------------------
(* The processors *)

\* A processor takes one job of its queue at a time.
Take(j) ==
    /\ job[j] = "waiting"
    /\ \A k \in Job : Queue(k) = Queue(j) => job[k] \notin {"active", "handled"}
    /\ job' = [job EXCEPT ![j] = "active"]
    /\ UNCHANGED <<money, stock, work, stalled, emitted, trail, lost, req>>

\* What AlertDispatcherProcessor emits for a job; AuditLogWorker emits nothing.
Emits(j) ==
    CASE j[1] = "expense-approval-required" -> {<<"approval:requested", j[2]>>}
      [] j[1] = "suspicious-expense" -> {<<"alert:security", j[2]>>}
      [] OTHER -> {}

Process(j) ==
    /\ job[j] = "active"
    /\ job' = [job EXCEPT ![j] = "handled"]
    /\ told' = told \cup Emits(j)
    /\ trail' = IF j[1] = "mechanic-efficiency" THEN [trail EXCEPT ![j[2]] = @ + 1] ELSE trail
    /\ UNCHANGED <<money, stock, work, stalled, warned, lost, req>>

Finish(j) ==
    /\ job[j] = "handled"
    /\ job' = [job EXCEPT ![j] = "none"]
    /\ UNCHANGED <<money, stock, work, stalled, emitted, trail, lost, req>>

\* The processor throws: there is no second attempt.
FailJob(j) ==
    /\ MayFail
    /\ job[j] = "active"
    /\ job' = [job EXCEPT ![j] = "none"]
    /\ lost' = lost \cup {j[2]}
    /\ UNCHANGED <<money, stock, work, stalled, emitted, trail, req>>

\* The process of the worker dies before the job is finished: by BullMQ's rule it
\* is taken again, once.
Stall(j) ==
    /\ MayFail
    /\ job[j] \in {"active", "handled"}
    /\ stalled' = stalled \cup {j}
    /\ job' = [job EXCEPT ![j] = IF j \in stalled THEN "none" ELSE "waiting"]
    /\ lost' = IF j \in stalled THEN lost \cup {j[2]} ELSE lost
    /\ UNCHANGED <<money, stock, work, emitted, trail, req>>

\* Mutant: only the items strictly below, as dispatch counts.
CheckInventoryBelow ==
    /\ warned' = warned \cup {i \in ActiveItems : stock[i] < minStock}
    /\ UNCHANGED <<money, stock, work, queues, told, trail, lost, req>>

\* InventoryAlertWorker, every six hours: the active items, those at minStock too.
CheckInventoryLevels ==
    /\ warned' = warned \cup {i \in ActiveItems : Low(i)}
    /\ UNCHANGED <<money, stock, work, queues, told, trail, lost, req>>

-----------------------------------------------------------------------------
Handler(w) ==
    \/ \E e \in Expenses, small, isSuspicious \in BOOLEAN : CreateExpense(w, e, small, isSuspicious)
    \/ \E s \in Tills : BlockSession(w, s)
    \/ \E i \in Items : Dispatch(w, i)
    \/ \E o \in Orders : CommitComplete(w, o)

Continue(w) == AddJob(w) \/ EmitBlocked(w) \/ CommitBlocked(w)

Processor(queue) == \E j \in queue : Take(j) \/ Process(j) \/ Finish(j)

AlertsNext ==
    \/ \E w \in Workers : Handler(w) \/ Continue(w) \/ AlertsFail(w)
    \/ \E i \in Items : Restock(i)
    \/ \E o \in Orders : SetStatus(o) \/ BeginComplete(o) \/ AbandonComplete(o)
    \/ Processor(ApprovalJob) \/ Processor(EfficiencyJob)
    \/ \E j \in Job : FailJob(j) \/ Stall(j)
    \/ CheckInventoryLevels

\* A handler that is left with calls makes them, a processor goes on as long as its
\* queue has jobs, and the cron comes back; nothing forces a request or a decision.
Fairness ==
    /\ \A w \in Workers : WF_alertsVars(Continue(w))
    /\ WF_alertsVars(Processor(ApprovalJob))
    /\ WF_alertsVars(Processor(EfficiencyJob))
    /\ WF_alertsVars(CheckInventoryLevels)

AlertsSpec == AlertsInit /\ [][AlertsNext]_alertsVars /\ Fairness

-----------------------------------------------------------------------------
\* "Caja bloqueada": no session is BLOCKED before the dashboards have been told,
\* whichever of the calls in between fails.
BlockedIsTold == \A s \in blocked : <<"anomaly:detected", s>> \in told

\* Whatever is lost, repeated or late, an approval is asked for only of an expense
\* that needed one, a security alert is only about a suspicious expense, and each audit row
\* of the worker belongs to a completion of the order, of which there may be several,
\* at once or one after the other; a completion has two only after a stall.
ToldIsTrue ==
    /\ \A e \in Expenses :
         /\ <<"approval:requested", e>> \in told => expense[e] = "pending"
         /\ <<"alert:security", e>> \in told => e \in suspicious
    /\ \A c \in Completions :
         /\ trail[c] > 0 => c \in completed
         /\ trail[c] > 1 => <<"mechanic-efficiency", c>> \in stalled

\* What has to reach somebody does, unless a call of its request or its job failed:
\* an expense that waits for approval, the suspicion about it, the audit row of each
\* completion; and, whatever was lost, each shortage of an active item that goods
\* coming in do not end before the cron sees it.
AlertsArrive ==
    /\ \A e \in Expenses :
         expense[e] = "pending" ~>
             \/ /\ <<"approval:requested", e>> \in told
                /\ e \in suspicious => <<"alert:security", e>> \in told
             \/ e \in lost
    /\ \A c \in Completions : c \in completed ~> (trail[c] > 0 \/ c \in lost)
    /\ \A i \in ActiveItems : Low(i) ~> (i \in warned \/ ~Low(i))

-----------------------------------------------------------------------------
(* The inductive invariant of the two safety properties *)

Requested(e) == expense[e] = "pending"

\* Nobody has begun the job of a completion.
Fresh(c) ==
    LET j == <<"mechanic-efficiency", c>>
    IN c \in completed /\ job[j] = "none" /\ j \notin stalled /\ trail[c] = 0

\* What a request may have left, and what is then true.
Asking(w) ==
    \E e \in Expenses :
        LET ask == Add(<<"expense-approval-required", e>>)
            warn == Add(<<"suspicious-expense", e>>)
        IN Requested(e) /\ (req[w] = <<ask>> \/ (e \in suspicious /\ req[w] = <<warn, ask>>))

Blocking(w) ==
    \E s \in Tills :
        LET emit == [do |-> "emit", s |-> s]
            block == [do |-> "block", s |-> s]
        IN \/ req[w] \in {<<Add(<<"cashbox-blocked", s>>), emit, block>>, <<emit, block>>}
           \/ <<"anomaly:detected", s>> \in told /\ req[w] = <<block>>

Warning(w) == \E i \in Items : req[w] = <<Add(<<"low-stock-alert", i>>)>>

\* One request, and no other, will put the job of a completion on its queue.
Reporting(w) ==
    \E c \in Completions :
        LET report == <<Add(<<"mechanic-efficiency", c>>)>>
        IN req[w] = report /\ Fresh(c) /\ \A v \in Workers : req[v] = report => v = w

CallsAreTrue ==
    \A w \in Workers : req[w] = <<>> \/ Asking(w) \/ Blocking(w) \/ Warning(w) \/ Reporting(w)

\* What is on the queues, and how far the job of a completion has come.
JobsAreTrue ==
    /\ \A e \in Expenses :
         /\ job[<<"expense-approval-required", e>>] # "none" => Requested(e)
         /\ job[<<"suspicious-expense", e>>] # "none" => e \in suspicious
    /\ \A c \in Completions :
         LET j == <<"mechanic-efficiency", c>>
             dead == IF j \in stalled THEN 1 ELSE 0
         IN /\ job[j] # "none" \/ j \in stalled => c \in completed
            /\ job[j] \in {"waiting", "active"} => trail[c] <= dead
            /\ job[j] = "handled" => trail[c] <= dead + 1

AlertsInv ==
    /\ AlertsTypeOK
    /\ CallsAreTrue
    /\ JobsAreTrue
    /\ BlockedIsTold
    /\ ToldIsTrue
=============================================================================
