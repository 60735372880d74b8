-------------------------------- MODULE Staff --------------------------------
(***************************************************************************)
(* Attendance and commissions: the entries and exits of a worker, marked   *)
(* in the app by two services with two rules of what is late, or by the    *)
(* biometric reader, whose marks may come days later; and the life of a    *)
(* commission.                                                             *)
(*                                                                         *)
(* A handler names the day, reads its row, looks at the clock again for    *)
(* the stamp and writes later; midnight may pass between any two of these, *)
(* and only the unique key (personnelId, date) stands between two entries. *)
(***************************************************************************)
EXTENDS Integers, Overlaps

CONSTANTS
    Personnel,   \* workers
    Commissions, \* rows of commissions
    HoursPerDay, \* how finely a day is divided
    Nine,        \* nine o'clock, in these hours
    Limit,       \* startTime plus toleranceMinutes of attendance_schedule
    MaxTime      \* bound: the clock stops here

ASSUME ClockAssumption ==
    /\ HoursPerDay \in Nat \ {0}
    /\ MaxTime \in Nat
    /\ Nine \in 0..(HoursPerDay - 1) /\ Limit \in 0..(HoursPerDay - 1)

VARIABLES
    now,        \* hours since the first day
    row,        \* Attendance of each worker and day
    absent,     \* rows recorded without an entry beforehand
    ahead,      \* observer: rows whose entry was dated ahead of the clock
    verified,   \* rows with verifiedBy
    commission, \* Commission.status, "NONE" before the row exists
    paid        \* how often a payment of it was written to paidAt

attendance == <<row, absent, ahead, verified>>
payroll == <<commission, paid>>
staffVars == <<now, row, absent, ahead, verified, commission, paid, overlap, req>>

-----------------------------------------------------------------------------
Time == 0..MaxTime
Day(t) == t \div HoursPerDay
Hour(t) == t % HoursPerDay
Days == 0..Day(MaxTime)

\* A row; the entry and the exit are sets of at most one time.
Row == [in : SUBSET Time, out : SUBSET Time, type : {"PRESENT", "LATE", "ABSENT"}]
None == [in |-> {}, out |-> {}, type |-> "none"]
Absent == [in |-> {}, out |-> {}, type |-> "ABSENT"]

\* The row of day d has been read, the stamp is still to be taken; new, there was none.
ReadRequest == [op : {"in"}, p : Personnel, d : Days, new : BOOLEAN]
                   \cup [op : {"out"}, p : Personnel, d : Days]

\* An entry to write: t is empty when the row has one already; new, the row is to be
\* created; set, an existing row takes the type too.
InRequest == [op : {"enter"}, p : Personnel, d : Days, t : SUBSET Time,
              type : {"PRESENT", "LATE"}, new : BOOLEAN, set : BOOLEAN]
OutRequest == [op : {"leave"}, p : Personnel, d : Days, t : Time]
PayRequest == [op : {"approve", "pay"}, c : Commissions]

StaffTypeOK ==
    /\ now        \in Time
    /\ row        \in [Personnel -> [Days -> Row \cup {None}]]
    /\ absent     \in SUBSET (Personnel \X Days)
    /\ ahead      \in SUBSET (Personnel \X Days)
    /\ verified   \in SUBSET (Personnel \X Days)
    /\ commission \in [Commissions -> {"NONE", "PENDING", "APPROVED"}]
    /\ paid       \in [Commissions -> 0..2]
    /\ overlap    \in BOOLEAN
    /\ req        \in [Workers -> ReadRequest \cup InRequest \cup OutRequest \cup PayRequest
                                    \cup {Idle}]

\* An absence may have been recorded for any day, today and days to come included.
StaffInit ==
    /\ now = 0
    /\ absent \in SUBSET (Personnel \X Days)
    /\ ahead = {}
    /\ row = [p \in Personnel |-> [d \in Days |-> IF <<p, d>> \in absent THEN Absent ELSE None]]
    /\ verified = {}
    /\ commission = [c \in Commissions |-> "NONE"]
    /\ paid = [c \in Commissions |-> 0]
    /\ overlap = FALSE
    /\ req = [w \in Workers |-> Idle]

-----------------------------------------------------------------------------
Park(w, r) ==
    /\ req[w] = Idle
    /\ req' = [req EXCEPT ![w] = r]
    /\ UNCHANGED <<now, attendance, payroll>>

\* The clock; a request under way may see an hour or a day pass.
Tick ==
    /\ now < MaxTime
    /\ now' = now + 1
    /\ UNCHANGED <<attendance, payroll, req>>

-----------------------------------------------------------------------------
(* Entries *)

\* POST /personnel/attendance/check-in counts whole hours ...
LateByHour(t) == Hour(t) >= Nine

\* ... attendance/check-in and the reader ask WorkSchedule.evaluate.
LateBySchedule(t) == Hour(t) > Limit

TypeOf(late) == IF late THEN "LATE" ELSE "PRESENT"

\* `today` of a request that came up to an hour before it reads the row of that day.
Todays == {Day(came) : came \in {now - 1, now} \cap Time}

\* The two check-ins: the row of the day has no entry yet ...
BeginCheckIn(w, p, d) ==
    /\ row[p][d].in = {}
    /\ Park(w, [op |-> "in", p |-> p, d |-> d, new |-> row[p][d] = None])

\* ... and the entry is new Date() after that read.  Whether a new row is LATE is decided
\* with the entry's own time; an existing row keeps its type.
StampIn(w, late) ==
    /\ req[w].op = "in"
    /\ req' = [req EXCEPT ![w] = [op |-> "enter", p |-> @.p, d |-> @.d, t |-> {now},
                                  type |-> TypeOf(late), new |-> @.new, set |-> FALSE]]
    /\ UNCHANGED <<now, attendance, payroll>>

StampByRule(w) == StampIn(w, LateByHour(now)) \/ StampIn(w, LateBySchedule(now))

\* Mutant: a mark replaces the entry that is there.
BeginMarkAgain(w, p, t) ==
    LET seen == row[p][Day(t)]
    IN /\ ~LateBySchedule(t)
       /\ Park(w, [op |-> "enter", p |-> p, d |-> Day(t), t |-> {t}, type |-> "PRESENT",
                   new |-> seen = None, set |-> TRUE])

\* A mark of the reader dated t, which nothing compares with the clock.  A late one
\* always fails: its penalty is an audit row of the account "system", which does not
\* exist, and the transaction goes back.  A row with an entry is left as it is.
BeginMark(w, p, t) ==
    LET seen == row[p][Day(t)]
    IN /\ ~LateBySchedule(t)
       /\ Park(w, [op |-> "enter", p |-> p, d |-> Day(t), t |-> IF seen.in = {} THEN {t} ELSE {},
                   type |-> "PRESENT", new |-> seen = None, set |-> TRUE])

\* A row is created if the key is still free, or the row that was read is updated.
CommitEntry(w) ==
    /\ Takes(w, "enter")
    /\ LET r == req[w]
           old == row[r.p][r.d]
       IN /\ r.new => old = None
          /\ row' = [row EXCEPT ![r.p][r.d] =
                       IF r.t = {} THEN old
                       ELSE [in |-> r.t, out |-> old.out,
                             type |-> IF r.new \/ r.set THEN r.type ELSE old.type]]
          /\ ahead' = IF \E t \in r.t : t > now THEN ahead \cup {<<r.p, r.d>>} ELSE ahead
    /\ UNCHANGED <<now, absent, verified, payroll>>

-----------------------------------------------------------------------------
(* Exits and verification *)

\* Mutant: an exit without an entry.
BeginCheckOutBlind(w, p, d) ==
    /\ row[p][d].out = {}
    /\ Park(w, [op |-> "out", p |-> p, d |-> d])

\* Both check-outs: the row of the day has an entry and no exit; the exit is new Date()
\* after that read.
BeginCheckOut(w, p, d) ==
    /\ row[p][d].in # {}
    /\ row[p][d].out = {}
    /\ Park(w, [op |-> "out", p |-> p, d |-> d])

StampOut(w) ==
    /\ req[w].op = "out"
    /\ req' = [req EXCEPT ![w] = [op |-> "leave", p |-> @.p, d |-> @.d, t |-> now]]
    /\ UNCHANGED <<now, attendance, payroll>>

CommitCheckOut(w) ==
    /\ Takes(w, "leave")
    /\ row' = [row EXCEPT ![req[w].p][req[w].d].out = {req[w].t}]
    /\ UNCHANGED <<now, absent, ahead, verified, payroll>>

\* POST /attendance/verify: whoever the body names.
Verify(p, d) ==
    /\ row[p][d] # None
    /\ verified' = verified \cup {<<p, d>>}
    /\ UNCHANGED <<now, row, absent, ahead, payroll, req>>

-----------------------------------------------------------------------------
(* What the panels count of a day *)

\* GET /personnel/attendance/today: whoever has come, even if gone again; the
\* absences; the late.
Listed(d) == {p \in Personnel : row[p][d] # None}
Came(d) == {p \in Listed(d) : row[p][d].in # {}}
Missed(d) == {p \in Listed(d) : row[p][d].in = {} /\ row[p][d].type = "ABSENT"}
Late(d) == {p \in Listed(d) : row[p][d].type = "LATE"}

\* GET /attendance/today counts apart whoever has gone, and takes every row without
\* an entry for an absence.
Here(d) == {p \in Listed(d) : row[p][d].in # {} /\ row[p][d].out = {}}
Gone(d) == {p \in Listed(d) : row[p][d].out # {}}
NotSeen(d) == {p \in Listed(d) : row[p][d].in = {}}

-----------------------------------------------------------------------------
(* Commissions *)

CreateCommission(c) ==
    /\ commission[c] = "NONE"
    /\ commission' = [commission EXCEPT ![c] = "PENDING"]
    /\ UNCHANGED <<now, attendance, paid, req>>

\* POST /commissions/:id/approve; the approver is whoever the body names.
BeginApprove(w, c) ==
    /\ commission[c] = "PENDING"
    /\ Park(w, [op |-> "approve", c |-> c])

CommitApprove(w) ==
    /\ Takes(w, "approve")
    /\ commission' = [commission EXCEPT ![req[w].c] = "APPROVED"]
    /\ UNCHANGED <<now, attendance, paid>>

\* Mutant: paidAt is not looked at.
BeginPaymentAgain(w, c) ==
    /\ commission[c] = "APPROVED"
    /\ Park(w, [op |-> "pay", c |-> c])

BeginPayment(w, c) ==
    /\ commission[c] = "APPROVED"
    /\ paid[c] = 0
    /\ Park(w, [op |-> "pay", c |-> c])

CommitPayment(w) ==
    /\ Takes(w, "pay")
    /\ paid' = [paid EXCEPT ![req[w].c] = IF @ = 2 THEN 2 ELSE @ + 1]
    /\ UNCHANGED <<now, attendance, commission>>

-----------------------------------------------------------------------------
\* A write of the request fails, or the process dies.
StaffFail(w) ==
    /\ req[w] # Idle
    /\ req' = [req EXCEPT ![w] = Idle]
    /\ UNCHANGED <<now, attendance, payroll>>

Begin(w) ==
    \/ \E p \in Personnel :
         \/ \E d \in Todays : BeginCheckIn(w, p, d) \/ BeginCheckOut(w, p, d)
         \/ \E t \in Time : BeginMark(w, p, t)
    \/ \E c \in Commissions : BeginApprove(w, c) \/ BeginPayment(w, c)

Stamp(w) == StampByRule(w) \/ StampOut(w)

Commit(w) == CommitEntry(w) \/ CommitCheckOut(w) \/ CommitApprove(w) \/ CommitPayment(w)

StaffAct ==
    \/ Tick
    \/ \E p \in Personnel, d \in Days : Verify(p, d)
    \/ \E c \in Commissions : CreateCommission(c)
    \/ \E w \in Workers : Begin(w) \/ Stamp(w) \/ Commit(w) \/ StaffFail(w)

StaffNext == StaffAct /\ overlap' = (overlap \/ ~Alone')

StaffSpec == StaffInit /\ [][StaffNext]_staffVars

-----------------------------------------------------------------------------
(* What holds however the requests interleave *)

\* "Ya registraste tu entrada hoy": the app and the reader, in any order and on time,
\* days late or ahead, never change an entry once it is there, but for two requests
\* at once on a day that was recorded as an absence.
EntryKept ==
    [][\A p \in Personnel, d \in Days :
         row[p][d].in # {} /\ row'[p][d].in # row[p][d].in =>
             overlap' /\ <<p, d>> \in absent]_staffVars

\* The two panels count alike: who is here or gone has come, whoever is on the list
\* has come or missed the day, and only who came is late.
PanelsAgree ==
    \A d \in Days :
        /\ Came(d) = Here(d) \cup Gone(d)
        /\ Missed(d) = NotSeen(d)
        /\ Late(d) \subseteq Came(d)

\* What one of the two rules says of an entry.
Fits(t, type) ==
    /\ type = "LATE" => LateByHour(t) \/ LateBySchedule(t)
    /\ type = "PRESENT" => ~LateByHour(t) \/ ~LateBySchedule(t)

\* Two requests met on a row recorded as an absence: both may have entered, one over the
\* other.
Contested(p, d) == overlap /\ <<p, d>> \in absent

\* The stamps of a row agree.  They are of its day or a later one (a request that waited
\* over midnight writes to the row of the day it came), ABSENT stays only on a row that
\* was recorded so; nobody leaves before they came, unless the reader dated the entry
\* ahead; and LATE or PRESENT is what one of the two rules says of the entry.
Stamped(p, d) ==
    LET r == row[p][d]
    IN /\ \A t \in r.in \cup r.out : Day(t) >= d
       /\ r.type = "ABSENT" => <<p, d>> \in absent
       /\ Contested(p, d) \/ \A i \in r.in : Fits(i, r.type)
       /\ Contested(p, d) \/ <<p, d>> \in ahead \/ \A i \in r.in, o \in r.out : i <= o

\* So it is of every row, a presence that replaces an absence, an exit written over
\* another and requests that see midnight pass included; and the panels that count the
\* rows agree as well.
StampsAgree == PanelsAgree /\ \A p \in Personnel, d \in Days : Stamped(p, d)

\* "Solo se pueden pagar comisiones aprobadas": whatever overlaps, money goes only to
\* an approved commission; and once, until two requests overlap.
PaidOnce ==
    \A c \in Commissions :
        /\ paid[c] > 0 => commission[c] = "APPROVED"
        /\ ~overlap => paid[c] < 2

-----------------------------------------------------------------------------
(* The inductive invariant of these properties *)

\* Nobody is on the list without an entry but the absent, and no entry is still to come
\* but those dated ahead.
RowIsTrue(p, d) ==
    row[p][d] # None =>
        /\ row[p][d].in = {} => row[p][d].type = "ABSENT" /\ <<p, d>> \in absent
        /\ row[p][d].out # {} => row[p][d].in # {}
        /\ <<p, d>> \in ahead \/ \A i \in row[p][d].in : i <= now

\* An entry that may still be written, to a row that there was none of or to an absence;
\* nobody else has entered on the absence but in an overlap.
EntersOpen(r) ==
    /\ Day(now) >= r.d
    /\ ~r.new => row[r.p][r.d] # None /\ <<r.p, r.d>> \in absent
    /\ ~r.new => overlap \/ row[r.p][r.d].in = {}

EnterIsTrue(r) ==
    /\ r.new \/ r.set \/ <<r.p, r.d>> \in absent
    /\ \A t \in r.t : Day(t) >= r.d /\ Fits(t, r.type)
    /\ ~r.new => row[r.p][r.d] # None
    /\ ~r.new /\ r.t # {} => <<r.p, r.d>> \in absent /\ (overlap \/ row[r.p][r.d].in = {})

\* An exit that may still be written.
LeavesOpen(r) == Day(now) >= r.d /\ row[r.p][r.d].in # {}

\* An exit still to be written: the row has an entry, which it does not precede.
LeaveIsTrue(r) ==
    LET old == row[r.p][r.d]
    IN /\ Day(r.t) >= r.d
       /\ old.in # {}
       /\ Contested(r.p, r.d) \/ <<r.p, r.d>> \in ahead \/ \A i \in old.in : i <= r.t

PayIsTrue(r) ==
    /\ commission[r.c] = "APPROVED"
    /\ overlap \/ paid[r.c] = 0

RequestIsTrue(w) ==
    LET r == req[w]
    IN /\ r.op = "in" => EntersOpen(r)
       /\ r.op = "enter" => EnterIsTrue(r)
       /\ r.op = "out" => LeavesOpen(r)
       /\ r.op = "leave" => LeaveIsTrue(r)
       /\ r.op = "pay" => PayIsTrue(r)

StaffInv ==
    /\ StaffTypeOK
    /\ \A p \in Personnel, d \in Days : RowIsTrue(p, d)
    /\ \A w \in Workers : RequestIsTrue(w)
    /\ overlap \/ Alone
    /\ StampsAgree
    /\ PaidOnce
=============================================================================
