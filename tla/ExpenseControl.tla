--------------------------- MODULE ExpenseControl ---------------------------
(***************************************************************************)
(* What the expense desk promises, without its database: an expense is     *)
(* paid only when enough authority other than the requester's has signed   *)
(* for its amount, and what is paid stays paid.  How signatures are        *)
(* collected, lost or raced is not said here.                              *)
(***************************************************************************)
EXTENDS Naturals

CONSTANTS
    Expenses,
    Users,
    Prices,     \* the amounts asked for, in céntimos
    NoUser      \* requester of an expense not yet submitted

VARIABLES
    requester,  \* who submitted each expense
    amount,     \* its amount in céntimos
    votes,      \* signatures: who signed and with which role
    paid

cvars == <<requester, amount, votes, paid>>

\* Who must have signed before a céntimos may be paid: nobody up to S/ 100,
\* then an administrator, an owner, two owners.
Authorised(a, S) ==
    /\ a > 10000 => \E v \in S : v.role \in {"ADMIN", "OWNER"}
    /\ a > 50000 => \E v \in S : v.role = "OWNER"
    /\ a > 200000 => \E v, x \in S : /\ v.role = "OWNER" /\ x.role = "OWNER"
                                     /\ v.who # x.who

Init ==
    /\ requester = [e \in Expenses |-> NoUser]
    /\ amount = [e \in Expenses |-> 0]
    /\ votes = [e \in Expenses |-> {}]
    /\ paid = [e \in Expenses |-> FALSE]

Submit(e, u, a) ==
    /\ requester[e] = NoUser
    /\ requester' = [requester EXCEPT ![e] = u]
    /\ amount' = [amount EXCEPT ![e] = a]
    /\ \/ UNCHANGED paid
       \/ a <= 10000 /\ paid' = [paid EXCEPT ![e] = TRUE]
    /\ UNCHANGED votes

Sign(e, v) ==
    /\ requester[e] \notin {NoUser, v.who}
    /\ votes' = [votes EXCEPT ![e] = @ \cup {v}]
    /\ UNCHANGED <<requester, amount, paid>>

\* The last signature and the payment are one step.
Pay(e, v) ==
    /\ requester[e] \notin {NoUser, v.who}
    /\ Authorised(amount[e], votes[e] \cup {v})
    /\ votes' = [votes EXCEPT ![e] = @ \cup {v}]
    /\ paid' = [paid EXCEPT ![e] = TRUE]
    /\ UNCHANGED <<requester, amount>>

Vote == [who : Users, role : {"FINANCE", "ADMIN", "OWNER"}]

Next == \E e \in Expenses :
    \/ \E u \in Users, a \in Prices : Submit(e, u, a)
    \/ \E v \in Vote : Sign(e, v) \/ Pay(e, v)

Spec == Init /\ [][Next]_cvars
=============================================================================
