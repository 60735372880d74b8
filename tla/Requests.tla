------------------------------ MODULE Requests ------------------------------
(***************************************************************************)
(* The requests that the server handles at the same time.  A handler reads *)
(* and decides in one step and writes in a later one; what it keeps in     *)
(* between is its slot of req.  The components say what a slot may hold.   *)
(***************************************************************************)
CONSTANT Workers   \* requests the server handles at the same time

VARIABLE req       \* what each worker is about to do

\* No request is in the slot.
Idle == [op |-> "idle"]

\* Worker w writes what it kept for an op request and answers.
Takes(w, op) ==
    /\ req[w].op = op
    /\ req' = [req EXCEPT ![w] = Idle]
=============================================================================
