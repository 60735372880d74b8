------------------------------ MODULE Overlaps ------------------------------
(***************************************************************************)
(* Whether requests have overlapped: what a handler read may have changed  *)
(* when it writes only if another request was under way with it.           *)
(***************************************************************************)
EXTENDS Requests

VARIABLE overlap   \* observer: two requests have been under way together

\* The workers with a request.
Busy == {w \in Workers : req[w] # Idle}

\* At most one request is under way.
Alone == \A v, w \in Workers : req[v] # Idle /\ req[w] # Idle => v = w
=============================================================================
