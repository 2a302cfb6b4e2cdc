----------------------------- MODULE TpcLifecycle -----------------------------
(***************************************************************************)
(* What the TPC request manager promises each request, without queues,     *)
(* workers or locks (the spec's Request and Queue contracts): Produce      *)
(* either rejects a request or queues it; a queued request is dispatched   *)
(* to one worker; the worker gives it one terminal status, which never     *)
(* changes afterwards.                                                     *)
(***************************************************************************)
CONSTANTS
    Reqs,      \* the requests handed to Produce
    Codes,     \* the terminal statuses a worker may give
    Pending    \* the status before SetDone

VARIABLES
    phase,     \* "new", "rejected", "queued", "running" or "finished"
    result     \* the request's status

Init ==
    /\ phase = [r \in Reqs |-> "new"]
    /\ result = [r \in Reqs |-> Pending]

\* Produce returns false: the request is never run.
Reject(r) ==
    /\ phase[r] = "new"
    /\ phase' = [phase EXCEPT ![r] = "rejected"]
    /\ UNCHANGED result

\* Produce returns true: the request waits for a worker.
Accept(r) ==
    /\ phase[r] = "new"
    /\ phase' = [phase EXCEPT ![r] = "queued"]
    /\ UNCHANGED result

\* A worker takes the request off the queue.
Dispatch(r) ==
    /\ phase[r] = "queued"
    /\ phase' = [phase EXCEPT ![r] = "running"]
    /\ UNCHANGED result

\* The worker that runs the request gives it its terminal status.
Finish(r) ==
    /\ phase[r] = "running"
    /\ phase' = [phase EXCEPT ![r] = "finished"]
    /\ \E s \in Codes : result' = [result EXCEPT ![r] = s]

Next == \E r \in Reqs : Reject(r) \/ Accept(r) \/ Dispatch(r) \/ Finish(r)

Spec == Init /\ [][Next]_<<phase, result>>

=============================================================================
