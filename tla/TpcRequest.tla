------------------------------ MODULE TpcRequest ------------------------------
(***************************************************************************)
(* One TPCRequest of src/src/XrdTpc/XrdTpcPool.cc and the threads that     *)
(* touch it: the worker that runs it (RunCurl's SetProgress(0) and         *)
(* SetDone), callers of WaitFor, and, as the tests do, a producer thread   *)
(* that cancels the request and calls SetDone(499) itself.                 *)
(*                                                                         *)
(* m_status is guarded by m_mutex and signalled through m_cv.  WaitFor is  *)
(* std::condition_variable::wait_for with a predicate, which the standard  *)
(* defines as a loop: while the predicate is false, wait (releasing the    *)
(* lock) until notified, woken spuriously or timed out, then retake the    *)
(* lock; after a timeout return the predicate's value.  Every step below   *)
(* taken under m_mutex is one action.                                      *)
(***************************************************************************)
EXTENDS Integers, FiniteSets

CONSTANTS
    Waiters,      \* threads that call WaitFor once
    Cancellers,   \* threads that call Cancel() and then SetDone(499)
    ResultCodes   \* CURLcode values RunCurl may pass to SetDone

ASSUME /\ ResultCodes \subseteq Nat
       /\ Waiters \cap Cancellers = {}

Pending == -1       \* m_status before any SetDone
HttpError == 500    \* RunCurl's status for an engine failure
Cancelled == 499    \* the tests' cancellation status

\* What a WaitFor caller passes as `dur`: a finite timeout, or one so long
\* that only a wake-up ends the wait.
Durations == {"finite", "infinite"}

VARIABLES
    status,    \* m_status
    active,    \* m_active (set by SetProgress(0))
    cvQ,       \* the waiters blocked in m_cv.wait_for
    wPc,       \* where each waiter is in WaitFor
    wDur,      \* the duration each waiter passed
    wRet,      \* what WaitFor returned
    workerPc,  \* where the worker is in RunCurl for this request
    cPc        \* where each canceller is

vars == <<status, active, cvQ, wPc, wDur, wRet, workerPc, cPc>>

Init ==
    /\ status = Pending
    /\ active = FALSE
    /\ cvQ = {}
    /\ wPc = [w \in Waiters |-> "idle"]
    /\ wDur = [w \in Waiters |-> "infinite"]
    /\ wRet = [w \in Waiters |-> Pending]
    /\ workerPc = "add"
    /\ cPc = [c \in Cancellers |-> "idle"]

\* The predicate WaitFor hands to wait_for.
Terminal(s) == s >= 0

-----------------------------------------------------------------------------
(* TPCRequest::SetDone, under m_mutex: store the status, notify_one.       *)
(* notify_one unblocks one thread blocked on m_cv, if there is one.        *)

\* Mutant of SetDone: the status is stored but m_cv is never notified.
SetDoneNoNotify(s) ==
    /\ status' = s
    /\ UNCHANGED <<cvQ, wPc>>

SetDone(s) ==
    /\ status' = s
    /\ IF cvQ = {}
         THEN UNCHANGED <<cvQ, wPc>>
         ELSE \E w \in cvQ :
                /\ cvQ' = cvQ \ {w}
                /\ wPc' = [wPc EXCEPT ![w] = "woken"]

-----------------------------------------------------------------------------
(* The worker's calls on the request in RunCurl.                           *)

\* curl_multi_add_handle fails: SetDone(500) before any progress.
WorkerAddFail ==
    /\ workerPc = "add"
    /\ SetDone(HttpError)
    /\ workerPc' = "done"
    /\ UNCHANGED <<active, wDur, wRet, cPc>>

\* The handle is added and SetProgress(0) marks the request active.
WorkerAddOk ==
    /\ workerPc = "add"
    /\ active' = TRUE
    /\ workerPc' = "perform"
    /\ UNCHANGED <<status, cvQ, wPc, wDur, wRet, cPc>>

\* RunCurl leaves its loop: 500 after an engine failure, or the transfer's
\* CURLcode.
WorkerFinish ==
    /\ workerPc = "perform"
    /\ \E s \in ResultCodes \cup {HttpError} : SetDone(s)
    /\ workerPc' = "done"
    /\ UNCHANGED <<active, wDur, wRet, cPc>>

\* A producer thread cancels and marks the request done itself, whatever
\* the worker is doing (XrdHttpTpcPoolTests.cc).  Cancel() only sets a flag
\* that RunCurl never reads, so it changes nothing here.
ExternalSetDone(c) ==
    /\ cPc[c] = "idle"
    /\ SetDone(Cancelled)
    /\ cPc' = [cPc EXCEPT ![c] = "done"]
    /\ UNCHANGED <<active, wDur, wRet, workerPc>>

-----------------------------------------------------------------------------
(* TPCRequest::WaitFor(dur).                                               *)

\* Take m_mutex and test the predicate: return at once if the status is
\* terminal, else block on m_cv (releasing the lock atomically).
\* Mutant of WaitEnter: `return m_cv.wait_for(lock, dur, pred);`, the bool
\* wait_for returns instead of m_status (true converts to 1).
WaitEnterBool(w) ==
    /\ wPc[w] = "idle"
    /\ \E d \in Durations : wDur' = [wDur EXCEPT ![w] = d]
    /\ IF Terminal(status)
         THEN /\ wPc' = [wPc EXCEPT ![w] = "returned"]
              /\ wRet' = [wRet EXCEPT ![w] = 1]
              /\ UNCHANGED cvQ
         ELSE /\ wPc' = [wPc EXCEPT ![w] = "blocked"]
              /\ cvQ' = cvQ \cup {w}
              /\ UNCHANGED wRet
    /\ UNCHANGED <<status, active, workerPc, cPc>>

WaitEnter(w) ==
    /\ wPc[w] = "idle"
    /\ \E d \in Durations : wDur' = [wDur EXCEPT ![w] = d]
    /\ IF Terminal(status)
         THEN /\ wPc' = [wPc EXCEPT ![w] = "returned"]
              /\ wRet' = [wRet EXCEPT ![w] = status]
              /\ UNCHANGED cvQ
         ELSE /\ wPc' = [wPc EXCEPT ![w] = "blocked"]
              /\ cvQ' = cvQ \cup {w}
              /\ UNCHANGED wRet
    /\ UNCHANGED <<status, active, workerPc, cPc>>

\* A blocked waiter wakes with no notify (std::condition_variable allows
\* this at any time).
Spurious(w) ==
    /\ wPc[w] = "blocked"
    /\ cvQ' = cvQ \ {w}
    /\ wPc' = [wPc EXCEPT ![w] = "woken"]
    /\ UNCHANGED <<status, active, wDur, wRet, workerPc, cPc>>

\* A finite wait runs out.
Timeout(w) ==
    /\ wPc[w] = "blocked"
    /\ wDur[w] = "finite"
    /\ cvQ' = cvQ \ {w}
    /\ wPc' = [wPc EXCEPT ![w] = "expired"]
    /\ UNCHANGED <<status, active, wDur, wRet, workerPc, cPc>>

\* The woken waiter retakes m_mutex and tests the predicate again: a
\* terminal status is returned; otherwise it blocks again.
\* Mutant of Reacquire: wait_for without the predicate, so a wake-up
\* returns whatever m_status is.
ReacquireNoRecheck(w) ==
    /\ wPc[w] = "woken"
    /\ wPc' = [wPc EXCEPT ![w] = "returned"]
    /\ wRet' = [wRet EXCEPT ![w] = status]
    /\ UNCHANGED <<status, active, cvQ, wDur, workerPc, cPc>>

Reacquire(w) ==
    /\ wPc[w] = "woken"
    /\ IF Terminal(status)
         THEN /\ wPc' = [wPc EXCEPT ![w] = "returned"]
              /\ wRet' = [wRet EXCEPT ![w] = status]
              /\ UNCHANGED cvQ
         ELSE /\ wPc' = [wPc EXCEPT ![w] = "blocked"]
              /\ cvQ' = cvQ \cup {w}
              /\ UNCHANGED wRet
    /\ UNCHANGED <<status, active, wDur, workerPc, cPc>>

\* After a timeout the lock is retaken and WaitFor returns m_status as it
\* is then, pending or not.
ReturnExpired(w) ==
    /\ wPc[w] = "expired"
    /\ wPc' = [wPc EXCEPT ![w] = "returned"]
    /\ wRet' = [wRet EXCEPT ![w] = status]
    /\ UNCHANGED <<status, active, cvQ, wDur, workerPc, cPc>>

-----------------------------------------------------------------------------

Worker == WorkerAddFail \/ WorkerAddOk \/ WorkerFinish

\* The steps of a WaitFor call that the thread and the clock take by
\* themselves; spurious wake-ups are possible but never forced.
WaitStep(w) == WaitEnter(w) \/ Timeout(w) \/ Reacquire(w) \/ ReturnExpired(w)

\* Every thread has finished its calls.
Terminated ==
    /\ workerPc = "done"
    /\ \A w \in Waiters : wPc[w] = "returned"
    /\ \A c \in Cancellers : cPc[c] = "done"
    /\ UNCHANGED vars

Next ==
    \/ Worker
    \/ \E c \in Cancellers : ExternalSetDone(c)
    \/ \E w \in Waiters : WaitStep(w) \/ Spurious(w)
    \/ Terminated

\* Threads are scheduled and a finite wait_for ends at its deadline: every
\* thread is weakly fair.  Nothing forces a spurious wake-up.
Fairness ==
    /\ WF_vars(Worker)
    /\ \A c \in Cancellers : WF_vars(ExternalSetDone(c))
    /\ \A w \in Waiters : WF_vars(WaitStep(w))

Spec == Init /\ [][Next]_vars /\ Fairness

-----------------------------------------------------------------------------
(* Properties                                                              *)

Statuses == {Pending, HttpError, Cancelled} \cup ResultCodes

TypeOK ==
    /\ status \in Statuses
    /\ active \in BOOLEAN
    /\ cvQ \subseteq Waiters
    /\ wPc \in [Waiters -> {"idle", "blocked", "woken", "expired", "returned"}]
    /\ wDur \in [Waiters -> Durations]
    /\ wRet \in [Waiters -> Statuses]
    /\ workerPc \in {"add", "perform", "done"}
    /\ cPc \in [Cancellers -> {"idle", "done"}]

\* WaitFor never returns the pending status to a caller whose wait only a
\* wake-up can end (the spec: "never spuriously returns"): spurious
\* wake-ups of m_cv are absorbed by wait_for's predicate loop.
NeverSpurious ==
    \A w \in Waiters :
        wPc[w] = "returned" /\ wDur[w] = "infinite" => Terminal(wRet[w])

\* Once the request has a final status, every thread in WaitFor returns
\* (the spec: SetDone "wakes all WaitFor callers"), whether it blocked
\* before SetDone's notify or called WaitFor after it.
WaitersWake ==
    \A w \in Waiters : Terminal(status) ~> wPc[w] = "returned"

=============================================================================
