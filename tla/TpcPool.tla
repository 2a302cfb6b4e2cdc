------------------------------- MODULE TpcPool -------------------------------
(***************************************************************************)
(* The TPC request manager of src/src/XrdTpc/XrdTpcPool.cc.                *)
(*                                                                         *)
(* Producers (the HTTP handler threads, one per request) call              *)
(* TPCRequestManager::Produce, which finds or creates the TPCQueue of the  *)
(* request's label in m_pool_map and calls TPCQueue::Produce.  Detached    *)
(* TPCWorker threads run TPCWorker::Run: TryConsume, ConsumeUntil, RunCurl *)
(* and TPCQueue::Done, which may call TPCRequestManager::Done.             *)
(*                                                                         *)
(* Every step taken under m_mutex (the map's shared mutex or a queue's     *)
(* mutex) is one atomic action; the points where a thread releases a lock  *)
(* and takes another are separate actions, because other threads           *)
(* interleave there.  Worker steps that touch only the worker's own curl   *)
(* multi-handle are merged into one action per loop iteration.             *)
(*                                                                         *)
(* Every request is produced at most once, by its own handler thread, and  *)
(* every queue creation and every worker spawn happens inside one          *)
(* request's Produce; so a queue is named by the request whose Produce     *)
(* created it and a worker thread by the request whose Produce spawned it. *)
(* This needs no bound beyond the set of requests.                         *)
(***************************************************************************)
EXTENDS Integers, Sequences, FiniteSets, SequencesExt

CONSTANTS
    Labels,       \* request identifiers (TPCRequest::GetIdentifier)
    Reqs,         \* the TPCRequest objects handed to Produce
    ReqLabel,     \* [Reqs -> Labels]: the label of each request
    MaxPending,   \* TPCRequestManager::m_max_pending_ops
    MaxWorkers,   \* TPCRequestManager::m_max_workers
    EngineFaults, \* which libcurl calls may fail: a subset of
                  \* {"init", "add", "perform", "wait"}
    ResultCodes,  \* CURLcode values a finished transfer may report
    NoQueue       \* a null std::shared_ptr<TPCQueue>

ASSUME /\ ReqLabel \in [Reqs -> Labels]
       /\ MaxPending \in Nat \ {0}
       /\ MaxWorkers \in Nat \ {0}
       /\ EngineFaults \subseteq {"init", "add", "perform", "wait"}
       /\ ResultCodes \subseteq Nat

Queues == Reqs    \* the queue created by the Produce of request q
Threads == Reqs   \* the worker spawned by the Produce of request t

\* TPCRequest::m_status before SetDone, and RunCurl's "no result" sentinel
\* static_cast<CURLcode>(-1).
Pending == -1
NoResult == -1
HttpError == 500

VARIABLES
    poolMap,   \* m_pool_map: label -> queue
    ops,       \* TPCQueue::m_ops of each queue
    qWorkers,  \* TPCQueue::m_workers of each queue
    qDone,     \* TPCQueue::m_done of each queue
    pc,        \* where each producer is in TPCRequestManager::Produce
    pQueue,    \* Produce's local `queue` (shared_ptr) of each producer
    wPc,       \* where each worker thread is in TPCWorker::Run
    wIdle,     \* TPCWorker::IsIdle
    wReq,      \* the request a worker consumed last
    wHandle,   \* the worker's multi_handle is non-null
    wRes,      \* RunCurl's local `res`
    wRet,      \* where a worker resumes after TPCQueue::Done returns
    status,    \* TPCRequest::m_status
    active,    \* TPCRequest::m_active
    admitted,  \* history: per label, requests in the order Produce queued them
    taken      \* history: per label, requests in the order workers dequeued them

mgrVars == <<poolMap, ops, qWorkers, qDone, pc, pQueue>>
wrkVars == <<wPc, wIdle, wReq, wHandle, wRes, wRet>>
reqVars == <<status, active>>
histVars == <<admitted, taken>>
vars == <<mgrVars, wrkVars, reqVars, histVars>>

\* A queue's label is the label of the request that created it (the
\* TPCQueue constructor is given handler.GetIdentifier()).
QLabel(q) == ReqLabel[q]

\* TPCWorker::m_queue: the queue the spawning Produce was called on.  It is
\* a plain reference (TPCQueue &), which keeps nothing alive.
WQueue(t) == pQueue[t]

\* The owners of a TPCQueue are the shared_ptrs to it: m_pool_map's entry
\* and the local `queue` of each Produce call still running.  The TPCQueue
\* made by the Produce of request q is destroyed, with its m_ops and
\* m_workers, once it was created and no owner is left: after the erase in
\* TPCRequestManager::Done when no Produce holds it, or when the last
\* Produce holding an erased queue returns.  A destroyed queue is never
\* owned again, since owners only come from m_pool_map.
Freed(q) ==
    /\ pQueue[q] = q
    /\ \A l \in Labels : poolMap[l] # q
    /\ \A r \in Reqs : pc[r] \in {"lookup", "create", "produce"} => pQueue[r] # q

Init ==
    /\ poolMap = [l \in Labels |-> NoQueue]
    /\ ops = [q \in Queues |-> <<>>]
    /\ qWorkers = [q \in Queues |-> {}]
    /\ qDone = [q \in Queues |-> FALSE]
    /\ pc = [r \in Reqs |-> "idle"]
    /\ pQueue = [r \in Reqs |-> NoQueue]
    /\ wPc = [t \in Threads |-> "none"]
    /\ wIdle = [t \in Threads |-> FALSE]
    /\ wReq = [t \in Threads |-> t]
    /\ wHandle = [t \in Threads |-> FALSE]
    /\ wRes = [t \in Threads |-> NoResult]
    /\ wRet = [t \in Threads |-> "try"]
    /\ status = [r \in Reqs |-> Pending]
    /\ active = [r \in Reqs |-> FALSE]
    /\ admitted = [l \in Labels |-> <<>>]
    /\ taken = [l \in Labels |-> <<>>]

-----------------------------------------------------------------------------
(* TPCRequestManager::Produce                                              *)

\* One pass of the retry loop under the shared lock.  An entry that is not
\* done is captured and used.  A done entry is captured too, and the loop
\* retries.  When the label is absent the loop ends, and the queue captured
\* by an earlier pass, if any, is the one Produce goes on with.
Lookup(r) ==
    LET q == poolMap[ReqLabel[r]] IN
    /\ pc[r] \in {"idle", "lookup"}
    /\ \/ /\ q # NoQueue
          /\ pQueue' = [pQueue EXCEPT ![r] = q]
          /\ pc' = [pc EXCEPT ![r] = IF qDone[q] THEN "lookup" ELSE "produce"]
       \/ /\ q = NoQueue
          /\ pc' = [pc EXCEPT ![r] = IF pQueue[r] = NoQueue THEN "create"
                                                            ELSE "produce"]
          /\ UNCHANGED pQueue
    /\ UNCHANGED <<poolMap, ops, qWorkers, qDone, wrkVars, reqVars, histVars>>

\* No queue was captured: under the exclusive lock, look the label up again
\* and either take the queue found (done or not) or create and insert one.
Create(r) ==
    LET l == ReqLabel[r] IN
    /\ pc[r] = "create"
    /\ IF poolMap[l] = NoQueue
         THEN /\ poolMap' = [poolMap EXCEPT ![l] = r]
              /\ pQueue' = [pQueue EXCEPT ![r] = r]
         ELSE /\ pQueue' = [pQueue EXCEPT ![r] = poolMap[l]]
              /\ UNCHANGED poolMap
    /\ pc' = [pc EXCEPT ![r] = "produce"]
    /\ UNCHANGED <<ops, qWorkers, qDone, wrkVars, reqVars, histVars>>

-----------------------------------------------------------------------------
(* TPCQueue::Produce, on the queue the manager captured, under its mutex.  *)
(* A full queue rejects.  Otherwise the request is queued; if a worker is  *)
(* idle it is notified, else a worker is spawned while below MaxWorkers.   *)
(* The notification only shortens the idle worker's wait: its wait_for     *)
(* re-checks m_ops on every wake, which ConsumeUntilWake models.           *)

\* The new worker, named t, is spawned on queue q.
Spawn(q, t) ==
    /\ qWorkers' = [qWorkers EXCEPT ![q] = @ \cup {t}]
    /\ wPc' = [wPc EXCEPT ![t] = "start"]

\* Mutant of QProduce: the full-queue test as `m_ops.size() > m_max_pending_ops`.
QProduceOverfull(r) ==
    LET q == pQueue[r]
        l == ReqLabel[r]
    IN
    /\ pc[r] = "produce"
    /\ \/ /\ Len(ops[q]) > MaxPending
          /\ pc' = [pc EXCEPT ![r] = "rejected"]
          /\ UNCHANGED <<ops, qWorkers, wPc, admitted>>
       \/ /\ Len(ops[q]) <= MaxPending
          /\ ops' = [ops EXCEPT ![q] = Append(@, r)]
          /\ admitted' = [admitted EXCEPT ![l] = Append(@, r)]
          /\ pc' = [pc EXCEPT ![r] = "accepted"]
          /\ IF \/ \E w \in qWorkers[q] : wIdle[w]
                \/ Cardinality(qWorkers[q]) >= MaxWorkers
               THEN UNCHANGED <<qWorkers, wPc>>
               ELSE Spawn(q, r)
    /\ UNCHANGED <<poolMap, qDone, pQueue, wIdle, wReq, wHandle, wRes, wRet,
                   reqVars, taken>>

QProduce(r) ==
    LET q == pQueue[r]
        l == ReqLabel[r]
    IN
    /\ pc[r] = "produce"
    /\ \/ /\ Len(ops[q]) = MaxPending
          /\ pc' = [pc EXCEPT ![r] = "rejected"]
          /\ UNCHANGED <<ops, qWorkers, wPc, admitted>>
       \/ /\ Len(ops[q]) # MaxPending
          /\ ops' = [ops EXCEPT ![q] = Append(@, r)]
          /\ admitted' = [admitted EXCEPT ![l] = Append(@, r)]
          /\ pc' = [pc EXCEPT ![r] = "accepted"]
          /\ IF \/ \E w \in qWorkers[q] : wIdle[w]
                \/ Cardinality(qWorkers[q]) >= MaxWorkers
               THEN UNCHANGED <<qWorkers, wPc>>
               ELSE Spawn(q, r)
    /\ UNCHANGED <<poolMap, qDone, pQueue, wIdle, wReq, wHandle, wRes, wRet,
                   reqVars, taken>>

Producer(r) == Lookup(r) \/ Create(r) \/ QProduce(r)

-----------------------------------------------------------------------------
(* TPCWorker::Run and the TPCQueue calls it makes, each under the queue's  *)
(* mutex.                                                                  *)

\* Worker t dequeues the head of its queue.
Take(t) ==
    LET q == WQueue(t)
        r == Head(ops[q])
    IN /\ ops' = [ops EXCEPT ![q] = Tail(@)]
       \* a queue only ever holds requests of its own label
       /\ taken' = [taken EXCEPT ![ReqLabel[r]] = Append(@, r)]
       /\ wReq' = [wReq EXCEPT ![t] = r]
       /\ wPc' = [wPc EXCEPT ![t] = "add"]

\* TPCRequest::SetDone: the status is stored and one waiter is notified.
SetDone(r, s) == status' = [status EXCEPT ![r] = s]

\* The worker calls TPCQueue::Done(this) and then resumes at `ret`.
CallDone(t, ret) ==
    /\ wPc' = [wPc EXCEPT ![t] = "done1"]
    /\ wRet' = [wRet EXCEPT ![t] = ret]

\* curl_multi_init succeeds.
StartOk(t) ==
    /\ wPc[t] = "start"
    /\ wHandle' = [wHandle EXCEPT ![t] = TRUE]
    /\ wPc' = [wPc EXCEPT ![t] = "try"]
    /\ UNCHANGED <<mgrVars, wIdle, wReq, wRes, wRet, reqVars, histVars>>

\* curl_multi_init fails: Done(this) is called, and Run does not return but
\* goes on into its loop with a null multi-handle.
StartFail(t) ==
    /\ wPc[t] = "start"
    /\ "init" \in EngineFaults
    /\ wHandle' = [wHandle EXCEPT ![t] = FALSE]
    /\ CallDone(t, "try")
    /\ UNCHANGED <<mgrVars, wIdle, wReq, wRes, reqVars, histVars>>

\* TPCQueue::TryConsume.
TryConsume(t) ==
    /\ wPc[t] = "try"
    /\ \/ ops[WQueue(t)] # <<>> /\ Take(t)
       \/ /\ ops[WQueue(t)] = <<>>
          /\ wPc' = [wPc EXCEPT ![t] = "wait"]
          /\ UNCHANGED <<ops, taken, wReq>>
    /\ UNCHANGED <<poolMap, qWorkers, qDone, pc, pQueue, wIdle, wHandle, wRes,
                   wRet, reqVars, admitted>>

\* TPCQueue::ConsumeUntil up to the wait: the worker marks itself idle and
\* wait_for checks its predicate before it blocks.
ConsumeUntilEnter(t) ==
    /\ wPc[t] = "wait"
    /\ \/ /\ ops[WQueue(t)] # <<>>
          /\ Take(t)
          /\ UNCHANGED wIdle
       \/ /\ ops[WQueue(t)] = <<>>
          /\ wIdle' = [wIdle EXCEPT ![t] = TRUE]
          /\ wPc' = [wPc EXCEPT ![t] = "waiting"]
          /\ UNCHANGED <<ops, taken, wReq>>
    /\ UNCHANGED <<poolMap, qWorkers, qDone, pc, pQueue, wHandle, wRes, wRet,
                   reqVars, admitted>>

\* The wait ends, by a notification or by the idle timeout; the lock is
\* retaken, the worker is no longer idle, and m_ops decides: a request is
\* taken, or Run breaks out of its loop and calls Done(this) before exiting.
ConsumeUntilWake(t) ==
    /\ wPc[t] = "waiting"
    /\ wIdle' = [wIdle EXCEPT ![t] = FALSE]
    /\ \/ /\ ops[WQueue(t)] # <<>>
          /\ Take(t)
          /\ UNCHANGED wRet
       \/ /\ ops[WQueue(t)] = <<>>
          /\ CallDone(t, "exited")
          /\ UNCHANGED <<ops, taken, wReq>>
    /\ UNCHANGED <<poolMap, qWorkers, qDone, pc, pQueue, wHandle, wRes,
                   reqVars, admitted>>

-----------------------------------------------------------------------------
(* TPCWorker::RunCurl on the request the worker took.  A `false` return    *)
(* makes Run call Done(this) and then carry on with its loop.              *)

\* curl_multi_add_handle succeeds; SetProgress(0) marks the request active.
AddOk(t) ==
    LET r == wReq[t] IN
    /\ wPc[t] = "add"
    /\ wHandle[t]
    /\ active' = [active EXCEPT ![r] = TRUE]
    /\ wRes' = [wRes EXCEPT ![t] = NoResult]
    /\ wPc' = [wPc EXCEPT ![t] = "perform"]
    /\ UNCHANGED <<mgrVars, wIdle, wReq, wHandle, wRet, status, histVars>>

\* curl_multi_add_handle fails, always so on a null multi-handle.
\* Mutant of AddFail: the CURLMcode (CURLM_BAD_HANDLE = 1) is passed to
\* SetDone instead of 500.
AddFailMultiCode(t) ==
    /\ wPc[t] = "add"
    /\ ~wHandle[t] \/ "add" \in EngineFaults
    /\ SetDone(wReq[t], 1)
    /\ CallDone(t, "try")
    /\ UNCHANGED <<mgrVars, wIdle, wReq, wHandle, wRes, active, histVars>>

AddFail(t) ==
    /\ wPc[t] = "add"
    /\ ~wHandle[t] \/ "add" \in EngineFaults
    /\ SetDone(wReq[t], HttpError)
    /\ CallDone(t, "try")
    /\ UNCHANGED <<mgrVars, wIdle, wReq, wHandle, wRes, active, histVars>>

\* The messages a drain of curl_multi_info_read may yield: the transfer's
\* CURLMSG_DONE result once, after which the handle is removed.
Drained(res) == IF res = NoResult THEN {NoResult} \cup ResultCodes ELSE {res}

\* One iteration of the `while (true)` loop in which curl_multi_perform and
\* curl_multi_wait both succeed: a result may be captured, and the loop goes
\* round again.  Nothing else ends the loop: the trailing
\* `while (running_handles);` is never reached.
PerformOk(t) ==
    /\ wPc[t] = "perform"
    /\ \E res \in Drained(wRes[t]) : wRes' = [wRes EXCEPT ![t] = res]
    /\ UNCHANGED <<mgrVars, wPc, wIdle, wReq, wHandle, wRet, reqVars, histVars>>

\* curl_multi_perform fails: 500, and RunCurl returns false, even when the
\* transfer's result was captured by an earlier iteration.
PerformFail(t) ==
    /\ wPc[t] = "perform"
    /\ "perform" \in EngineFaults
    /\ SetDone(wReq[t], HttpError)
    /\ CallDone(t, "try")
    /\ wRes' = [wRes EXCEPT ![t] = NoResult]
    /\ UNCHANGED <<mgrVars, wIdle, wReq, wHandle, active, histVars>>

\* curl_multi_wait fails after a drain: the loop breaks into the empty
\* `while (running_handles);`.  With the result captured the transfer has
\* ended (running_handles is 0), the request gets the result and RunCurl
\* returns true, so the worker goes back to TryConsume.  With no result the
\* transfer still runs (running_handles is 1): the empty loop spins for
\* ever, or, being an infinite loop without side effects, is dropped by the
\* compiler, and then the request gets 500 and RunCurl returns false.
\* Mutant of WaitFail: after SetDone(res) the `return true` is missing and
\* the perform loop goes on.
WaitFailNoReturn(t) ==
    /\ wPc[t] = "perform"
    /\ "wait" \in EngineFaults
    /\ \E res \in Drained(wRes[t]) :
          IF res = NoResult
            THEN \/ /\ SetDone(wReq[t], HttpError)
                    /\ CallDone(t, "try")
                 \/ /\ wPc' = [wPc EXCEPT ![t] = "spin"]
                    /\ UNCHANGED <<status, wRet>>
            ELSE /\ SetDone(wReq[t], res)
                 /\ UNCHANGED <<wPc, wRet>>
    /\ wRes' = [wRes EXCEPT ![t] = NoResult]
    /\ UNCHANGED <<mgrVars, wIdle, wReq, wHandle, active, histVars>>

WaitFail(t) ==
    /\ wPc[t] = "perform"
    /\ "wait" \in EngineFaults
    /\ \E res \in Drained(wRes[t]) :
          IF res = NoResult
            THEN \/ /\ SetDone(wReq[t], HttpError)
                    /\ CallDone(t, "try")
                 \/ /\ wPc' = [wPc EXCEPT ![t] = "spin"]
                    /\ UNCHANGED <<status, wRet>>
            ELSE /\ SetDone(wReq[t], res)
                 /\ wPc' = [wPc EXCEPT ![t] = "try"]
                 /\ UNCHANGED wRet
    /\ wRes' = [wRes EXCEPT ![t] = NoResult]
    /\ UNCHANGED <<mgrVars, wIdle, wReq, wHandle, active, histVars>>

-----------------------------------------------------------------------------
(* TPCQueue::Done and TPCRequestManager::Done                              *)

\* Under the queue's mutex: latch m_done and erase the worker from
\* m_workers (a no-op if it was erased before).  If none is left, the queue
\* mutex is released and the manager is called.
\* Mutant of QueueDone: m_parent.Done(m_label) is never called.
QueueDoneNoRemove(t) ==
    LET q == WQueue(t) IN
    /\ wPc[t] = "done1"
    /\ qDone' = [qDone EXCEPT ![q] = TRUE]
    /\ qWorkers' = [qWorkers EXCEPT ![q] = @ \ {t}]
    /\ wPc' = [wPc EXCEPT ![t] = wRet[t]]
    /\ UNCHANGED <<poolMap, ops, pc, pQueue, wIdle, wReq, wHandle, wRes, wRet,
                   reqVars, histVars>>

QueueDone(t) ==
    LET q == WQueue(t)
        left == qWorkers[q] \ {t}
    IN
    /\ wPc[t] = "done1"
    /\ qDone' = [qDone EXCEPT ![q] = TRUE]
    /\ qWorkers' = [qWorkers EXCEPT ![q] = left]
    /\ wPc' = [wPc EXCEPT ![t] = IF left = {} THEN "done2" ELSE wRet[t]]
    /\ UNCHANGED <<poolMap, ops, pc, pQueue, wIdle, wReq, wHandle, wRes, wRet,
                   reqVars, histVars>>

\* Under the map's exclusive lock: erase the entry of the queue's label,
\* whichever queue it holds now.
ManagerDone(t) ==
    /\ wPc[t] = "done2"
    /\ poolMap' = [poolMap EXCEPT ![QLabel(WQueue(t))] = NoQueue]
    /\ wPc' = [wPc EXCEPT ![t] = wRet[t]]
    /\ UNCHANGED <<ops, qWorkers, qDone, pc, pQueue, wIdle, wReq, wHandle,
                   wRes, wRet, reqVars, histVars>>

-----------------------------------------------------------------------------

\* The steps a worker takes whatever the engine does; the engine's failures
\* are in WorkerFault, which fairness never forces.
WorkerStep(t) ==
    \/ StartOk(t) \/ TryConsume(t) \/ ConsumeUntilEnter(t)
    \/ ConsumeUntilWake(t) \/ AddOk(t) \/ PerformOk(t)
    \/ QueueDone(t) \/ ManagerDone(t)
    \/ /\ ~wHandle[t]
       /\ AddFail(t)

WorkerFault(t) ==
    \/ StartFail(t) \/ AddFail(t) \/ PerformFail(t) \/ WaitFail(t)

\* A worker in the empty `while (running_handles);` loop keeps running and
\* changes nothing.
Spin(t) ==
    /\ wPc[t] = "spin"
    /\ UNCHANGED vars

\* Every producer has returned and every worker has exited.
Terminated ==
    /\ \A r \in Reqs : pc[r] \in {"accepted", "rejected"}
    /\ \A t \in Threads : wPc[t] \in {"none", "exited"}
    /\ UNCHANGED vars

Next ==
    \/ \E r \in Reqs : Producer(r)
    \/ \E t \in Threads : WorkerStep(t) \/ WorkerFault(t) \/ Spin(t)
    \/ Terminated

\* Threads are scheduled by the OS and a wait_for ends at its timeout at the
\* latest: every producer and worker thread is weakly fair.  The engine's
\* failures are not.
Fairness ==
    /\ \A r \in Reqs : WF_vars(Producer(r))
    /\ \A t \in Threads : WF_vars(WorkerStep(t))

Spec == Init /\ [][Next]_vars /\ Fairness

-----------------------------------------------------------------------------
(* Properties                                                              *)

\* Where each worker is in TPCWorker::Run.
WorkerPcs == {"none", "start", "try", "wait", "waiting", "add", "perform",
              "done1", "done2", "spin", "exited"}

TypeOK ==
    /\ poolMap \in [Labels -> Queues \cup {NoQueue}]
    /\ ops \in [Queues -> Seq(Reqs)]
    /\ qWorkers \in [Queues -> SUBSET Threads]
    /\ qDone \in [Queues -> BOOLEAN]
    /\ pc \in [Reqs -> {"idle", "lookup", "create", "produce", "accepted",
                        "rejected"}]
    /\ pQueue \in [Reqs -> Queues \cup {NoQueue}]
    /\ wPc \in [Threads -> WorkerPcs]
    /\ wIdle \in [Threads -> BOOLEAN]
    /\ wReq \in [Threads -> Reqs]
    /\ wHandle \in [Threads -> BOOLEAN]
    /\ wRes \in [Threads -> {NoResult} \cup ResultCodes]
    /\ wRet \in [Threads -> {"try", "exited"}]
    /\ status \in [Reqs -> {Pending, HttpError} \cup ResultCodes]
    /\ active \in [Reqs -> BOOLEAN]
    /\ admitted \in [Labels -> Seq(Reqs)]
    /\ taken \in [Labels -> Seq(Reqs)]

\* TPCQueue::Produce rejects a request when m_ops holds m_max_pending_ops,
\* so no queue ever holds more pending requests than that, however producers
\* and consumers of several queues interleave.
PendingBound == \A q \in Queues : Len(ops[q]) <= MaxPending

\* The workers that hold request r: they took it and RunCurl has not yet
\* finished it (a worker spinning in `while (running_handles);` never
\* will).
Holders(r) ==
    {t \in Threads : wPc[t] \in {"add", "perform", "spin"} /\ wReq[t] = r}

\* The places request r occupies in the m_ops of all queues, destroyed or
\* not.
Slots(r) ==
    UNION {{<<q, i>> : i \in {j \in DOMAIN ops[q] : ops[q][j] = r}} :
           q \in Queues}

\* The places request r occupies in the m_ops of queues not yet destroyed.
LiveSlots(r) == {s \in Slots(r) : ~Freed(s[1])}

\* Every request that Produce accepted is, until SetDone, in exactly one
\* place: once in the m_ops of a queue that still exists or in the hands
\* of one worker; after SetDone it is in none.  A request Produce refused,
\* or has not yet queued, is nowhere and pending.  This is what Produce,
\* TryConsume, ConsumeUntil, RunCurl and the queue's destruction together
\* must keep (the spec: a queue is destroyed once done and without
\* workers, and every admitted request becomes terminal): no request lost
\* with a destroyed queue, run twice or finished twice.
RequestConservation ==
    \A r \in Reqs :
        LET n == Cardinality(LiveSlots(r)) + Cardinality(Holders(r)) IN
        IF pc[r] = "accepted"
          THEN IF status[r] = Pending THEN n = 1 ELSE n = 0
          ELSE n = 0 /\ status[r] = Pending

\* The lifecycle of request r that the abstract specification sees: a
\* final status, a refusal, a worker holding it, a slot in a queue, or
\* not yet queued.
AbsPhase ==
    [r \in Reqs |->
        CASE status[r] # Pending -> "finished"
          [] pc[r] = "rejected"  -> "rejected"
          [] Holders(r) # {}     -> "running"
          [] Slots(r) # {}       -> "queued"
          [] OTHER               -> "new"]

Life == INSTANCE TpcLifecycle
            WITH phase <- AbsPhase, result <- status,
                 Codes <- {HttpError} \cup ResultCodes

\* The pool implements the lifecycle TpcLifecycle promises: every step of
\* producers, workers and the map is a step of one request from new to
\* rejected or queued, from queued to running, or from running to a
\* terminal status set once and never changed (the spec: "once status
\* becomes terminal it is immutable"), across queue removal, re-creation
\* and libcurl failures.
LifecycleRefined == Life!Spec

\* Within a label, workers dequeue requests in the order Produce queued
\* them (the spec's per-label FIFO): the dequeue history of every label is
\* a prefix of its admission history.
FifoPerLabel == \A l \in Labels : IsPrefix(taken[l], admitted[l])

\* Worker t will still dequeue from its queue: it has not broken out of
\* Run's loop.
Consuming(t) ==
    \/ wPc[t] \in {"start", "try", "wait", "waiting", "add", "perform"}
    \/ wPc[t] \in {"done1", "done2"} /\ wRet[t] = "try"

\* A request queued in a queue has a worker thread that will still dequeue
\* from that queue; otherwise it waits forever (the spec: every admitted
\* request eventually becomes terminal).
NoStrandedRequest ==
    \A q \in Queues :
        ops[q] # <<>> => \E t \in Threads : WQueue(t) = q /\ Consuming(t)

\* Every worker thread that runs TPCWorker::Run's loop is in its queue's
\* m_workers, so the m_max_workers cap counts it (the spec: a worker
\* exits after it calls Queue.Done).
ThreadsRegistered ==
    \A t \in Threads :
        wPc[t] \in {"start", "try", "wait", "waiting", "add", "perform", "spin"}
            => t \in qWorkers[WQueue(t)]

\* Every request Produce accepted eventually gets a final status from the
\* worker that runs it (the spec: assuming the engine eventually returns a
\* result).
RequestCompletes ==
    \A r \in Reqs : pc[r] = "accepted" ~> status[r] # Pending

\* Every call of TPCRequestManager::Produce returns: its retry loop on a
\* done queue ends because the queue removes itself from m_pool_map.
ProduceReturns ==
    \A r \in Reqs : pc[r] # "idle" ~> pc[r] \in {"accepted", "rejected"}

=============================================================================
