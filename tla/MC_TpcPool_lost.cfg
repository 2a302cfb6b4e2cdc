\* Requests queued on a queue that is then destroyed: a failing curl_multi_wait
\* is the only fault, two labels, two workers per queue.
\* Requests queued on a queue that is then destroyed: a failing curl_multi_wait
\* is the only fault, two labels, two workers per queue.
CONSTANTS
    l1 = l1
    l2 = l2
    r1 = r1
    r2 = r2
    r3 = r3
    NoQueue = NoQueue
    Labels = {l1, l2}
    Reqs = {r1, r2, r3}
    ReqLabel <- MCReqLabelTwo
    MaxPending = 1
    MaxWorkers = 2
    EngineFaults = {"wait"}
    ResultCodes = {0, 28}
SPECIFICATION Spec
INVARIANT RequestConservation
