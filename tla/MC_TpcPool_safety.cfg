\* Safety of the pool against every failure libcurl may report: two labels,
\* three requests, one pending slot per queue, two workers per queue.
CONSTANTS
    l1 = l1
    l2 = l2
    r1 = r1
    r2 = r2
    r3 = r3
    NoQueue = NoQueue
    Labels = {l1, l2}
    Reqs = {r1, r2, r3}
    ReqLabel <- MCReqLabelTwo
    MaxPending = 1
    MaxWorkers = 2
    EngineFaults = {"init", "add", "perform", "wait"}
    ResultCodes = {0, 28}
SPECIFICATION Spec
INVARIANT TypeOK
INVARIANT PendingBound
PROPERTY LifecycleRefined
