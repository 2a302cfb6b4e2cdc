\* A request queued while the only worker is on its way out.
CONSTANTS
    l1 = l1
    l2 = l2
    r1 = r1
    r2 = r2
    r3 = r3
    NoQueue = NoQueue
    Labels = {l1}
    Reqs = {r1, r2, r3}
    ReqLabel <- MCReqLabelOne
    MaxPending = 2
    ResultCodes = {0}
    MaxWorkers = 1
    EngineFaults = {"wait"}
SPECIFICATION Spec
INVARIANT NoStrandedRequest
