\* Two WaitFor callers and the worker; no external SetDone.
CONSTANTS
    w1 = w1
    w2 = w2
    c1 = c1
    Waiters = {w1, w2}
    Cancellers = {}
    ResultCodes = {0}
SPECIFICATION Spec
PROPERTY WaitersWake
