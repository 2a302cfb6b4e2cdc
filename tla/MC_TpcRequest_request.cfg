\* One WaitFor caller (finite or infinite duration), the worker and a
\* cancelling producer.
CONSTANTS
    w1 = w1
    w2 = w2
    c1 = c1
    Waiters = {w1}
    Cancellers = {c1}
    ResultCodes = {0, 28}
SPECIFICATION Spec
INVARIANT TypeOK
INVARIANT NeverSpurious
PROPERTY WaitersWake
