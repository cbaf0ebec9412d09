\* One transaction of a UTXO, a token and a script.
CONSTANTS
    u1 = u1
    t1 = t1
    c1 = c1
    i = i
    Transactions <- OneTransaction
    Functions = {f}
    Words = {w0, w1}
    ZeroWord = w0
    MaxRefs = 1
    MaxHandlers = 1
    MaxInstalls = 1
    Pid0 = u1
    None = None
SPECIFICATION CircuitSpec
CHECK_DEADLOCK FALSE
INVARIANTS CopiesAgree Provable ProvedIsAccepted
