\* Two transactions: one about control, one about refs, burning and owners.
CONSTANTS
    u1 = u1
    t1 = t1
    c1 = c1
    c2 = c2
    i = i
    Transactions <- ControlAndTokens
    Functions = {f}
    Words = {w0, w1}
    ZeroWord = w0
    MaxRefs = 1
    MaxHandlers = 1
    None = None
SPECIFICATION Spec
CHECK_DEADLOCK FALSE
INVARIANTS OnlyCurrentIsActive AcceptedAreAtRest
PROPERTIES ClaimsHonoured
