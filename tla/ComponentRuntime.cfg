\* A script, a helper script, two UTXOs and a token.  The call ends.
CHECK_DEADLOCK FALSE
CONSTANTS
    root = root  helper = helper  u1 = u1  u2 = u2  coin = coin
    account = account  vault = vault  bank = bank
    A = A  P = P  B = B  close = close  peek = peek  set = set  y1 = y1  y2 = y2  y3 = y3
    Script = {root, helper}
    Root = root
    Utxo = {u1, u2}
    Token = {coin}
    Def = {account, vault}
    Component <- MCComponent
    Abi = {A, P, B}
    Methods <- MCMethods
    Impl <- MCImpl
    YieldPoint <- MCYieldPoint
    YieldAbis <- MCYieldAbis
    Resuming <- MCResuming
    MaxRep = 3
    MaxDepth = 3
    Scope = {1}
    None = None
SPECIFICATION Spec
SYMMETRY Instances
INVARIANTS
    HasMethodIsCurrent
    LookupFailsOnlyUnimplemented
    TokensAreLinear
    ReturnedNeverRuns
