\* Transactions of up to two inputs and one new output.
CONSTANTS
    Contract = {c1}
    Storage = {s0, s1}
    MaxInputs = 2
    MaxOutputs = 1
    MaxNonce = 3
    None = None
SPECIFICATION Spec
INVARIANTS IdsAreFresh OneEndPerChain
