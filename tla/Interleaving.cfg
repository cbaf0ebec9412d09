SPECIFICATION Spec
CONSTANTS
    m1 = m1  m2 = m2  v1 = v1  h1 = h1  h2 = h2
    Unit = Unit  NoMethod = NoMethod  NoKey = NoKey
    Methods = {m1, m2}
    Values = {Unit, v1}
    ValidValues = {Unit, v1}
    Handles = {h1, h2}
    MaxUtxos = 3
SYMMETRY Interchangeable
INVARIANT LiveIffCallable
PROPERTY consumed_utxo_stays_consumed
