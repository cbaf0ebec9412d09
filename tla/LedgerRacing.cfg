SPECIFICATION Spec
CONSTANTS
    admin = admin  alice = alice
    lib = lib  app = app  junk = junk  odd = odd
    own = own  other = other
    r1 = r1  r2 = r2  r3 = r3
    Request = {r1, r2}
    Key = {admin, alice}
    AdminKey = admin
    Contract = {lib, app}
    Imports <- MCImports
    Compiles = {lib, app}
    Links = {lib, app}
    Network = {own, other}
    OwnNetwork = own
    Envelope <- RacingEnvelopes
    NoEnvelope = NoEnvelope
    MaxU64 = 5
    MaxRequests = 2
    Workers = 1
    Disconnects = TRUE
SYMMETRY Slots
INVARIANTS
    TypeOK
    NonceSpentOnce
    BalanceConserved
    ImportClosure
    StoredArePaid
    LogFaithful
    PermitsAccounted
