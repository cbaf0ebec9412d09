SPECIFICATION FairSpec
CONSTANTS
    admin = admin  alice = alice
    lib = lib  app = app  junk = junk  odd = odd
    own = own  other = other
    r1 = r1  r2 = r2  r3 = r3
    Request = {r1, r2, r3}
    Key = {admin, alice}
    AdminKey = admin
    Contract = {lib, app, junk, odd}
    Imports <- MCImports
    Compiles = {lib, app, odd}
    Links = {lib, app, junk}
    Network = {own, other}
    OwnNetwork = own
    Envelope <- PatientEnvelopes
    NoEnvelope = NoEnvelope
    MaxU64 = 5
    MaxRequests = 2
    Workers = 1
    Disconnects = FALSE
INVARIANT NothingUnlogged
PROPERTY ReceivedIsAnswered
