---------------------------- MODULE LedgerServer ----------------------------
(***************************************************************************)
(* The in-memory ledger of starstream-ledger and the HTTP handlers that    *)
(* read and write it (src/starstream-ledger/src/server).                   *)
(*                                                                         *)
(* Every request is a future of a multi-threaded tokio runtime.  A handler *)
(* is cut into one action for each stretch of code between two await       *)
(* points, and into one action per atomic operation where two of them run  *)
(* under a shared (read) lock.  A future may be dropped at an await point  *)
(* when its client goes away: Disconnect.                                  *)
(*                                                                         *)
(* An envelope is a COSE_Sign1 message whose signature verifies, in the    *)
(* canonical encoding read_signed_envelope gives it.  Anyone can submit    *)
(* any envelope any number of times (GET /contracts serves them).          *)
(***************************************************************************)
EXTENDS Integers, Sequences, FiniteSets, FiniteSetsExt, SequencesExt

CONSTANTS
    Request,        \* slots for concurrent requests
    Key,            \* Ed25519 public keys
    AdminKey,       \* the key given to Ledger::new
    Contract,       \* sha-256 digests of wasm components
    Imports,        \* the digests a component imports UTXOs or scripts from
    Compiles,       \* components wizer instruments and wasmtime compiles
    Links,          \* components Contract::new accepts once imports resolve
    Network,        \* network identifiers
    OwnNetwork,     \* the identifier of this ledger
    Envelope,       \* the signed envelopes clients hold
    NoEnvelope,     \* a vacant entry
    MaxU64,         \* u64::MAX
    MaxRequests,    \* permits of the request semaphore
    Workers,        \* threads of the runtime that polls the requests
    Disconnects     \* whether clients may go away before the answer

PUBLISH_CONTEXT == "starstream:publish"
FUND_CONTEXT == "starstream:fund"

U64 == 0 .. MaxU64

(***************************************************************************)
(* A decoded payload.  A publish transaction carries the component `wasm`  *)
(* (named by its digest); a fund transaction `account` and `amount`; the   *)
(* fields of the other kind are not looked at.  `size` is the length of    *)
(* the canonical encoding.                                                 *)
(***************************************************************************)
EnvelopeType ==
    [context : {PUBLISH_CONTEXT, FUND_CONTEXT}, network : Network, key : Key,
     nonce : U64, size : U64, wasm : Contract, account : Key, amount : U64]

ASSUME ConstantsAssumption ==
    /\ AdminKey \in Key
    /\ Imports \in [Contract -> SUBSET Contract]
    /\ Compiles \subseteq Contract
    /\ Links \subseteq Contract
    /\ OwnNetwork \in Network
    /\ MaxU64 \in Nat
    /\ IsFiniteSet(Request)
    /\ MaxRequests \in Nat
    /\ Workers \in Nat
    /\ Disconnects \in BOOLEAN

ASSUME EnvelopeAssumption ==
    /\ Envelope \subseteq EnvelopeType
    /\ IsFiniteSet(Envelope)
    /\ NoEnvelope \notin Envelope

VARIABLES
    accounts,       \* keys with an entry in the accounts map
    balance,        \* Account::balance
    lastNonce,      \* Account::last_nonce
    adminNonce,     \* AdminAccount::last_nonce
    contracts,      \* digest -> envelope of the stored contract
    blocks,         \* the block log
    permits,        \* available permits of the request semaphore
    pc,             \* the await point each request is suspended at
    env,            \* the envelope a request is working on
    reply,          \* the last answer sent on each slot
    charged,        \* history: how often each envelope was charged
    credited        \* history: how often each envelope was credited

ledger == <<accounts, balance, lastNonce, adminNonce, contracts, blocks>>
history == <<charged, credited>>
vars == <<accounts, balance, lastNonce, adminNonce, contracts, blocks,
          permits, pc, env, reply, charged, credited>>

PutStates == {"put_receive", "put_charge", "put_check", "put_resolve",
              "put_insert", "put_record"}
FundStates == {"fund_receive", "fund_credit", "fund_record"}
RpcStates == {"rpc_receive", "rpc_params", "rpc_call"}
States == {"idle", "get_receive"} \cup PutStates \cup FundStates \cup RpcStates

Replies == {"none", "Ok", "BadRequest", "AccountNotFound", "NonceTooLow",
            "InsufficientBalance", "ContractImportNotFound", "NotAdmin",
            "NotFound", "Runtime", "ServiceUnavailable"}

Stored == {d \in Contract : contracts[d] # NoEnvelope}

Init ==
    /\ accounts = {}
    /\ balance = [k \in Key |-> 0]
    /\ lastNonce = [k \in Key |-> 0]
    /\ adminNonce = 0
    /\ contracts = [d \in Contract |-> NoEnvelope]
    /\ blocks = <<>>
    /\ permits = MaxRequests
    /\ pc = [r \in Request |-> "idle"]
    /\ env = [r \in Request |-> NoEnvelope]
    /\ reply = [r \in Request |-> "none"]
    /\ charged = [e \in Envelope |-> 0]
    /\ credited = [e \in Envelope |-> 0]

-----------------------------------------------------------------------------
(* The service function: admission and the end of a request.               *)

Goto(r, state) ==
    /\ pc' = [pc EXCEPT ![r] = state]
    /\ UNCHANGED <<permits, reply>>

\* The future completes: the answer goes out and the permit is dropped.
Finish(r, answer) ==
    /\ pc' = [pc EXCEPT ![r] = "idle"]
    /\ env' = [env EXCEPT ![r] = NoEnvelope]
    /\ reply' = [reply EXCEPT ![r] = answer]
    /\ permits' = permits + 1

\* try_acquire succeeds and the request is routed to its handler.
Admit(r, state) ==
    /\ pc[r] = "idle"
    /\ permits > 0
    /\ permits' = permits - 1
    /\ pc' = [pc EXCEPT ![r] = state]
    /\ reply' = [reply EXCEPT ![r] = "none"]
    /\ UNCHANGED <<env, ledger, history>>

\* No permit is left.
Overload(r) ==
    /\ pc[r] = "idle"
    /\ permits = 0
    /\ reply' = [reply EXCEPT ![r] = "ServiceUnavailable"]
    /\ UNCHANGED <<pc, env, permits, ledger, history>>

\* Await points: everywhere but between the two atomic updates that run
\* under the read lock of the accounts.
Awaiting == States \ {"idle", "put_charge"}

\* Mutant: a dropped future forgets its permit.
Disconnect_LeaksPermit(r) ==
    /\ Disconnects
    /\ pc[r] \in Awaiting
    /\ pc' = [pc EXCEPT ![r] = "idle"]
    /\ env' = [env EXCEPT ![r] = NoEnvelope]
    /\ UNCHANGED <<reply, permits, ledger, history>>

\* The connection is gone and hyper drops the handler's future.
Disconnect(r) ==
    /\ Disconnects
    /\ pc[r] \in Awaiting
    /\ Finish(r, "none")
    /\ UNCHANGED <<ledger, history>>

\* Some check on the request itself fails: target, media type, size, COSE
\* headers, key, signature, payload shape, context, network or digest.
Malformed(r) ==
    /\ pc[r] \in {"put_receive", "fund_receive", "get_receive", "rpc_receive"}
    /\ Finish(r, "BadRequest")
    /\ UNCHANGED <<ledger, history>>

-----------------------------------------------------------------------------
(* handle_contract_put                                                     *)

PublishOk(e, digest) ==
    /\ e.context = PUBLISH_CONTEXT
    /\ e.network = OwnNetwork
    /\ e.wasm = digest

\* Mutant: the last nonce is accepted again.
FreshNonce_OrEqual(last, nonce) == nonce >= last

FreshNonce(last, nonce) == nonce > last

\* The account is looked up and its nonce advanced, under the read lock.
PutAuthorize(r) ==
    /\ pc[r] = "put_receive"
    /\ \E e \in Envelope, digest \in Contract :
        /\ PublishOk(e, digest)
        /\ \/ /\ e.key \notin accounts
              /\ Finish(r, "AccountNotFound")
              /\ UNCHANGED lastNonce
           \/ /\ e.key \in accounts
              /\ ~FreshNonce(lastNonce[e.key], e.nonce)
              /\ Finish(r, "NonceTooLow")
              /\ UNCHANGED lastNonce
           \/ /\ e.key \in accounts
              /\ FreshNonce(lastNonce[e.key], e.nonce)
              /\ lastNonce' = [lastNonce EXCEPT ![e.key] = e.nonce]
              /\ env' = [env EXCEPT ![r] = e]
              /\ Goto(r, "put_charge")
    /\ UNCHANGED <<accounts, balance, adminNonce, contracts, blocks, history>>

\* Mutant: publication goes on when the balance is too low.
PutCharge_Unpaid(r) ==
    LET e == env[r]
        pays == balance[e.key] >= e.size
    IN
    /\ pc[r] = "put_charge"
    /\ balance' = [balance EXCEPT ![e.key] = IF pays THEN @ - e.size ELSE @]
    /\ charged' = [charged EXCEPT ![e] = IF pays THEN @ + 1 ELSE @]
    /\ Goto(r, "put_check")
    /\ UNCHANGED <<env, accounts, lastNonce, adminNonce, contracts, blocks, credited>>

\* One unit per byte of the envelope; the nonce is already spent.
PutCharge(r) ==
    LET e == env[r] IN
    /\ pc[r] = "put_charge"
    /\ \/ /\ balance[e.key] < e.size
          /\ Finish(r, "InsufficientBalance")
          /\ UNCHANGED <<balance, charged>>
       \/ /\ balance[e.key] >= e.size
          /\ balance' = [balance EXCEPT ![e.key] = @ - e.size]
          /\ charged' = [charged EXCEPT ![e] = @ + 1]
          /\ Goto(r, "put_check")
          /\ UNCHANGED env
    /\ UNCHANGED <<accounts, lastNonce, adminNonce, contracts, blocks, credited>>

\* First look at the contracts, then instrumentation and compilation.
PutCheck(r) ==
    LET digest == env[r].wasm IN
    /\ pc[r] = "put_check"
    /\ \/ /\ digest \in Stored
          /\ Finish(r, "Ok")
       \/ /\ digest \notin Stored
          /\ digest \notin Compiles
          /\ Finish(r, "Runtime")
       \/ /\ digest \notin Stored
          /\ digest \in Compiles
          /\ Goto(r, "put_resolve")
          /\ UNCHANGED env
    /\ UNCHANGED <<ledger, history>>

\* Mutant: imports are taken on trust.
ImportsResolved_Unchecked(digest) == digest \in Contract

\* Every imported digest names a stored contract.
ImportsResolved(digest) == Imports[digest] \subseteq Stored

\* Mutant: a missing import is waited for.
PutResolve_Waits(r) ==
    LET digest == env[r].wasm IN
    /\ pc[r] = "put_resolve"
    /\ \/ /\ digest \in Stored
          /\ Finish(r, "Ok")
       \/ /\ digest \notin Stored
          /\ ImportsResolved(digest)
          /\ Goto(r, "put_insert")
          /\ UNCHANGED env
    /\ UNCHANGED <<ledger, history>>

\* Second look; the imports are resolved under the same read lock and the
\* component is linked against them.
PutResolve(r) ==
    LET digest == env[r].wasm IN
    /\ pc[r] = "put_resolve"
    /\ \/ /\ digest \in Stored
          /\ Finish(r, "Ok")
       \/ /\ digest \notin Stored
          /\ ~ImportsResolved(digest)
          /\ Finish(r, "ContractImportNotFound")
       \/ /\ digest \notin Stored
          /\ ImportsResolved(digest)
          /\ digest \notin Links
          /\ Finish(r, "Runtime")
       \/ /\ digest \notin Stored
          /\ ImportsResolved(digest)
          /\ digest \in Links
          /\ Goto(r, "put_insert")
          /\ UNCHANGED env
    /\ UNCHANGED <<ledger, history>>

\* Mutant: the vacancy is not checked again under the write lock.
PutInsert_Overwrites(r) ==
    /\ pc[r] = "put_insert"
    /\ contracts' = [contracts EXCEPT ![env[r].wasm] = env[r]]
    /\ Goto(r, "put_record")
    /\ UNCHANGED <<env, accounts, balance, lastNonce, adminNonce, blocks, history>>

\* Mutant: the client is answered as soon as the contract is stored.
PutInsert_Unlogged(r) ==
    LET digest == env[r].wasm IN
    /\ pc[r] = "put_insert"
    /\ contracts' = [contracts EXCEPT ![digest] = IF digest \in Stored THEN @ ELSE env[r]]
    /\ Finish(r, "Ok")
    /\ UNCHANGED <<accounts, balance, lastNonce, adminNonce, blocks, history>>

\* Third look, now under the write lock.
PutInsert(r) ==
    LET digest == env[r].wasm IN
    /\ pc[r] = "put_insert"
    /\ \/ /\ digest \in Stored
          /\ Finish(r, "Ok")
          /\ UNCHANGED contracts
       \/ /\ digest \notin Stored
          /\ contracts' = [contracts EXCEPT ![digest] = env[r]]
          /\ Goto(r, "put_record")
          /\ UNCHANGED env
    /\ UNCHANGED <<accounts, balance, lastNonce, adminNonce, blocks, history>>

\* A block of one action, its height taken under the write lock.
Record(e) == blocks' = Append(blocks, [height |-> Len(blocks) + 1, action |-> e])

PutRecord(r) ==
    /\ pc[r] = "put_record"
    /\ Record(env[r])
    /\ Finish(r, "Ok")
    /\ UNCHANGED <<accounts, balance, lastNonce, adminNonce, contracts, history>>

-----------------------------------------------------------------------------
(* handle_fund_post                                                        *)

FundOk(e) == e.context = FUND_CONTEXT /\ e.network = OwnNetwork

FundAuthorize(r) ==
    /\ pc[r] = "fund_receive"
    /\ \E e \in Envelope :
        /\ FundOk(e)
        /\ \/ /\ e.key # AdminKey
              /\ Finish(r, "NotAdmin")
              /\ UNCHANGED adminNonce
           \/ /\ e.key = AdminKey
              /\ ~FreshNonce(adminNonce, e.nonce)
              /\ Finish(r, "NonceTooLow")
              /\ UNCHANGED adminNonce
           \/ /\ e.key = AdminKey
              /\ FreshNonce(adminNonce, e.nonce)
              /\ adminNonce' = e.nonce
              /\ env' = [env EXCEPT ![r] = e]
              /\ Goto(r, "fund_credit")
    /\ UNCHANGED <<accounts, balance, lastNonce, contracts, blocks, history>>

\* Mutants: plain and wrapping addition.
SaturatingAdd_Plain(a, b) == a + b
SaturatingAdd_Wrapping(a, b) == (a + b) % (MaxU64 + 1)

SaturatingAdd(a, b) == IF a + b > MaxU64 THEN MaxU64 ELSE a + b

\* Holders of the read lock of the accounts: publishers between the nonce
\* and the charge.
AccountReaders == {r \in Request : pc[r] = "put_charge"}

FundCredit(r) ==
    LET e == env[r] IN
    /\ pc[r] = "fund_credit"
    /\ AccountReaders = {}
    /\ accounts' = accounts \cup {e.account}
    /\ balance' = [balance EXCEPT ![e.account] = SaturatingAdd(@, e.amount)]
    /\ credited' = [credited EXCEPT ![e] = @ + 1]
    /\ Goto(r, "fund_record")
    /\ UNCHANGED <<lastNonce, adminNonce, contracts, blocks, env, charged>>

FundRecord(r) ==
    /\ pc[r] = "fund_record"
    /\ Record(env[r])
    /\ Finish(r, "Ok")
    /\ UNCHANGED <<accounts, balance, lastNonce, adminNonce, contracts, history>>

-----------------------------------------------------------------------------
(* handle_contract_get, handle_contract_head and handle_rpc_post: they     *)
(* leave the ledger alone.                                                 *)

ContractGet(r) ==
    /\ pc[r] = "get_receive"
    /\ \E digest \in Contract :
        \/ digest \in Stored /\ Finish(r, "Ok")
        \/ digest \notin Stored /\ Finish(r, "NotFound")
    /\ UNCHANGED <<ledger, history>>

\* The height of the last block.
RpcHeight(r) ==
    /\ pc[r] = "rpc_receive"
    /\ Finish(r, "Ok")
    /\ UNCHANGED <<ledger, history>>

\* A call of a coordination script: the contract is looked up and then used
\* with no lock held.
RpcLookup(r) ==
    /\ pc[r] = "rpc_receive"
    /\ \E digest \in Contract :
        \/ /\ digest \in Stored
           /\ env' = [env EXCEPT ![r] = contracts[digest]]
           /\ Goto(r, "rpc_params")
        \/ Finish(r, "NotFound")        \* no such contract, or no such script in it
    /\ UNCHANGED <<ledger, history>>

\* The parameters are read from the rest of the body.
RpcParams(r) ==
    /\ pc[r] = "rpc_params"
    /\ \/ Finish(r, "BadRequest")
       \/ Goto(r, "rpc_call") /\ UNCHANGED env
    /\ UNCHANGED <<ledger, history>>

\* The script has run in a store of its own, or has trapped.
RpcCall(r) ==
    /\ pc[r] = "rpc_call"
    /\ \E answer \in {"Ok", "Runtime"} : Finish(r, answer)
    /\ UNCHANGED <<ledger, history>>

-----------------------------------------------------------------------------
Arrive(r) ==
    \/ \E state \in {"put_receive", "fund_receive", "get_receive", "rpc_receive"} :
           Admit(r, state)
    \/ Overload(r)

\* What the server does on its own once a request has been received.
Serve(r) ==
    \/ PutCharge(r) \/ PutCheck(r) \/ PutResolve(r) \/ PutInsert(r) \/ PutRecord(r)
    \/ FundCredit(r) \/ FundRecord(r)

\* What waits for somebody else: for bytes of the client's request, or for the
\* end of a contract's script, which runs without fuel and without an epoch.
Await(r) ==
    \/ Malformed(r) \/ PutAuthorize(r) \/ FundAuthorize(r)
    \/ ContractGet(r) \/ RpcHeight(r)
    \/ RpcLookup(r) \/ RpcParams(r) \/ RpcCall(r)

Next == \E r \in Request : Arrive(r) \/ Await(r) \/ Serve(r) \/ Disconnect(r)

Spec == Init /\ [][Next]_vars

\* A script in progress keeps its worker thread.
WorkerFree == Cardinality({r \in Request : pc[r] = "rpc_call"}) < Workers

\* tokio runs a woken task when workers come free for it again and again, and
\* its RwLock queues waiters first come first served, so a writer is not
\* overtaken for ever.  Nobody has to send his request and no script has to
\* end: Await is not fair.
Fairness == \A r \in Request : SF_vars(WorkerFree /\ Serve(r))

FairSpec == Spec /\ Fairness

-----------------------------------------------------------------------------
(* What the ledger promises.                                               *)

BlockType == [height : Nat, action : Envelope]

\* Every variable keeps its type; in particular no balance wraps below zero
\* or above u64::MAX (checked_sub and saturating_add).
TypeOK ==
    /\ accounts \subseteq Key
    /\ balance \in [Key -> U64]
    /\ lastNonce \in [Key -> U64]
    /\ adminNonce \in U64
    /\ contracts \in [Contract -> Envelope \cup {NoEnvelope}]
    /\ blocks \in Seq(BlockType)
    /\ permits \in 0 .. MaxRequests
    /\ pc \in [Request -> States]
    /\ env \in [Request -> Envelope \cup {NoEnvelope}]
    /\ reply \in [Request -> Replies]
    /\ charged \in [Envelope -> Nat]
    /\ credited \in [Envelope -> Nat]

\* count[e] is the number of times envelope e took effect.  Each takes effect
\* at most once, and no two envelopes of one key share a nonce.
OncePerNonce(count) ==
    /\ \A e \in Envelope : count[e] <= 1
    /\ \A e, f \in Envelope :
        count[e] > 0 /\ count[f] > 0 /\ e.key = f.key /\ e.nonce = f.nonce => e = f

\* However requests interleave and however often an envelope is submitted,
\* a signer's nonce pays for one publication and the admin's nonce for one
\* credit (try_update_nonce is the only guard against replay).
NonceSpentOnce == OncePerNonce(charged) /\ OncePerNonce(credited)

\* What account k gets, and what key k pays, if every e takes effect count[e] times.
Credits(count, k) ==
    MapThenSumSet(LAMBDA e : count[e] * e.amount, {e \in Envelope : e.account = k})

Charges(count, k) ==
    MapThenSumSet(LAMBDA e : count[e] * e.size, {e \in Envelope : e.key = k})

\* Money is neither created nor destroyed by interleaved charges and credits:
\* a balance is what was credited less what was charged, exactly so unless a
\* credit saturated (balance is an atomic that publishers update under a
\* shared lock).
BalanceConserved ==
    \A k \in Key :
        /\ balance[k] <= Credits(credited, k) - Charges(charged, k)
        /\ balance[k] >= Min({MaxU64, Credits(credited, k)}) - Charges(charged, k)

\* A contract is only stored together with everything it imports, although
\* imports are resolved under a lock that is released before the insertion.
ImportClosure == \A d \in Stored : Imports[d] \subseteq Stored

\* A stored contract carries a publish envelope for this network and digest,
\* whose signer paid for it: no path through the three early answers and the
\* failure exits of handle_contract_put reaches the insertion unpaid.
StoredArePaid ==
    \A d \in Stored :
        /\ PublishOk(contracts[d], d)
        /\ contracts[d].key \in accounts
        /\ charged[contracts[d]] > 0

Logged == {blocks[i].action : i \in DOMAIN blocks}

\* The log is a faithful account: heights are consecutive, no action is
\* logged twice, an upload names the envelope the ledger serves for that
\* digest, and a funding was credited.
LogFaithful ==
    \A i \in DOMAIN blocks :
        LET e == blocks[i].action IN
        /\ blocks[i].height = i
        /\ \A j \in DOMAIN blocks : blocks[j].action = e => j = i
        /\ e.context = PUBLISH_CONTEXT => contracts[e.wasm] = e
        /\ e.context = FUND_CONTEXT => credited[e] > 0

\* While clients wait for their answers, whatever changed the ledger and is
\* not in the log yet is in the hands of a request that is about to log it
\* (the log is written under a lock of its own, after the contracts and the
\* accounts were released).
NothingUnlogged ==
    /\ \A d \in Stored :
        \/ contracts[d] \in Logged
        \/ \E r \in Request : pc[r] = "put_record" /\ env[r] = contracts[d]
    /\ \A e \in Envelope :
        credited[e] > 0 =>
            \/ e \in Logged
            \/ \E r \in Request : pc[r] = "fund_record" /\ env[r] = e

\* The permits and the admitted requests add up, however requests end.
PermitsAccounted ==
    permits + Cardinality({r \in Request : pc[r] # "idle"}) = MaxRequests

Serving == {"put_charge", "put_check", "put_resolve", "put_insert", "put_record",
            "fund_credit", "fund_record"}

\* A publication or funding whose nonce is spent is answered (or its client is
\* gone), however many other requests stall on their bodies, and unless scripts
\* that never end have taken every worker: no lock, retry or early return
\* strands it.
ReceivedIsAnswered ==
    \A r \in Request : pc[r] \in Serving ~> (pc[r] = "idle" \/ []~WorkerFree)
=============================================================================
