# Starstream in TLA+

Starstream is a language of coroutines on a UTXO ledger. Its repository holds
a compiler to WebAssembly components, runtimes that execute them, the
specification and the proof of how the coroutines of one transaction interleave,
and a ledger that stores contracts and answers requests. This directory holds
TLA+ models of the parts that carry state from one step to the next, TLC
configurations that check them on small instances, and TLAPS proofs of what
matters most for instances of every size. `PROJECT.json` ties every definition
to the source lines it models.

## The system

| Part | State | Operations | How it meets the others |
|---|---|---|---|
| Ledger server (`starstream-ledger`) | accounts with balance and last nonce, the admin's nonce, contracts, blocks, a semaphore of request permits | publish a contract, fund an account, get a contract, call a coordination script, ask the height | concurrent HTTP requests; each handler is a future that suspends at its awaits and can be dropped there |
| Ledger node (`starstream-ledger-node`, accept loop of the server) | the set of connection tasks, the shutdown notification, registered wakers | accept, serve, signal, drain, time out | spawns the connections whose requests the server answers |
| Ledger client and command line | none | build, sign and send one request | HTTP and wRPC |
| Component runtime (`starstream-runtime-next`) | resource table, the method sets of UTXOs | construct, resume, call a method, mint and burn tokens | called by the server for scripts |
| Interleaving specification (`starstream-interleaving-spec`) | call stack, phase of the running coroutine, lifecycle and methods of the UTXOs, resource handles | create, enter, yield, register a method, return, call a method | a Quint machine; recorded traces are replayed against it |
| Legacy interleaving verifier (`interleaving/…-spec-legacy`) | the running process, claims, activations, refs, handlers, ownership | one transition per host call | replays the host calls all processes of a transaction recorded; the proof circuit encodes the same machine |
| Legacy UTXO ledger (same crate) | unspent outputs, id counters, coroutine ids, ownership registry | apply a proven transaction | builds the instance the verifier checks |
| Legacy proof circuit and memory (`interleaving/…-proof-legacy`) | the wires between steps, per-process memory, ref arena and handler stacks; read and written entries with timestamps | one step circuit per host call; traced, replayed and scanned memory operations | encodes the verifier's machine; folded by an external prover |
| Compiler (`starstream-compiler`, `-types`, `-to-wasm`) | scopes, substitutions, module graph, control-flow graph | parse, resolve, infer, check exhaustiveness, generate code | sequential; used by the command line and the language server |
| Interpreter, formatter, documentation generator | local | evaluate, print | sequential |
| Language server | document map | open, change, save, close, queries | concurrent notifications; checks the files on disk through the module graph |
| Mock ledger | a registry filled at start | forward a call | concurrent wRPC calls |

What is hard here, and rarely reached by a test:

- *Interleaved handlers.* The server splits each publication over five lock
  acquisitions: the nonce, the charge, two looks at the contracts, the
  insertion, the log. Other publications and fundings run in between.
- *Cancellation.* A client that goes away drops the handler's future at
  whichever await it has reached.
- *Wake-ups.* The accept loop is a hand-written poll function that does not
  poll the listener at the connection limit; a missing waker would stop it.
- *Stale knowledge.* Handles of consumed UTXOs, parents recorded by earlier
  resumes, claims that survive a yield, ownership whose owner is absent.
- *Long legal sequences* of host calls that pass control, install handlers,
  create processes and move tokens.
- *Several copies of one state.* The verifier, the prover's interleaver and the
  circuit follow the same calls separately; a suspended function continues in
  another one.
- *One module after another.* What the type checker keeps of a module that failed
  meets the next one.
- *Boundaries.* Saturating credits, charges that empty an account, ids
  allocated while inputs are removed, vectors indexed by process id.

`PROJECT.json` lists each under `hazards` at the line where it bites.

## Modules

**LedgerServer** models `src/starstream-ledger/src/server`. A request slot has a
program counter (`pc`) that names the await it is suspended at; one action is
the code from one await to the next. The two atomic updates that a publication
makes under a shared read lock (nonce, then balance) are two actions, because
another publisher can run in between. `FundCredit` takes the write lock, so it
waits for them. `Disconnect` drops a future at any await and gives its permit
back. Envelopes are the signed messages clients hold; anybody may submit any of
them any number of times, since published envelopes can be downloaded. Failed
parsing, signatures and sizes are one action (`Malformed`); compilation and
linking are sets of components that pass. A script call waits for its parameters
(`RpcParams`) and then runs contract code without a limit (`RpcCall`), which keeps
one of the `Workers` threads busy. `charged` and `credited` are history variables.

**LedgerNode** models the accept loop of `handle_http` and `main` of the node.
The loop is a future: `woken` says whether it will be polled, `wakers` what it
registered for when it last returned `Pending`. A connection is idle or busy;
what a busy one does is LedgerServer, and `MaxConnections` here is
`MaxRequests` there. `main` ends because the server future is done (`Exit`) or
because `shutdown_timeout` has passed (`Timeout`).

**InterleavingSpec** is the repository's Quint machine
(`starstream-interleaving-spec/spec`) in TLA+, one action per `Step`, with the
step relation of its simulation as `Next`.

**InterleavingVerifier** models `verify_interleaving_semantics` of the legacy
crate. The trace of a process is whatever it does, so a step chooses the next
host call of the running process; an action is an accepted arm of
`state_transition`, `Reject` every error, `Accept` the end of the running
process's trace with all final conditions met, and the verdict `Panic` an index
out of bounds. Refs are sequences of words. `id_prev` is left out; it only
appears in messages.

**UtxoLedger** models `Ledger::apply_transaction`: which transactions pass the
checks, the allocation of ids, continuations, reference inputs, the removal of
spent inputs and the ownership registry. Proofs are taken to verify, so a
transaction is any one whose instance can be built. `chain` is a history
variable that follows a chain of states independently of coroutine ids.

**ComponentRuntime** models one script call on `starstream-runtime-next` with the
host functions of `src/starstream-ledger/src/server/host.rs` and the coroutines
`starstream-to-wasm` compiles: the stack of component instances, the resource
table with the instance that owns each handle, and per UTXO its `yield` and
`context` globals and the methods it announced. Each host function is an action
(`call_utxo_main`, `upcast`, `downcast`, `call_token_burn`, …), so are the
compiled `yield`, `resume` and return; which of them a body runs, and when, is
free. What the compiler fixes statically (`always_abis`, exports, `is` blocks
and how long they narrow a variable) is modelled because the runtime relies on
it: a typed call is not checked at run time. A trap drops the store. `returned`
and `burned` are history variables.

**InterleavingCircuit** extends the verifier with the proof circuit
(`interleaving/starstream-interleaving-proof-legacy`). The prover interleaves
the host calls, traces the memory and then synthesizes one step circuit per host
call. Verifier, interleaver and circuit each keep their own copy of the control
state; a step replays one host call in all three while verifier and circuit both
take it. `Satisfied` is the conjunction of the constraints of `make_step_circuit`
over the wires that `FromWit` computes, so the prover is an honest one. Which other
witnesses the constraints would admit (switches, wires and targets are witnesses
in the code) is not modelled: the models say that the circuit and the verifier agree
on what an honest prover does, not that the proof system is sound. `Accepts(o)` says that the verifier takes
the host call `o`: an arm of `state_transition` is checks and then assignments, so
it is the conjunction of the checks, the `May…` guards of InterleavingVerifier.
That a step of the verifier is one that `Accepts` allows is a lemma
(`StepIsAccepted`); that `Accepts(o)` is `ENABLED HostStep(o)` was confirmed by TLC
in all states of the run. Two lists name where verifier and circuit are known to
differ, with a reason each: `Narrower` (the circuit refuses what the verifier
takes) and `Wider` (the other way round); a difference outside them fails
`Provable` or `ProvedIsAccepted`. The latter leaves out states with an Enter pending
(`EnterPending`), where the circuit lets any host call pass.

**NebulaMemory** is the offline memory argument of the same crate: the tracer's
queues, the conditional reads and writes of the circuit, the scan in address
order, and the four multisets. It refines **ProverRam**, a plain random access
memory run once for the trace and once for the proof; the refinement mapping
reads `mem` off the queues. A hash chain is the sequence it commits to, with the
two entries of an operation, or of a scanned cell, as one element. A fingerprint
product is the bag that counts the marks (address, value, timestamp) multiplied
into it. The cells in address order are the ones with 0, 1, 2, … cells before
them.

**The compiler chain.** Each module extends the one before it.
`Patterns` (patterns, matrices, usefulness: `exhaustiveness.rs`) →
`TypeChecker` (unification, scopes, statements, visibility, ABIs, tokens:
`infer.rs`, `env.rs`, `builtins.rs`, `types/subst.rs`) → `Interpreter`
(`starstream-interpreter`) → `CodeGen` (blocks, locals, yields and
continuations: `starstream-to-wasm/src/lib.rs`, `ir.rs`) → `Stackifier`
(`stackifier.rs`) → `Wasm` (checked arithmetic of `intrinsics.rs`; validation and
execution are external) → `AbiLayout` (flattening and memory layout:
`component_abi.rs` and the slots of `lib.rs`). `PatternMatching` holds the
decision trees (`decision_tree.rs`) and the reference for matches. `Compiler`
composes them: a body is written statement by statement, checked, compiled,
validated and run, with a suspension at every yield, and the interpreter is the
reference. Questions about a single algorithm (a match, type equations, a layout,
an operation) are initial states of their own. Programs are syntax trees;
parsing is left out, names are model strings.

**Workspace** composes the module graph (`module_graph.rs`), `typecheck_modules`
and their callers: `starstream check` and the language server. A file is
abstracted to what the graph and the order of checking look at. A handler of a
notification is cut at its awaits: the log message, the analysis under the map's
entry, the publication. The graph is read from the disk and the text from the
editor, as in the code. A panic of a handler ends the server. The loops of the
graph are folds and recursive functions: the `while` over a growing vector of
modules (`ResolveAll`) has at most one turn per path, and the depth-first search
follows the code's colours.

The `MC…` modules give the constants their values; the `…Proofs` modules hold the
theorems. Operators marked *Mutant* are plausible errors in the definition that follows
them. They are not part of any specification; replacing a definition by its
mutant must make the named property fail, which shows that the property looks
at that code.

## What the runs check

| Run | Question | Result |
|---|---|---|
| `ledger_racing` | two overlapping requests, clients that go away, replayed envelopes, saturating credits: are nonces spent once, is money conserved, are stored contracts paid for and closed under imports, is the log faithful, do permits add up? | holds |
| `ledger_patient` | three requests for two permits, contracts that do not compile or link, clients that wait for answers: is everything logged or about to be, and is every charged or credited request answered, unless endless scripts hold all workers? | holds |
| `ledger_node` | does the accept loop lose a wake-up or exceed its limit, and can anything but a request in progress make a signalled node wait for the shutdown timeout? | no |
| `interleaving` | is a UTXO live exactly when it can be called, does a consumed one stay consumed, and does no transaction get stuck? | holds |
| `verifier` | passing control among scripts and a UTXO, and creation, burning and binding: one active process, rest at the end, claims honoured | holds |
| `circuit` | do the three copies of the machine agree, can an honest prover prove every accepted host call, and is every one it proves accepted? | holds, apart from `Narrower`, `Wider` and `EnterPending` |
| `nebula_memory` | does an honest prover never fail an assertion, and is the memory it proves about a random access memory (refinement)? | holds |
| `utxo_ledger` | over all sequences of small transactions: fresh ids, one end per chain | holds |
| `component_runtime` | however scripts, UTXOs and a token call each other, cast, drop, yield, resume and return: are announced methods current, do narrowed lookups fail only for methods announced without an impl block, is a token in one place, and does a returned UTXO never run again? | holds |
| `compiler` | type checker against recorded verdicts and enumeration of values, unification against ground solutions, decision trees against first match, layouts against round trips, arithmetic against the integers; accepted bodies against the interpreter, compiled, validated and resumed at every yield | holds, within the preconditions below |
| `compiler_nested` | is every block of the structured code nested in the one around it? | no: see findings |
| `workspace` | is the verdict of `starstream check` the one a declarative account of the files gives, does it panic in exactly the workspaces that reach the failing assertion or the unreachable branch, and does a quiet language server hold what the editor holds? | holds |

`CompiledAgrees` has a precondition, `PlainBlock`, that excludes programs the code
generator does not handle (each one is described below): a loop with a branch
after another branching statement, code after a statement that never ends
normally, and an operand with control flow that is visited while another waits on
the stack. Functions that may end without a value (`EndsWithoutValue`) and runs that
divide or negate where compiled code is known to differ (`apart`) are left out too;
without either exclusion TLC finds a counterexample. Matches on `()` are excluded
from `VerdictIsRight`, and fields without slots from the layouts. `FirstMatchRuns`
leaves out the bindings of an arm at places that an earlier arm tests,
`ArithmeticIsExact` the operations in `Unspecified`, `StoresFit` the width of the
store of a handle.

### Where the code and its documents differ

The finding in `PROJECT.json` has a run, `compiler_nested`: `find_depth_forwards`
takes the last construct opened at a depth even if the one around it is closed.
The following were met while modelling and are kept in the models as the code has
them. They have no run of their own; where a property would otherwise fail, it
leaves out exactly these cases, by the definition named above.

*Verifier and circuit* (paths under `src/interleaving`)

- The replay ends with the running process's trace, whatever the others still
  have to do (`mocked_verifier.rs:349`; `EFFECTS_REFERENCE.md:592` says all host
  calls are verified).
- `Burn` of a new output indexes `must_burn` out of bounds
  (`mocked_verifier.rs:985`).
- `CallEffectHandler` lets a process call itself and `Resume` lets a UTXO resume a
  script, both excluded by `EFFECTS_REFERENCE.md` (398, 119); the circuit refuses
  them.
- The circuit addresses the ownership of `Bind` by the first process
  (`circuit.rs:1244`), so only that owner can be proved.
- A comment in `make_step_circuit` (`circuit.rs:911-914`) says that no other opcode is
  valid while `must_enter` is set. The wire is only read for Enter, so the circuit
  takes any of them (`EnterPending`); the verifier does not.
- The circuit also takes what the verifier refuses in the cases of `Wider`: a handler
  call on an emptied stack, an argument read twice or never set, and the yield of a
  ref that does not exist.
- The hash of a transaction is a constant, so coroutine ids of different
  transactions collide; an owner that is not among the inputs counts as no owner
  (`lib.rs:418-421` of the legacy specification).
- `call_method` of the Quint machine leaves the phase at `Executing`
  (`starstream.qnt:291`), so the enter step of a method can be skipped.

*Runtime.* A method without `resume` still runs on a UTXO whose main fn has
returned, through a typed handle, although `docs/language-spec.md:775` says the
`yield` determines which methods are available. Blocks of overlapping
publications may come after those of contracts that import them, so replaying
them in order works only for publications that do not overlap.

*Type checker* (`infer.rs`)

- `typecheck_modules`: definitions of a module that failed stay in
  `typed_definitions`, and the next module that succeeds fails the assertion at
  608. A module whose imports do not register has no exports, and its importers
  reach `unreachable!()` (322), although the comment there says that the topological
  order should ensure that dependencies come first, which it does, and the one at
  219-221 that modules go on against a partial export table. `CheckIsRight` demands
  the panic exactly in these workspaces (`PanicsIn`). Either panic hides the errors
  already found, and ends the language server. After the first failure the loop stops at the first
  success (243), so later errors are not reported; warnings of a failed module are
  attributed to the next one that succeeds, oversized literals to the first
  contract.
- `yield A` in a UTXO without `impl A` is accepted (940-976): the announced method
  has no export, and the lookup of a narrowed call traps. A struct has to be
  declared before its use; `unify_inner` does not apply what an earlier part of
  the same type has bound (from 4403), which later substitution repairs;
  `saw_return` (1972) is set by a conditional return, so a function with a result may
  end without one (`fn f() -> i64 { if b { return 1; } }`), for which no valid code is
  generated (`docs/language-spec.md:612-618`: such a block is unit); the operand of a negation that is
  still an integer variable is not looked at again, and `-128` is refused as `i8`;
  linearity of calls in an `is` block is bypassed by an alias or a loop.

*Code generator* (`starstream-to-wasm`)

- Operands waiting on the stack are lost when the next one has control flow
  (`lib.rs:2868`); code after `return` panics (`lib.rs:2118`); the `else` block of
  a `let … else` sees the new binding; struct fields are evaluated in declaration
  order; an expression whose value is dropped may not be evaluated.
- The binding of a wildcard is lost when its column is tested for an earlier arm, as
  in `match n { 0 => .., x => x }` (`decision_tree.rs:214-220`, `:232-243`; the comments
  there and at `lib.rs:3471-3472` say that bindings are tracked).
- `/` and `%` truncate (`lib.rs:2556`, `:2585`) where the interpreter and
  `docs/language-spec.md:689`, `:738-747` floor.
- Overflow traps for every integer type by `docs/language-spec.md:688` and `:736`.
  Results of narrow types wrap around, `u64` `+`, `-`, `*` use the signed check, and
  `-x` is unchecked (`lib.rs:2610`).
- Handles are stored with a 16-bit store (`component_abi.rs:252-258`) though they take
  and are aligned to 4 bytes (`:133`, `:206`, and the canonical ABI cited at `:234`). An
  empty record in a spilled result fails `assert!(s > 0)`.

*Language server.* Diagnostics are those of the files on disk, not of the editor's
text. When neither graph can be built the document is checked by itself, which
the comments at `document.rs:224` and `:280` exclude. Overlapping notifications
of one document may be applied and published in any order; a later close then
clears nothing if the document is already gone.

### Bounds

The racing run of the ledger uses two request slots, two keys, two contracts of
which one imports the other, and eight envelopes chosen to collide: the same
library under two nonces, one nonce for two publications, credits that overflow
`MaxU64 = 5` together. Two slots suffice for every pairwise race; what three do to
the invariants is covered by the proofs. The patient run has a third slot, so a
request is turned away at the limit, and two contracts that fail to compile and
to link; one worker suffices to be taken by a script. The node runs with three connections and a limit of two, so the limit is
reached with a client waiting. The Quint machine runs with three UTXOs, two
methods and two handles.

The verifier chooses between two transactions: `ControlTx` (two scripts and a
UTXO, handlers) and `TokenTx` (refs, burning, owners); the circuit proves one with
a UTXO that has to burn, a token and a script. One ref and one handler per
interface make every host call possible. Nebula's program has four operations over
three cells in two segments and scans one cell per step, so a cell is scanned
before, between and after its uses. The UTXO ledger runs with transactions of two
inputs and one output and three ids per contract, so an input can be listed
twice, referenced and continued. The runtime runs with a script and a helper, two
UTXOs of two definitions in one component, a token, calls three deep and three
table entries.

Bodies have up to three of 26 statements (loops, branches, yields, returns,
lets, assignments, arithmetic with division and negation), with a tail or without;
up to two if a script then calls a method (`MaxCalled`), since only the yields of the
body matter there. Matches have up to three arms over Booleans, integers, tuples,
enums and structs; loops run six times at most (`Fuel`) and words have 16 bits, so
every overflow happens. Workspaces have up to three files of 23 kinds, one outside
the scanned directories; an editor sends four notifications, enough for two that
overlap, one that repairs and one that closes.

`CHECK_DEADLOCK FALSE` is set where the modelled program ends: the node exits, the
verifier reaches a verdict, the proof is complete, the script call returns, the
compiled body or the check has run, the editor's notifications are used up.

### Fairness

*Ledger server.* `SF(WorkerFree /\ Serve(r))`: what a handler does on its own, from
the spent nonce to the answer, goes on if workers come free for it again and again.
tokio polls every woken task, its `RwLock` is first come first served, so a writer is
not overtaken for ever by readers, and nothing a handler does between awaits blocks on
another request. Everything else (`Await`) is not fair: no client has to send its body
or its parameters, the server has no read timeout, and a script runs without fuel or
epochs, so it may keep its worker for ever. `ReceivedIsAnswered` therefore
promises an answer unless all workers are taken for ever.

*Node.* Weak fairness of the server future, of the release of idle connections
by the graceful shutdown, and of `Exit`, the return of `main` once the server is done.
The shutdown timeout is not fair, so the property cannot rest on it. Nothing is
assumed of clients, request durations or signals.

The other modules have no fairness: they are driven by a trace or by contract
code that may stop or loop.

## What is proved

All proofs hold for every value of the constants that satisfies the named
assumptions, which are those the code guarantees (finitely many requests and
envelopes, `u64` bounds, kinds of instances that do not overlap, a finite memory
whose initial values are values, and an absent value that is none of the values).
TLC evaluates them in each run. An invariant is seldom inductive by itself; for
each module the invariant that is, and why it is needed, follows. TLC has checked
the added parts on the run of the module, with the exception named below.

*LedgerServerProofs.* `TypeCorrect` and `PermitsCorrect` go together: `permits`
stays within bounds only because the permits and the active requests add up, so
the inductive invariant is `TypeInv` = types, `PermitsAccounted`, and that a
request past its authorization holds an envelope. `NoncesCorrect` needs that a
charged envelope's nonce is at most the signer's last nonce, and that two
requests waiting to charge never hold the same key and nonce (`ChargeInv`;
`CreditInv` likewise for the admin). `StorePaidCorrect` and
`ImportClosureCorrect` rest on `StoreInv`: every request past the charge holds a
paid publish envelope for this network, and one about to insert has all its
imports stored. That stays true after the read lock is released because
contracts are never removed (`Growth`). `LogCorrect` adds who is about to log what
(`LogInv`): no two requests hold the same action and none holds a logged one.
`UnloggedCorrect` is about ledgers whose clients stay for their answers
(`~Disconnects`), which is what `ledger_patient` checks. `BalanceCorrect` needs
sums over sets of envelopes: the folds of the community modules are recursive
functions, whose existence (`SumsExist`) and growth with one summand (`SumGrows`)
are proved by taking a set of least cardinality for which they would fail; the
rest is the arithmetic of a saturating credit and of a charge.

*LedgerNodeProofs.* The inductive invariant adds to `TypeOK` and
`ConnectionsBounded` what the parked loop has registered for (`ParkedInv`: the
shutdown always, the listener when a slot is free, the tasks when there are any)
and what a signal leaves behind (`SignalInv`). `WakeupCorrect`, `SignalCorrect`,
`BoundCorrect` and `DoneCorrect` follow.

*InterleavingSpecProofs.* `LiveIffCallableCorrect` and the action property
`ConsumptionIsFinal`: a UTXO that was consumed is never live again. They need that
only a live UTXO runs and that only a constructor has a handle pending
(`RunningInv`).

*UtxoLedgerProofs.* `IdsAreFreshCorrect` and `OneEndPerChainCorrect`. An id is new
because the counter of its contract is above all ids given out, and two ids made
in one transaction differ because each is offset by the number of those made
before it, a cardinality that grows from one to the next. Chains need that every
unspent output has one and that their numbers are below the count of those
started.

*InterleavingCircuitProofs, part one: the verifier.* `OnlyCurrentIsActiveCorrect`,
`AcceptedAreAtRestCorrect` and the action property `ClaimsHonouredCorrect`. The
invariant adds that a finalized UTXO is suspended at a yield, that only what must
burn has burned, and that what the verdict rests on stays true.

*Part two: the copies.* `CopiesAgreeCorrect`: verifier, interleaver and
circuit stay in step, for every transaction and however many refs and handlers the
bounds allow. The invariant has three parts. *Control*: the memory of a process is
what the verifier knows of it, operation by operation; verifier and circuit reset
a process when it is created and the interleaver does not, so it must have been
untouched before (`UncreatedAreFresh`). *Handlers*: the stacks of all interfaces
share one arena and popped nodes stay in it, so there is a numbering of the nodes
of each stack (`HandlersLinked`) from which a fresh node, never written before,
takes nothing away; that a walk from the head meets the handlers newest first
(`StacksAgree`) is proved by taking the first node where it would not. *Refs*:
known refs lie one after the other in the arena, what is behind the last one is
zero, and the building pointer is at the word that the running process fills
(`RefsInv`). It rests on `OnlyCurrentIsActive`: the circuit has one building
pointer, the verifier one per process. Of `CopiesInv` TLC has checked all but
`HandlersLinked`, whose quantifier it cannot enumerate; what follows from it,
`CopiesAgree`, it has.

*Part three: the checks.* `ProvableCorrect` and `ProvedIsAcceptedCorrect`: but for
`Narrower`, `Wider` and `EnterPending`, the verifier and the circuit of an honest prover
take the same host calls, in every transaction.
That their copies agree is not enough, because each checks more than the copies
compare. `ChecksInv` adds the arguments of resumes and creations, which the circuit
keeps under the running process and the caller wire (`ArgumentsAgree`), the ref
counter and the words still to be pushed (`RefWiresAgree`), and that nobody runs,
has a handler installed, is a parent or is owned before it was created
(`StartedFirst`): a process that burns must have been created for the circuit
only, and one that returns must have a parent for the verifier only. Then there is
one case per host call, which compares the verifier's checks with the constraints
that its switches turn on.

*NebulaMemoryProofs.* `ImplementsRamCorrect`: the memory argument implements
ProverRam, for every program, number of cells and scan batch. The mapping reads
the memory off the queues of the tracer, so the invariant says what the queues
hold: consecutive entries of a cell are linked, each stands for one use of the
cell in the program (`QueuesFollowProgram` counts them), and the replay has taken
exactly the entries of the operations it has passed.

`ProofCompletesCorrect`: no assertion of the prover fails for a program that was
traced. It has two hypotheses about the memory, both satisfied by the instance of
the run. `Contiguous`: the addresses of a segment have no gaps, which the scan
relies on (comment at `gadget.rs:458`). `WholeBatches`: the cells fill their scan
batches; `required_steps` rounds down, so with padding cells a program of just that
many steps ends before they are scanned (with a batch of two and three cells TLC
shows it), while the step circuit scans one cell a step and never pads. The
invariant, `ProofInv`, says of the trace that entries of a cell have growing
timestamps and link to one another (`Linked`), so the last entry is the only unread
one and constraints() finds it (`FinalIsLast`); and of the replay that the chain is
a prefix of the traced one (`ChainReplayed`), that the first `Done` cells in address
order were scanned (`ScanReplayed`), and that the four fingerprints are the marks
at sets of positions (`PrintsFollow`), where position `<<c, k>>` is the `k`-th entry
of cell `c` and 0 the initial one. At the end all of them are the positions up to
the last one, once as initial and written and once as read and final
(`TalliesBalance`). Counting over sets of positions, `TallyUnion`, takes the place
of an induction over the bags.

*WorkspaceProofs.* `QuietCorrect`: for every set of paths, texts and files, any
number of notifications and whatever the analysis answers, a document whose latest
text was handled alone is the editor's once its handlers are done.
`QuietIsCurrent` says nothing while a handler runs, so `DocumentsInv` says what
each stage of the only handler of a path has left to do (`WillAgree`): a text not
yet applied is the editor's, diagnostics not yet published are those stored, a
close finds the document still there. A second handler of the same path puts the
path into `overlapped`, and the next text sent alone takes it out again. The
proof needs that `Closed`, the absence of a document, is no text and no file, which
is an assumption on the constants.

*ComponentRuntimeProofs.* `HasMethodCorrect`, `ReturnedCorrect`,
`NarrowedLookupCorrect` and `TokensCorrect`. `NarrowedLookupCorrect` has no hypothesis
about the contracts: a lookup through a narrowed handle fails only for a method that
some yield point announces through an ABI without an impl block, whichever resumes
came in between. All four need that an instance is
called at most once at a time, or two frames of one UTXO could resume it twice.
This follows from an order of the instances (`OrderInv`): there is a ranking in
which callers are below the instances they call and holders below the instances
they have handles to. A new instance ranks above all others, a call goes upwards
along a handle, and a return hands a handle down. `ContextInv` ties a running
body to its context, `MethodsInv` says that a running body has announced nothing,
`NarrowInv` that a narrowed handle stays with the instance that narrowed it,
`TokenInv` that minting, a handle and burning exclude each other.

Only model-checked:

- the liveness properties, which depend on fairness;
- the compiler chain and PatternMatching: they are recursive over syntax trees,
  patterns and types, and their properties compare a recursive algorithm with a
  reference for every tree, which would take an induction over data;
- `CheckIsRight` of Workspace, for the same reason: it compares the depth-first
  search and the fold over modules with a declarative account of the files.

## Plan

1. Done: ledger server, node lifecycle, Quint machine, verifier, proof circuit,
   memory argument, UTXO ledger, component runtime, the compiler from type checker
   to execution, the module graph, and the language server's notifications.
2. Done: theorems about every module that carries state from step to step: all
   safety properties of the ledger, node, Quint machine, verifier, circuit, memory
   argument, UTXO ledger, component runtime and document map.
3. Not planned: mapping the runtime's steps to those of InterleavingSpec (the
   runtime does not report them yet), handles as arguments and loading from
   storage in ComponentRuntime.

## Not modelled

Parsing, formatting and documentation are translations without state of their
own, and so are the component encoding, the worlds and the wRPC value codec. The
language server's hover, definition and symbol indexes are functions of one text.
The ledger client sends single requests, which are LedgerServer's envelopes; the
mock ledger reads a registry that never changes. Cryptography (signatures,
hashes, Poseidon2, the folding scheme) is assumed to do its job: a hash stands for
what it hashes. The Quint trace verifier runs an external program. The web
sandbox, editor extensions and the website are wrappers and assets.
