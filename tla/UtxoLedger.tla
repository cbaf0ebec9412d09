----------------------------- MODULE UtxoLedger -----------------------------
(***************************************************************************)
(* The UTXO set of the legacy specification crate and                      *)
(* Ledger::apply_transaction, which consumes inputs, allocates ids for     *)
(* continuations and new outputs and rewrites the ownership registry       *)
(* (src/interleaving/starstream-interleaving-spec-legacy/src/lib.rs).      *)
(*                                                                         *)
(* A process of a transaction is a position in inputs \o new_outputs,      *)
(* counted from 1.  The interleaving proof that verify_witness checks is   *)
(* represented by what it guarantees for the ledger: every owner that      *)
(* ownership_in mentions takes part, so it can unbind, any UTXO can bind   *)
(* itself to any other, and live tokens end up bound.                      *)
(***************************************************************************)
EXTENDS Integers, Sequences, FiniteSets, FiniteSetsExt

CONSTANTS
    Contract,       \* hashes of wasm modules
    Storage,        \* storage of a coroutine; only equality matters
    MaxInputs,      \* bound on the inputs of a transaction
    MaxOutputs,     \* bound on its new outputs
    MaxNonce,       \* bound on the ids allocated per contract
    None

ASSUME BoundsAssumption == {MaxInputs, MaxOutputs, MaxNonce} \subseteq Nat

CoroutineState == [kind : {"utxo", "token"}, storage : Storage]
NewOutput == [state : CoroutineState, contract_hash : Contract]

\* TransactionBody::hash is a constant for now.
TxHash == 0
CoroutineId == [creation_tx_hash : {TxHash}, creation_output_index : 1 .. MaxOutputs]

ASSUME NoneAssumption == None \notin CoroutineState \cup CoroutineId \cup Nat

VARIABLES
    utxos,              \* UtxoId -> UtxoEntry, for those that are unspent
    contract_counters,
    utxo_to_coroutine,
    ownership_registry, \* CoroutineId -> owner or None
    spent,              \* history: ids that were unspent once
    chain,              \* history: UtxoId -> number of its chain of states
    chains              \* history: how many chains were started

index == <<utxos, utxo_to_coroutine>>
vars == <<utxos, contract_counters, utxo_to_coroutine, ownership_registry,
          spent, chain, chains>>

Unspent == DOMAIN utxos
EmptyMap == [x \in {} |-> None]

Init ==
    /\ utxos = EmptyMap
    /\ contract_counters = [c \in Contract |-> 0]
    /\ utxo_to_coroutine = EmptyMap
    /\ ownership_registry = [c \in CoroutineId |-> None]
    /\ spent = {}
    /\ chain = EmptyMap
    /\ chains = 0

-----------------------------------------------------------------------------
SeqUpTo(S, n) == UNION {[1 .. k -> S] : k \in 0 .. n}

Processes(tx) == 1 .. (Len(tx.inputs) + Len(tx.new_outputs))
IsInput(tx, p) == p <= Len(tx.inputs)
Output(tx, p) == tx.new_outputs[p - Len(tx.inputs)]

contract_hash(tx, p) ==
    IF IsInput(tx, p) THEN tx.inputs[p].contract_hash ELSE Output(tx, p).contract_hash

KindOf(tx, p) ==
    IF IsInput(tx, p) THEN utxos[tx.inputs[p]].state.kind ELSE Output(tx, p).state.kind

Burned(tx) == {p \in DOMAIN tx.inputs : tx.continuations[p] = None}

\* InvalidStateKindTransition
SameKind(tx) ==
    \A p \in DOMAIN tx.inputs \ Burned(tx) :
        tx.continuations[p].kind = utxos[tx.inputs[p]].state.kind

\* verify_live_tokens_bound_in_instance
LiveTokensBound(tx) ==
    \A p \in Processes(tx) \ Burned(tx) :
        KindOf(tx, p) = "token" => tx.ownership_out[p] # None

verify_witness(tx) == SameKind(tx) /\ LiveTokensBound(tx)

-----------------------------------------------------------------------------
\* Inputs whose continuation has the same state keep their id.
is_reference_input(tx) ==
    {p \in DOMAIN tx.inputs : tx.continuations[p] = utxos[tx.inputs[p]].state}

\* The processes that get a new id, in the order of their allocation.
Allocated(tx) == Processes(tx) \ (Burned(tx) \cup is_reference_input(tx))

NewId(tx, p) ==
    LET c == contract_hash(tx, p)
        earlier == {q \in Allocated(tx) : q < p /\ contract_hash(tx, q) = c}
    IN  [contract_hash |-> c, nonce |-> contract_counters[c] + Cardinality(earlier)]

StateOf(tx, p) == IF IsInput(tx, p) THEN tx.continuations[p] ELSE Output(tx, p).state

process_to_coroutine(tx, p) ==
    IF IsInput(tx, p) THEN utxo_to_coroutine[tx.inputs[p]]
    ELSE [creation_tx_hash |-> TxHash, creation_output_index |-> p - Len(tx.inputs)]

Spending(tx) == DOMAIN tx.inputs \ is_reference_input(tx)

\* Mutant: an id that is spent twice is not noticed.
RemoveSucceeds_Always(tx) == Spending(tx) \subseteq Nat

\* Removing a spent input fails when it is gone already (InputNotFound).
RemoveSucceeds(tx) == \A p, q \in Spending(tx) : tx.inputs[p] = tx.inputs[q] => p = q

\* Mutant: spent inputs stay in the index.
AfterSpending_Kept(tx, map, fresh) ==
    LET new == {NewId(tx, p) : p \in Allocated(tx)}
        owner(id) == CHOOSE p \in Allocated(tx) : NewId(tx, p) = id
    IN  [id \in DOMAIN map \cup new |->
            IF id \in new THEN fresh[owner(id)] ELSE map[id]]

\* A map over UTXO ids after the allocations and the removals; fresh gives the
\* entries of the processes that got an id.
AfterSpending(tx, map, fresh) ==
    LET new == {NewId(tx, p) : p \in Allocated(tx)}
        gone == {tx.inputs[p] : p \in Spending(tx)}
        owner(id) == CHOOSE p \in Allocated(tx) : NewId(tx, p) = id
    IN  [id \in (DOMAIN map \cup new) \ gone |->
            IF id \in new THEN fresh[owner(id)] ELSE map[id]]

\* Processes are gone through in order: the last one of a coroutine decides.
RegistryAfter(tx) ==
    [c \in CoroutineId |->
        LET ps == {p \in Processes(tx) : process_to_coroutine(tx, p) = c} IN
        IF ps = {} THEN ownership_registry[c]
        ELSE IF tx.ownership_out[Max(ps)] = None THEN None
        ELSE process_to_coroutine(tx, tx.ownership_out[Max(ps)])]

\* A continuation stays in the chain of its input.
ChainOf(tx, p) == IF IsInput(tx, p) THEN chain[tx.inputs[p]] ELSE chains + p - Len(tx.inputs)

apply_transaction(tx) ==
    LET counter(c) ==
            contract_counters[c]
                + Cardinality({p \in Allocated(tx) : contract_hash(tx, p) = c})
    IN
    /\ verify_witness(tx)
    /\ RemoveSucceeds(tx)
    /\ \A c \in Contract : counter(c) <= MaxNonce
    /\ contract_counters' = [c \in Contract |-> counter(c)]
    /\ utxos' = AfterSpending(tx, utxos,
            [p \in Allocated(tx) |->
                [state |-> StateOf(tx, p), contract_hash |-> contract_hash(tx, p)]])
    /\ utxo_to_coroutine' =
            AfterSpending(tx, utxo_to_coroutine,
                [p \in Allocated(tx) |-> process_to_coroutine(tx, p)])
    /\ ownership_registry' = RegistryAfter(tx)
    /\ chain' = AfterSpending(tx, chain, [p \in Allocated(tx) |-> ChainOf(tx, p)])
    /\ chains' = chains + Len(tx.new_outputs)
    /\ spent' = spent \cup {tx.inputs[p] : p \in Spending(tx)}

\* Size mismatches are refused before anything else is looked at.
Next ==
    \E inputs \in SeqUpTo(Unspent, MaxInputs), outputs \in SeqUpTo(NewOutput, MaxOutputs) :
        LET P == 1 .. (Len(inputs) + Len(outputs)) IN
        \E conts \in [DOMAIN inputs -> CoroutineState \cup {None}], owners \in [P -> P \cup {None}] :
            apply_transaction([inputs |-> inputs, continuations |-> conts,
                               new_outputs |-> outputs, ownership_out |-> owners])

Spec == Init /\ [][Next]_vars

-----------------------------------------------------------------------------

\* An id names one state for ever: ids are below the counter of their
\* contract, and no spent id comes back, however inputs are continued,
\* referenced or repeated within a transaction.
IdsAreFresh ==
    /\ \A id \in Unspent \cup spent : id.nonce < contract_counters[id.contract_hash]
    /\ Unspent \cap spent = {}

\* A chain of states has one end: no transaction, not even one that lists an
\* input twice, leaves two unspent UTXOs that continue the same one.
OneEndPerChain == \A a, b \in Unspent : chain[a] = chain[b] => a = b

=============================================================================
