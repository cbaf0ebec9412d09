-------------------------- MODULE UtxoLedgerProofs --------------------------
(***************************************************************************)
(* Theorems about UtxoLedger, for any contracts, storage and bounds: ids   *)
(* name one state for ever, and a chain of states has one end.             *)
(***************************************************************************)
EXTENDS UtxoLedger, FiniteSetTheorems, TLAPS

UtxoId == [contract_hash : Contract, nonce : Nat]

\* The parts of the state that the ids of a ledger rest on.
IdsTyped ==
    /\ contract_counters \in [Contract -> Nat]
    /\ Unspent \subseteq UtxoId
    /\ spent \subseteq UtxoId

\* The history of chains follows the unspent UTXOs, and numbers the chains
\* that were started.
ChainsTyped ==
    /\ chains \in Nat
    /\ chain \in [Unspent -> 1 .. chains]

IdInv == IdsTyped /\ IdsAreFresh
ChainInv == ChainsTyped /\ OneEndPerChain
Inv == IdInv /\ ChainInv

\* The transactions Next offers: sizes agree, inputs are unspent.
Submitted(tx) ==
    /\ tx.inputs \in SeqUpTo(Unspent, MaxInputs)
    /\ tx.new_outputs \in SeqUpTo(NewOutput, MaxOutputs)

-----------------------------------------------------------------------------
(* Processes and the ids they get                                          *)

\* A bounded sequence is a sequence.
LEMMA BoundedSequences ==
    ASSUME NEW S, NEW n \in Nat, NEW s \in SeqUpTo(S, n)
    PROVE  /\ Len(s) \in Nat
           /\ DOMAIN s = 1 .. Len(s)
           /\ \A i \in 1 .. Len(s) : s[i] \in S
  <1>1. PICK k \in 0 .. n : s \in [1 .. k -> S]
    BY DEF SeqUpTo
  <1>2. k \in Nat
    OBVIOUS
  <1>3. Len(s) = k
    BY <1>1, <1>2
  <1> QED
    BY <1>1, <1>2, <1>3

\* A position after the first n of n + m is one of the m that follow.
LEMMA Positions ==
    ASSUME NEW n \in Nat, NEW m \in Nat, NEW p \in 1 .. (n + m)
    PROVE  /\ p \in Int
           /\ p <= n => p \in 1 .. n
           /\ ~(p <= n) => p - n \in 1 .. m
  OBVIOUS

\* There are finitely many positions.
LEMMA PositionsFinite ==
    ASSUME NEW n \in Nat, NEW m \in Nat
    PROVE  IsFiniteSet(1 .. (n + m))
  <1>1. n + m \in Int /\ 1 \in Int
    OBVIOUS
  <1> QED
    BY <1>1, FS_Interval

\* A number that is i of m after c lies within the m that follow c.
LEMMA Offsets ==
    ASSUME NEW c \in Nat, NEW m \in Nat, NEW n \in Nat, NEW p \in Int, p - n \in 1 .. m
    PROVE  c + p - n \in (c + 1) .. (c + m)
  OBVIOUS

\* Inputs are numbered before the new outputs, and belong to a contract.
LEMMA ProcessesTyped ==
    ASSUME IdsTyped, NEW tx, Submitted(tx)
    PROVE  /\ Len(tx.inputs) \in Nat
           /\ DOMAIN tx.inputs = 1 .. Len(tx.inputs)
           /\ \A p \in DOMAIN tx.inputs : tx.inputs[p] \in Unspent
           /\ Len(tx.new_outputs) \in Nat
           /\ IsFiniteSet(Processes(tx))
           /\ \A p \in Processes(tx) :
                /\ p \in Int
                /\ p <= Len(tx.inputs) => p \in DOMAIN tx.inputs
                /\ ~(p <= Len(tx.inputs)) => p - Len(tx.inputs) \in 1 .. Len(tx.new_outputs)
                /\ contract_hash(tx, p) \in Contract
  <1>1. MaxInputs \in Nat /\ MaxOutputs \in Nat
    BY BoundsAssumption
  <1>2. /\ Len(tx.inputs) \in Nat
        /\ DOMAIN tx.inputs = 1 .. Len(tx.inputs)
        /\ \A p \in 1 .. Len(tx.inputs) : tx.inputs[p] \in Unspent
    BY <1>1, BoundedSequences DEF Submitted
  <1>3. /\ Len(tx.new_outputs) \in Nat
        /\ \A p \in 1 .. Len(tx.new_outputs) : tx.new_outputs[p] \in NewOutput
    BY <1>1, BoundedSequences DEF Submitted
  <1>4. ASSUME NEW p \in Processes(tx)
        PROVE  /\ p \in Int
               /\ p <= Len(tx.inputs) => p \in 1 .. Len(tx.inputs)
               /\ ~(p <= Len(tx.inputs)) => p - Len(tx.inputs) \in 1 .. Len(tx.new_outputs)
    <2>1. p \in 1 .. (Len(tx.inputs) + Len(tx.new_outputs))
      BY DEF Processes
    <2> QED
      BY <2>1, <1>2, <1>3, Positions
  <1>5. ASSUME NEW p \in Processes(tx)
        PROVE  contract_hash(tx, p) \in Contract
    <2>1. CASE p <= Len(tx.inputs)
      <3>1. tx.inputs[p] \in UtxoId
        BY <2>1, <1>2, <1>4 DEF IdsTyped
      <3> QED
        BY <2>1, <3>1 DEF contract_hash, IsInput, UtxoId
    <2>2. CASE ~(p <= Len(tx.inputs))
      <3>1. Output(tx, p) \in NewOutput
        BY <2>2, <1>3, <1>4 DEF Output
      <3> QED
        BY <2>2, <3>1 DEF contract_hash, IsInput, NewOutput
    <2> QED
      BY <2>1, <2>2
  <1>6. IsFiniteSet(Processes(tx))
    BY <1>2, <1>3, PositionsFinite DEF Processes
  <1> QED
    BY <1>2, <1>3, <1>4, <1>5, <1>6

\* Those of the processes that get an id with a contract.
SameContract(tx, c) == {q \in Allocated(tx) : contract_hash(tx, q) = c}
Earlier(tx, p) == {q \in Allocated(tx) : q < p /\ contract_hash(tx, q) = contract_hash(tx, p)}

\* Few processes get an id; those before one are fewer than those up to it.
LEMMA EarlierAreFewer ==
    ASSUME IdsTyped, NEW tx, Submitted(tx),
           NEW p \in Allocated(tx), NEW S, IsFiniteSet(S),
           Earlier(tx, p) \subseteq S, p \in S
    PROVE  /\ Cardinality(Earlier(tx, p)) \in Nat
           /\ Cardinality(S) \in Nat
           /\ Cardinality(Earlier(tx, p)) < Cardinality(S)
  <1>1. p \in Int /\ p \notin Earlier(tx, p)
    BY ProcessesTyped DEF Allocated, Earlier
  <1>2. IsFiniteSet(Earlier(tx, p))
    BY FS_Subset
  <1>3. Earlier(tx, p) \cup {p} \subseteq S
    OBVIOUS
  <1>4. /\ Cardinality(Earlier(tx, p) \cup {p}) = Cardinality(Earlier(tx, p)) + 1
    BY <1>1, <1>2, FS_AddElement
  <1>5. Cardinality(Earlier(tx, p) \cup {p}) <= Cardinality(S)
    BY <1>3, FS_Subset
  <1>6. Cardinality(Earlier(tx, p)) \in Nat /\ Cardinality(S) \in Nat
    BY <1>2, FS_CardinalityType
  <1> QED
    BY <1>4, <1>5, <1>6

\* The processes of a transaction are finitely many.
LEMMA AllocatedIsFinite ==
    ASSUME IdsTyped, NEW tx, Submitted(tx)
    PROVE  /\ IsFiniteSet(Allocated(tx))
           /\ \A p : IsFiniteSet(Earlier(tx, p))
           /\ \A c : IsFiniteSet(SameContract(tx, c))
  <1>1. IsFiniteSet(Processes(tx))
    BY ProcessesTyped
  <1>2. IsFiniteSet(Allocated(tx))
    BY <1>1, FS_Subset DEF Allocated
  <1> QED
    BY <1>2, FS_Subset DEF Earlier, SameContract

\* NewId counts on from the counter of the contract.
LEMMA NewIdForm ==
    ASSUME NEW tx, NEW p
    PROVE  NewId(tx, p) = [contract_hash |-> contract_hash(tx, p),
                           nonce |-> contract_counters[contract_hash(tx, p)]
                                        + Cardinality(Earlier(tx, p))]
  BY DEF NewId, Earlier

\* A new id lies between the counter of its contract before and after.
LEMMA NewIdsInRange ==
    ASSUME IdsTyped, NEW tx, Submitted(tx), NEW p \in Allocated(tx)
    PROVE  LET c == contract_hash(tx, p) IN
           /\ NewId(tx, p) \in UtxoId
           /\ NewId(tx, p).contract_hash = c
           /\ contract_counters[c] <= NewId(tx, p).nonce
           /\ NewId(tx, p).nonce < contract_counters[c] + Cardinality(SameContract(tx, c))
  <1> DEFINE c == contract_hash(tx, p)
  <1>1. c \in Contract
    BY ProcessesTyped DEF Allocated
  <1>2. contract_counters[c] \in Nat
    BY <1>1 DEF IdsTyped
  <1>3. /\ Cardinality(Earlier(tx, p)) \in Nat
        /\ Cardinality(SameContract(tx, c)) \in Nat
        /\ Cardinality(Earlier(tx, p)) < Cardinality(SameContract(tx, c))
    <2>1. IsFiniteSet(SameContract(tx, c))
      BY AllocatedIsFinite
    <2>2. Earlier(tx, p) \subseteq SameContract(tx, c) /\ p \in SameContract(tx, c)
      BY DEF Earlier, SameContract
    <2> QED
      BY <2>1, <2>2, EarlierAreFewer
  <1> QED
    BY <1>1, <1>2, <1>3, NewIdForm DEF UtxoId

\* Two processes never get the same id.
LEMMA NewIdsDiffer ==
    ASSUME IdsTyped, NEW tx, Submitted(tx),
           NEW p \in Allocated(tx), NEW q \in Allocated(tx), NewId(tx, p) = NewId(tx, q)
    PROVE  p = q
  <1>1. p \in Int /\ q \in Int
    BY ProcessesTyped DEF Allocated
  <1>2. ASSUME NEW a \in Allocated(tx), NEW b \in Allocated(tx), a \in Int, b \in Int, a < b,
               NewId(tx, a) = NewId(tx, b)
        PROVE  FALSE
    <2>1. contract_hash(tx, a) = contract_hash(tx, b)
      BY <1>2, NewIdsInRange
    <2>2. contract_hash(tx, a) \in Contract
      BY ProcessesTyped DEF Allocated
    <2>3. contract_counters[contract_hash(tx, a)] \in Nat
      BY <2>2 DEF IdsTyped
    <2>4. Earlier(tx, a) \subseteq Earlier(tx, b) /\ a \in Earlier(tx, b)
      <3>1. \A x \in Allocated(tx) : x \in Int
        BY ProcessesTyped DEF Allocated
      <3>2. \A x \in Allocated(tx) : x < a => x < b
        BY <1>2, <3>1
      <3> QED
        BY <1>2, <2>1, <3>2 DEF Earlier
    <2>5. /\ Cardinality(Earlier(tx, a)) \in Nat
          /\ Cardinality(Earlier(tx, b)) \in Nat
          /\ Cardinality(Earlier(tx, a)) < Cardinality(Earlier(tx, b))
      BY <2>4, AllocatedIsFinite, EarlierAreFewer
    <2>6. NewId(tx, a).nonce = contract_counters[contract_hash(tx, a)] + Cardinality(Earlier(tx, a))
      BY NewIdForm
    <2>7. NewId(tx, b).nonce = contract_counters[contract_hash(tx, a)] + Cardinality(Earlier(tx, b))
      BY <2>1, NewIdForm
    <2> QED
      BY <1>2, <2>3, <2>5, <2>6, <2>7
  <1>3. p < q \/ q < p \/ p = q
    BY <1>1
  <1> QED
    BY <1>1, <1>2, <1>3

-----------------------------------------------------------------------------
(* A map over ids after a transaction                                      *)

New(tx) == {NewId(tx, p) : p \in Allocated(tx)}
Gone(tx) == {tx.inputs[p] : p \in Spending(tx)}

\* New ids were never used, and what a transaction spends was unspent.
LEMMA NewIdsAreNew ==
    ASSUME IdInv, NEW tx, Submitted(tx)
    PROVE  /\ New(tx) \cap (Unspent \cup spent) = {}
           /\ New(tx) \subseteq UtxoId
           /\ Gone(tx) \subseteq Unspent
  <1>1. IdsTyped
    BY DEF IdInv
  <1>2. Gone(tx) \subseteq Unspent
    BY <1>1, ProcessesTyped DEF Gone, Spending
  <1>3. ASSUME NEW p \in Allocated(tx)
        PROVE  /\ NewId(tx, p) \in UtxoId
               /\ NewId(tx, p) \notin Unspent \cup spent
    <2> DEFINE id == NewId(tx, p)
    <2>1. /\ id \in UtxoId
          /\ contract_counters[id.contract_hash] <= id.nonce
      BY <1>1, NewIdsInRange
    <2>2. id.nonce \in Nat /\ contract_counters[id.contract_hash] \in Nat
      BY <2>1, <1>1 DEF UtxoId, IdsTyped
    <2>3. ~(id.nonce < contract_counters[id.contract_hash])
      BY <2>1, <2>2
    <2> QED
      BY <2>1, <2>3 DEF IdInv, IdsAreFresh
  <1> QED
    BY <1>2, <1>3 DEF New

\* What AfterSpending holds: the entries of the new ids and the old ones that
\* are not spent.
LEMMA AfterSpendingHolds ==
    ASSUME IdInv, NEW tx, Submitted(tx), NEW map, NEW fresh, DOMAIN map = Unspent,
           NEW after, after = AfterSpending(tx, map, fresh)
    PROVE  /\ DOMAIN after = (Unspent \ Gone(tx)) \cup New(tx)
           /\ \A p \in Allocated(tx) : after[NewId(tx, p)] = fresh[p]
           /\ \A id \in Unspent \ Gone(tx) : after[id] = map[id]
  <1> DEFINE owner(id) == CHOOSE p \in Allocated(tx) : NewId(tx, p) = id
  <1>1. after = [id \in (DOMAIN map \cup New(tx)) \ Gone(tx) |->
                    IF id \in New(tx) THEN fresh[owner(id)] ELSE map[id]]
    BY DEF AfterSpending, New, Gone
  <1>2. (DOMAIN map \cup New(tx)) \ Gone(tx) = (Unspent \ Gone(tx)) \cup New(tx)
    BY NewIdsAreNew
  <1>3. \A p \in Allocated(tx) : owner(NewId(tx, p)) = p
    BY NewIdsDiffer DEF IdInv
  <1>4. \A p \in Allocated(tx) : NewId(tx, p) \in New(tx)
    BY DEF New
  <1> HIDE DEF owner
  <1>5. \A p \in Allocated(tx) : after[NewId(tx, p)] = fresh[p]
    BY <1>1, <1>2, <1>3, <1>4
  <1>6. \A id \in Unspent \ Gone(tx) : after[id] = map[id]
    BY <1>1, <1>2, NewIdsAreNew
  <1>7. DOMAIN after = (Unspent \ Gone(tx)) \cup New(tx)
    BY <1>1, <1>2
  <1> QED
    BY <1>5, <1>6, <1>7

-----------------------------------------------------------------------------
(* Each transaction preserves the invariant                                *)

\* The unspent ids after a transaction.
LEMMA UnspentAfter ==
    ASSUME IdInv, NEW tx, Submitted(tx), apply_transaction(tx)
    PROVE  /\ Unspent' = (Unspent \ Gone(tx)) \cup New(tx)
           /\ spent' = spent \cup Gone(tx)
  BY AfterSpendingHolds DEF apply_transaction, Unspent, Gone

\* Counters only grow, past the ids that were given out.
LEMMA IdStep ==
    ASSUME IdInv, NEW tx, Submitted(tx), apply_transaction(tx)
    PROVE  IdInv'
  <1>1. IdsTyped
    BY DEF IdInv
  <1>2. \A c \in Contract : contract_counters[c] \in Nat
    BY <1>1 DEF IdsTyped
  <1>3. \A c : Cardinality(SameContract(tx, c)) \in Nat
    BY <1>1, AllocatedIsFinite, FS_CardinalityType
  <1>4. contract_counters' =
            [c \in Contract |-> contract_counters[c] + Cardinality(SameContract(tx, c))]
    BY DEF apply_transaction, SameContract
  <1>5. \A c \in Contract : /\ contract_counters'[c] \in Nat
                            /\ contract_counters[c] <= contract_counters'[c]
    BY <1>2, <1>3, <1>4
  <1>6. contract_counters' \in [Contract -> Nat]
    BY <1>4, <1>5
  <1>7. Unspent' \subseteq UtxoId /\ spent' \subseteq UtxoId
    BY <1>1, UnspentAfter, NewIdsAreNew DEF IdsTyped
  <1>8. ASSUME NEW id \in Unspent \cup spent
        PROVE  id.nonce < contract_counters'[id.contract_hash]
    <2>1. id.nonce < contract_counters[id.contract_hash]
      BY DEF IdInv, IdsAreFresh
    <2>2. id.nonce \in Nat /\ id.contract_hash \in Contract
      BY <1>1 DEF IdsTyped, UtxoId
    <2> QED
      BY <2>1, <2>2, <1>2, <1>5
  <1>9. ASSUME NEW p \in Allocated(tx)
        PROVE  NewId(tx, p).nonce < contract_counters'[NewId(tx, p).contract_hash]
    <2>1. contract_hash(tx, p) \in Contract
      BY <1>1, ProcessesTyped DEF Allocated
    <2> QED
      BY <1>1, <1>4, <2>1, NewIdsInRange
  <1>10. \A id \in Unspent' \cup spent' : id.nonce < contract_counters'[id.contract_hash]
    BY <1>8, <1>9, UnspentAfter, NewIdsAreNew DEF New
  <1>11. Unspent' \cap spent' = {}
    BY UnspentAfter, NewIdsAreNew DEF IdInv, IdsAreFresh
  <1> QED
    BY <1>6, <1>7, <1>10, <1>11 DEF IdInv, IdsTyped, IdsAreFresh

\* Which chain a process is on: an input that gets an id is spent, so its
\* chain moves to one new id; an output starts a chain of its own.
LEMMA ChainsOfProcesses ==
    ASSUME Inv, NEW tx, Submitted(tx), apply_transaction(tx)
    PROVE  /\ \A p \in Allocated(tx) : ChainOf(tx, p) \in 1 .. chains'
           /\ \A p \in Allocated(tx) : \A id \in Unspent \ Gone(tx) : ChainOf(tx, p) # chain[id]
           /\ \A p, q \in Allocated(tx) : ChainOf(tx, p) = ChainOf(tx, q) => p = q
  <1>1. IdsTyped /\ ChainsTyped
    BY DEF Inv, IdInv, ChainInv
  <1>2. /\ Len(tx.inputs) \in Nat /\ Len(tx.new_outputs) \in Nat
        /\ DOMAIN tx.inputs = 1 .. Len(tx.inputs)
        /\ \A p \in DOMAIN tx.inputs : tx.inputs[p] \in Unspent
        /\ \A p \in Processes(tx) :
                /\ p \in Int
                /\ p <= Len(tx.inputs) => p \in DOMAIN tx.inputs
                /\ ~(p <= Len(tx.inputs)) => p - Len(tx.inputs) \in 1 .. Len(tx.new_outputs)
    BY <1>1, ProcessesTyped
  <1>3. chains \in Nat /\ chains' = chains + Len(tx.new_outputs)
    BY <1>1 DEF ChainsTyped, apply_transaction
  <1>4. \A id \in Unspent : chain[id] \in 1 .. chains
    BY <1>1 DEF ChainsTyped
  <1>5. ASSUME NEW p \in Allocated(tx), IsInput(tx, p)
        PROVE  /\ p \in Spending(tx) /\ tx.inputs[p] \in Unspent /\ tx.inputs[p] \in Gone(tx)
               /\ ChainOf(tx, p) = chain[tx.inputs[p]]
    <2>1. p \in DOMAIN tx.inputs
      BY <1>2, <1>5 DEF Allocated, IsInput
    <2> QED
      BY <2>1, <1>2, <1>5 DEF Allocated, Spending, Gone, ChainOf
  <1>6. ASSUME NEW p \in Allocated(tx), ~IsInput(tx, p)
        PROVE  /\ p \in Int /\ ChainOf(tx, p) = chains + p - Len(tx.inputs)
               /\ ChainOf(tx, p) \in (chains + 1) .. chains'
    <2>1. ChainOf(tx, p) = chains + p - Len(tx.inputs)
      BY <1>6 DEF ChainOf
    <2>2. p \in Int /\ p - Len(tx.inputs) \in 1 .. Len(tx.new_outputs)
      BY <1>2, <1>6 DEF Allocated, IsInput
    <2> QED
      BY <2>1, <2>2, <1>2, <1>3, Offsets
  <1>7. ASSUME NEW p \in Allocated(tx)
        PROVE  ChainOf(tx, p) \in 1 .. chains'
    BY <1>2, <1>3, <1>4, <1>5, <1>6
  <1>8. ASSUME NEW p \in Allocated(tx), NEW id \in Unspent \ Gone(tx), ChainOf(tx, p) = chain[id]
        PROVE  FALSE
    <2>1. CASE IsInput(tx, p)
      BY <2>1, <1>5, <1>8 DEF Inv, ChainInv, OneEndPerChain
    <2>2. CASE ~IsInput(tx, p)
      BY <2>2, <1>3, <1>4, <1>6, <1>8
    <2> QED
      BY <2>1, <2>2
  <1>9. ASSUME NEW p \in Allocated(tx), NEW q \in Allocated(tx), ChainOf(tx, p) = ChainOf(tx, q)
        PROVE  p = q
    <2>1. CASE IsInput(tx, p) /\ IsInput(tx, q)
      <3>1. tx.inputs[p] = tx.inputs[q]
        BY <2>1, <1>5, <1>9 DEF Inv, ChainInv, OneEndPerChain
      <3> QED
        BY <2>1, <3>1, <1>5 DEF apply_transaction, RemoveSucceeds
    <2>2. CASE ~IsInput(tx, p) /\ ~IsInput(tx, q)
      BY <2>2, <1>2, <1>3, <1>6, <1>9
    <2>3. CASE IsInput(tx, p) /\ ~IsInput(tx, q)
      BY <2>3, <1>3, <1>4, <1>5, <1>6, <1>9
    <2>4. CASE ~IsInput(tx, p) /\ IsInput(tx, q)
      BY <2>4, <1>3, <1>4, <1>5, <1>6, <1>9
    <2> QED
      BY <2>1, <2>2, <2>3, <2>4
  <1> QED
    BY <1>7, <1>8, <1>9

\* Two ends of a chain would be two processes or an id that should be gone.
LEMMA ChainStep ==
    ASSUME Inv, NEW tx, Submitted(tx), apply_transaction(tx)
    PROVE  ChainInv'
  <1>1. IdInv /\ ChainsTyped /\ OneEndPerChain
    BY DEF Inv, ChainInv
  <1>2. chains \in Nat /\ chains' \in Nat /\ chains <= chains'
    BY <1>1, ProcessesTyped DEF IdInv, ChainsTyped, apply_transaction
  <1>3. \A id \in Unspent : chain[id] \in 1 .. chains
    BY <1>1 DEF ChainsTyped
  <1>4. DOMAIN chain = Unspent
    BY <1>1 DEF ChainsTyped
  <1> DEFINE fresh == [p \in Allocated(tx) |-> ChainOf(tx, p)]
  <1>5. chain' = AfterSpending(tx, chain, fresh)
    BY DEF apply_transaction
  <1> HIDE DEF fresh
  <1>6. /\ chain' = [id \in DOMAIN chain' |-> chain'[id]]
        /\ DOMAIN chain' = (Unspent \ Gone(tx)) \cup New(tx)
        /\ \A p \in Allocated(tx) : chain'[NewId(tx, p)] = fresh[p]
        /\ \A id \in Unspent \ Gone(tx) : chain'[id] = chain[id]
    <2>1. chain' = [id \in DOMAIN chain' |-> chain'[id]]
      BY <1>5 DEF AfterSpending
    <2> QED
      BY <1>1, <1>4, <1>5, <2>1, AfterSpendingHolds
  <1>7. \A p \in Allocated(tx) : chain'[NewId(tx, p)] = ChainOf(tx, p)
    BY <1>6 DEF fresh
  <1>8. Unspent' = (Unspent \ Gone(tx)) \cup New(tx)
    BY <1>1, UnspentAfter
  <1>9. \A id \in Unspent' : chain'[id] \in 1 .. chains'
    <2>1. \A id \in Unspent \ Gone(tx) : chain'[id] \in 1 .. chains'
      BY <1>2, <1>3, <1>6
    <2>2. \A p \in Allocated(tx) : chain'[NewId(tx, p)] \in 1 .. chains'
      BY <1>7, ChainsOfProcesses
    <2> QED
      BY <1>8, <2>1, <2>2 DEF New
  <1>10. chain' \in [Unspent' -> 1 .. chains']
    BY <1>6, <1>8, <1>9
  <1>11. ASSUME NEW a \in Unspent', NEW b \in Unspent', chain'[a] = chain'[b]
         PROVE  a = b
    <2>1. CASE a \in Unspent \ Gone(tx) /\ b \in Unspent \ Gone(tx)
      BY <2>1, <1>1, <1>6, <1>11 DEF OneEndPerChain
    <2>2. CASE a \in New(tx) /\ b \in New(tx)
      <3>1. PICK p \in Allocated(tx) : a = NewId(tx, p)
        BY <2>2 DEF New
      <3>2. PICK q \in Allocated(tx) : b = NewId(tx, q)
        BY <2>2 DEF New
      <3> QED
        BY <3>1, <3>2, <1>7, <1>11, ChainsOfProcesses
    <2>3. CASE a \in New(tx) /\ b \in Unspent \ Gone(tx)
      BY <2>3, <1>6, <1>7, <1>11, ChainsOfProcesses DEF New
    <2>4. CASE a \in Unspent \ Gone(tx) /\ b \in New(tx)
      BY <2>4, <1>6, <1>7, <1>11, ChainsOfProcesses DEF New
    <2> QED
      BY <1>8, <2>1, <2>2, <2>3, <2>4
  <1> QED
    BY <1>2, <1>10, <1>11 DEF ChainInv, ChainsTyped, OneEndPerChain

-----------------------------------------------------------------------------
(* The theorems                                                            *)

\* Nothing is on an empty ledger.
LEMMA InitInv == Init => Inv
  <1> SUFFICES ASSUME Init PROVE Inv
    OBVIOUS
  <1>1. Unspent = {} /\ DOMAIN chain = {} /\ chains = 0 /\ spent = {}
    BY DEF Init, Unspent, EmptyMap
  <1>2. chain \in [Unspent -> 1 .. chains]
    BY <1>1 DEF Init, EmptyMap
  <1>3. contract_counters \in [Contract -> Nat]
    BY DEF Init
  <1> QED
    BY <1>1, <1>2, <1>3 DEF Inv, IdInv, ChainInv, IdsTyped, ChainsTyped, IdsAreFresh,
                            OneEndPerChain

\* A step is a transaction that Next offers, or changes nothing.
LEMMA NextInv == Inv /\ [Next]_vars => Inv'
  <1> SUFFICES ASSUME Inv, [Next]_vars PROVE Inv'
    OBVIOUS
  <1>1. CASE Next
    <2>1. PICK tx : Submitted(tx) /\ apply_transaction(tx)
      <3>1. PICK inputs \in SeqUpTo(Unspent, MaxInputs), outputs \in SeqUpTo(NewOutput, MaxOutputs) :
              \E conts, owners :
                  apply_transaction([inputs |-> inputs, continuations |-> conts,
                                     new_outputs |-> outputs, ownership_out |-> owners])
        BY <1>1 DEF Next
      <3> QED
        BY <3>1 DEF Submitted
    <2>2. IdInv'
      BY <2>1, IdStep DEF Inv
    <2>3. ChainInv'
      BY <2>1, ChainStep
    <2> QED
      BY <2>2, <2>3 DEF Inv
  <1>2. CASE UNCHANGED vars
    BY <1>2 DEF vars, Inv, IdInv, ChainInv, IdsTyped, ChainsTyped, IdsAreFresh, OneEndPerChain,
                Unspent
  <1> QED
    BY <1>1, <1>2

\* Whatever transactions apply_transaction accepts, every id stays below its
\* contract's counter and no spent id is ever unspent again.
THEOREM IdsAreFreshCorrect == Spec => []IdsAreFresh
  <1>1. Inv => IdsAreFresh
    BY DEF Inv, IdInv
  <1> QED
    BY <1>1, InitInv, NextInv, PTL DEF Spec

\* Whatever transactions apply_transaction accepts, also those that list an
\* input twice or reference it, no chain of states ever has two unspent ends.
THEOREM OneEndPerChainCorrect == Spec => []OneEndPerChain
  <1>1. Inv => OneEndPerChain
    BY DEF Inv, ChainInv
  <1> QED
    BY <1>1, InitInv, NextInv, PTL DEF Spec
=============================================================================
