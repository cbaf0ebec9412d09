----------------------- MODULE ComponentRuntimeProofs -----------------------
(***************************************************************************)
(* Theorems about ComponentRuntime, for any contracts, definitions, ABIs   *)
(* and bounds: what has_method answers, which bodies run, where tokens are *)
(* and what a narrowed call finds.                                         *)
(*                                                                         *)
(* They rest on an order of the instances: an instance only holds handles  *)
(* to younger ones, so a call never comes back to an instance that is      *)
(* still being called.                                                     *)
(***************************************************************************)
EXTENDS ComponentRuntime, WellFoundedInduction, FiniteSetTheorems, TLAPS

Modes == {"script", "main", "coroutine", "method", "mint", "burn"}
BodyModes == {"main", "coroutine"}
FrameRecord == [inst : Instance, mode : Modes, method : Method \cup {None}]
Position == 1 .. Len(stack)

\* The kind of instance that runs in a mode.
ModeFits(f) ==
    /\ f.mode = "script" => f.inst \in Script
    /\ f.mode \in {"main", "coroutine", "method"} => f.inst \in Utxo
    /\ f.mode \in {"mint", "burn"} => f.inst \in Token
    /\ f.mode = "mint" => f.method = None

StackTyped ==
    /\ stack \in Seq(FrameRecord)
    /\ \A k \in Position : ModeFits(stack[k])
    /\ Active => Len(stack) > 0 /\ stack[1].mode = "script"

EntryFits(e) ==
    /\ e.kind = "utxo" => e.of \in Utxo
    /\ e.kind = "token" => e.of \in Token
    /\ e.kind = "context" => e.of = e.by /\ e.of \in Utxo

TableTyped ==
    /\ table \in [Rep -> TableEntry \cup {None}]
    /\ \A r \in Rep : table[r] # None => EntryFits(table[r])

UtxosTyped ==
    /\ instances \subseteq Instance
    /\ context \in [Utxo -> Rep \cup {None}]
    /\ def \in [Utxo -> Def \cup {None}]
    /\ DOMAIN at = Utxo
    /\ methods \in [Utxo -> SUBSET Method]
    /\ returned \subseteq Utxo \cap instances
    /\ burned \subseteq Token \cap instances

ScopesTyped ==
    /\ DOMAIN narrowed = Scope
    /\ \A s \in Scope : narrowed[s] # None => narrowed[s].rep \in Rep /\ narrowed[s].abi \in Abi

Typed == StackTyped /\ TableTyped /\ UtxosTyped /\ ScopesTyped

\* The instances can be ranked such that calls and handles point upwards.
StackUpwards(rank) ==
    /\ \A k \in Position : stack[k].inst \in instances
    /\ \A k, l \in Position : k < l => rank[stack[k].inst] < rank[stack[l].inst]

TableUpwards(rank) ==
    \A r \in Rep : table[r] # None =>
        /\ table[r].of \in instances /\ table[r].by \in instances
        /\ table[r].kind # "context" => rank[table[r].by] < rank[table[r].of]

Ordered(rank, n) ==
    /\ \A i \in instances : rank[i] < n
    /\ StackUpwards(rank)
    /\ TableUpwards(rank)

OrderInv == \E rank \in [Instance -> Nat], n \in Nat : Ordered(rank, n)

\* The body of a UTXO runs with its context, which it drops when it returns.
ContextInv ==
    \A u \in Utxo :
        /\ context[u] # None =>
            /\ table[context[u]] # None
            /\ table[context[u]].kind = "context" /\ table[context[u]].of = u
        /\ RunsBody(u) => context[u] # None
        /\ u \in returned => context[u] = None

\* The methods of the ABIs that the yield points of a definition name.
Yielded(d) == UNION {MethodsIn(YieldAbis[y]) : y \in YieldPoint[d]}

\* A running body has announced nothing; one at rest what its yield point says.
MethodsInv ==
    /\ \A u \in Utxo : u \notin instances \/ RunsBody(u) => methods[u] = {}
    /\ \A u \in Utxo \cap instances : def[u] \in Def /\ methods[u] \subseteq Yielded(def[u])
    /\ HasMethodIsCurrent

\* A narrowed handle stays in the table, with the instance that narrowed it; a
\* script has one body only.
NarrowInv ==
    /\ \A s \in Scope : narrowed[s] # None =>
        LET e == table[narrowed[s].rep] IN
        /\ e # None /\ e.kind = "utxo" /\ e.by = narrowed[s].frame.inst
        /\ e.by \in Script => narrowed[s].frame = [inst |-> e.by, body |-> "script"]
    /\ LookupFailsOnlyUnimplemented

Minting(t) == \E k \in Position : stack[k].inst = t /\ stack[k].mode = "mint"
IsHandle(r, t) == table[r] # None /\ table[r].kind = "token" /\ table[r].of = t

\* A token is minted, held or burned, and nothing but one of these.
TokenInv ==
    \A t \in Token :
        /\ t \in instances => Minting(t) \/ t \in burned \/ \E r \in Rep : IsHandle(r, t)
        /\ t \in burned => ~Minting(t)
        /\ \A r \in Rep : IsHandle(r, t) => ~Minting(t) /\ t \notin burned
        /\ \A r, q \in Rep : IsHandle(r, t) /\ IsHandle(q, t) => r = q

Inv == Typed /\ OrderInv /\ ContextInv /\ MethodsInv /\ NarrowInv /\ TokenInv

\* An instance is called at most once at a time.
OneFrame == \A k, l \in Position : stack[k].inst = stack[l].inst => k = l

-----------------------------------------------------------------------------
(* The resource table                                                      *)

\* A set of natural numbers has a least one.
LEMMA LeastNumber ==
    ASSUME NEW S, S \subseteq Nat, S # {}
    PROVE  \E x \in S : \A y \in S : x <= y
  <1>1. PICK x \in S : \A y \in S : ~(<<y, x>> \in OpToRel(<, Nat))
    BY NatLessThanWellFounded, WFMin
  <1>2. \A y \in S : ~(y < x)
    BY <1>1 DEF OpToRel
  <1> QED
    BY <1>2

\* Push uses a free entry.
LEMMA PushFree ==
    ASSUME NEW t, Free(t) # {}
    PROVE  /\ Min(Free(t)) \in Rep
           /\ t[Min(Free(t))] = None
           /\ \A e : Push(t, e) = [t EXCEPT ![Min(Free(t))] = e]
  <1>1. Free(t) \subseteq Nat
    BY RuntimeAssumption DEF Free, Rep
  <1>2. \E x \in Free(t) : \A y \in Free(t) : x <= y
    BY <1>1, LeastNumber
  <1>3. Min(Free(t)) \in Free(t)
    BY <1>2 DEF Min
  <1> QED
    BY <1>3 DEF Free, Push

\* Entries that the host functions make are entries.
LEMMA EntryTyped ==
    ASSUME NEW of \in Instance, NEW by \in Instance,
           NEW kind \in {"utxo", "token", "context"},
           NEW type \in Def \cup {"utxo", "token", "context"}
    PROVE  /\ Entry(kind, of, by, type) \in TableEntry
           /\ Entry(kind, of, by, type) # None
           /\ Entry(kind, of, by, type).kind = kind
           /\ Entry(kind, of, by, type).of = of
           /\ Entry(kind, of, by, type).by = by
           /\ Entry(kind, of, by, type).type = type
  <1>1. Entry(kind, of, by, type) \in TableEntry
    BY DEF Entry, TableEntry
  <1> QED
    BY <1>1, RuntimeAssumption DEF Entry

\* A table with one more entry.
LEMMA PushEntry ==
    ASSUME NEW t \in [Rep -> TableEntry \cup {None}], Free(t) # {}, NEW e \in TableEntry,
           NEW t2, t2 = Push(t, e)
    PROVE  LET x == Min(Free(t)) IN
           /\ x \in Rep /\ t[x] = None
           /\ t2 \in [Rep -> TableEntry \cup {None}]
           /\ t2[x] = e /\ \A r \in Rep : r # x => t2[r] = t[r]
  BY PushFree

\* Leaving functions and blocks widens variables, and narrows none.
LEMMA ScopesKeep ==
    ASSUME ScopesTyped, narrowed' = narrowed \/ \E f : narrowed' = ScopesLeft(f)
    PROVE  /\ ScopesTyped'
           /\ \A s \in Scope : narrowed'[s] # None => narrowed'[s] = narrowed[s]
  <1>1. \A s \in Scope : narrowed'[s] # None => narrowed'[s] = narrowed[s]
    BY DEF ScopesLeft
  <1>2. DOMAIN narrowed' = Scope
    BY DEF ScopesTyped, ScopesLeft
  <1> QED
    BY <1>1, <1>2 DEF ScopesTyped

-----------------------------------------------------------------------------
(* The stack                                                               *)

\* Whether an instance is being called in one of some modes.
OnStack(i, M) == \E k \in Position : stack[k].inst = i /\ stack[k].mode \in M

\* The stack of a running call.
LEMMA TopFacts ==
    ASSUME Typed, Active
    PROVE  /\ Len(stack) \in Nat /\ Len(stack) > 0 /\ Len(stack) \in Position
           /\ Top = stack[Len(stack)]
           /\ Top \in FrameRecord /\ ModeFits(Top)
           /\ Top.mode # "script" => Len(stack) > 1
           /\ Len(stack) > 1 => Len(stack) - 1 \in Position /\ Caller = stack[Len(stack) - 1].inst
  <1>1. stack \in Seq(FrameRecord) /\ Len(stack) > 0
    BY DEF Typed, StackTyped
  <1>2. Len(stack) \in Nat /\ Len(stack) \in Position
    BY <1>1 DEF Position
  <1>3. Top = stack[Len(stack)]
    BY DEF Top, Last
  <1>4. Top \in FrameRecord
    BY <1>1, <1>2, <1>3 DEF Position
  <1>5. ModeFits(Top)
    BY <1>2, <1>3 DEF Typed, StackTyped
  <1>6. Top.mode # "script" => Len(stack) > 1
    BY <1>2, <1>3 DEF Typed, StackTyped, Position
  <1>7. Len(stack) > 1 => Len(stack) - 1 \in Position
    BY <1>2 DEF Position
  <1> QED
    BY <1>1, <1>2, <1>3, <1>4, <1>5, <1>6, <1>7 DEF Caller

\* The instances of the two topmost frames.
LEMMA WhoCalls ==
    ASSUME Typed, Active
    PROVE  /\ Top.inst \in Instance
           /\ Top.mode = "script" => Top.inst \in Script
           /\ Top.mode \in {"main", "coroutine", "method"} => Top.inst \in Utxo
           /\ Top.mode \in {"mint", "burn"} => Top.inst \in Token
           /\ Len(stack) > 1 => Caller \in Instance
  <1>1. Top \in FrameRecord /\ ModeFits(Top)
    BY TopFacts
  <1>2. ASSUME Len(stack) > 1 PROVE Caller \in Instance
    <2>1. Len(stack) - 1 \in 1 .. Len(stack) /\ Caller = stack[Len(stack) - 1].inst
      BY <1>2, TopFacts DEF Position
    <2>2. stack[Len(stack) - 1] \in FrameRecord
      BY <2>1 DEF Typed, StackTyped
    <2> QED
      BY <2>1, <2>2 DEF FrameRecord
  <1> QED
    BY <1>1, <1>2 DEF FrameRecord, ModeFits

\* The body of a UTXO runs, or a token is minted, where a frame says so.
LEMMA FramesSay ==
    ASSUME StackTyped, StackTyped'
    PROVE  /\ \A u : RunsBody(u) <=> OnStack(u, BodyModes)
           /\ \A t : Minting(t) <=> OnStack(t, {"mint"})
           /\ \A u : RunsBody(u)' <=> OnStack(u, BodyModes)'
           /\ \A t : Minting(t)' <=> OnStack(t, {"mint"})'
  <1>1. DOMAIN stack = Position /\ DOMAIN stack' = Position'
    BY DEF StackTyped, Position
  <1> QED
    BY <1>1 DEF RunsBody, OnStack, BodyModes, Minting

\* A call adds a frame.
LEMMA PushFrame ==
    ASSUME StackTyped, Active, NEW f \in FrameRecord, ModeFits(f), status' = status,
           stack' = Append(stack, f)
    PROVE  /\ StackTyped'
           /\ Len(stack) \in Nat /\ Len(stack') = Len(stack) + 1
           /\ stack'[Len(stack) + 1] = f /\ \A k \in Position : stack'[k] = stack[k]
           /\ \A i, M : OnStack(i, M)' <=> OnStack(i, M) \/ (f.inst = i /\ f.mode \in M)
  <1>1. stack \in Seq(FrameRecord) /\ Len(stack) \in Nat /\ Len(stack) > 0
    BY DEF StackTyped
  <1>2. /\ stack' \in Seq(FrameRecord) /\ Len(stack') = Len(stack) + 1
        /\ stack'[Len(stack) + 1] = f /\ \A k \in Position : stack'[k] = stack[k]
    BY <1>1 DEF Position
  <1>3. Position' = Position \cup {Len(stack) + 1} /\ 1 \in Position
    BY <1>1, <1>2 DEF Position
  <1>4. StackTyped'
    <2>1. \A k \in Position' : ModeFits(stack'[k])
      BY <1>2, <1>3 DEF StackTyped
    <2>2. Len(stack') > 0 /\ stack'[1].mode = "script"
      BY <1>1, <1>2, <1>3 DEF StackTyped
    <2> QED
      BY <1>2, <2>1, <2>2 DEF StackTyped
  <1> QED
    BY <1>1, <1>2, <1>3, <1>4 DEF OnStack

\* A return takes the topmost frame away, the only one of its instance.
LEMMA PopFrame ==
    ASSUME StackTyped, OneFrame, Active, Len(stack) > 1, status' = status, stack' = Front(stack)
    PROVE  /\ StackTyped'
           /\ Len(stack) \in Nat /\ Len(stack') = Len(stack) - 1
           /\ \A k \in Position' : k \in Position /\ stack'[k] = stack[k]
           /\ \A i, M : OnStack(i, M)' <=> OnStack(i, M) /\ i # Top.inst
           /\ \A M : OnStack(Top.inst, M) <=> Top.mode \in M
  <1>1. stack \in Seq(FrameRecord) /\ Len(stack) \in Nat
    BY DEF StackTyped
  <1>2. /\ stack' \in Seq(FrameRecord) /\ Len(stack') = Len(stack) - 1
        /\ \A k \in 1 .. (Len(stack) - 1) : stack'[k] = stack[k]
    BY <1>1 DEF Front
  <1>3. Position' = 1 .. (Len(stack) - 1) /\ Position = Position' \cup {Len(stack)}
        /\ Len(stack) \notin Position' /\ 1 \in Position'
    BY <1>1, <1>2 DEF Position
  <1>4. Top = stack[Len(stack)]
    BY DEF Top, Last
  <1>5. StackTyped'
    <2>1. \A k \in Position' : ModeFits(stack'[k])
      BY <1>2, <1>3 DEF StackTyped
    <2>2. Len(stack') > 0 /\ stack'[1].mode = "script"
      BY <1>1, <1>2, <1>3 DEF StackTyped
    <2> QED
      BY <1>2, <2>1, <2>2 DEF StackTyped
  <1>6. \A k \in Position' : stack[k].inst # Top.inst
    BY <1>3, <1>4 DEF OneFrame
  <1> QED
    BY <1>1, <1>2, <1>3, <1>4, <1>5, <1>6 DEF OnStack

\* A method that resumes gives its place to the body of its UTXO.
LEMMA ReplaceFrame ==
    ASSUME StackTyped, OneFrame, Active, Top.mode = "method", status' = status,
           stack' = Append(Front(stack), Frame(Top.inst, "coroutine", None))
    PROVE  /\ StackTyped'
           /\ Position' = Position
           /\ \A k \in Position : stack'[k].inst = stack[k].inst
           /\ \A u : OnStack(u, BodyModes)' <=> OnStack(u, BodyModes) \/ u = Top.inst
           /\ \A t : OnStack(t, {"mint"})' <=> OnStack(t, {"mint"})
  <1> DEFINE f == Frame(Top.inst, "coroutine", None)
  <1>1. stack \in Seq(FrameRecord) /\ Len(stack) \in Nat /\ Len(stack) > 0
    BY DEF StackTyped
  <1>2. Top = stack[Len(stack)] /\ Len(stack) \in Position
    BY <1>1 DEF Top, Last, Position
  <1>3. Top \in FrameRecord /\ ModeFits(Top)
    BY <1>1, <1>2 DEF StackTyped, Position
  <1>4. f \in FrameRecord /\ f.inst = Top.inst /\ f.mode = "coroutine" /\ ModeFits(f)
    BY <1>3 DEF Frame, FrameRecord, Modes, ModeFits
  <1> HIDE DEF f
  <1>5. stack' = Append(Front(stack), f)
    BY DEF f
  <1>6. /\ Front(stack) \in Seq(FrameRecord) /\ Len(Front(stack)) = Len(stack) - 1
        /\ \A k \in 1 .. (Len(stack) - 1) : Front(stack)[k] = stack[k]
    <2>1. Len(stack) > 1
      BY <1>1, <1>2 DEF StackTyped
    <2> QED
      BY <1>1, <2>1 DEF Front
  <1>7. /\ stack' \in Seq(FrameRecord) /\ Len(stack') = Len(stack)
        /\ stack'[Len(stack)] = f
        /\ \A k \in 1 .. (Len(stack) - 1) : stack'[k] = stack[k]
    BY <1>1, <1>4, <1>5, <1>6
  <1>8. Position' = Position /\ Position = (1 .. (Len(stack) - 1)) \cup {Len(stack)}
    BY <1>1, <1>7 DEF Position
  <1>9. \A k \in Position : stack'[k].inst = stack[k].inst
    BY <1>2, <1>4, <1>7, <1>8
  <1>10. Len(stack) # 1
    BY <1>2 DEF StackTyped
  <1>11. StackTyped'
    <2>1. \A k \in Position' : ModeFits(stack'[k])
      BY <1>4, <1>7, <1>8 DEF StackTyped
    <2>2. Len(stack') > 0 /\ stack'[1].mode = "script"
      BY <1>1, <1>7, <1>10 DEF StackTyped
    <2> QED
      BY <1>7, <2>1, <2>2 DEF StackTyped
  <1>12. \A k \in 1 .. (Len(stack) - 1) : stack[k].inst # Top.inst
    BY <1>1, <1>2, <1>8 DEF OneFrame
  <1>13. \A u : OnStack(u, BodyModes)' <=> OnStack(u, BodyModes) \/ u = Top.inst
    BY <1>2, <1>4, <1>7, <1>8 DEF OnStack, BodyModes
  <1>14. \A t : OnStack(t, {"mint"})' <=> OnStack(t, {"mint"})
    BY <1>2, <1>4, <1>7, <1>8 DEF OnStack
  <1> QED
    BY <1>8, <1>9, <1>11, <1>13, <1>14

-----------------------------------------------------------------------------
(* The order of the instances                                              *)

\* Calls that point upwards do not come back.
LEMMA OrderedOnce ==
    ASSUME Typed, OrderInv
    PROVE  OneFrame
  <1>1. PICK rank \in [Instance -> Nat], n \in Nat : Ordered(rank, n)
    BY DEF OrderInv
  <1>2. \A k \in Position : k \in Int /\ rank[stack[k].inst] \in Nat
    BY <1>1 DEF Ordered, StackUpwards, Typed, UtxosTyped, Position
  <1>3. \A k, l \in Position : k < l => rank[stack[k].inst] < rank[stack[l].inst]
    BY <1>1 DEF Ordered, StackUpwards
  <1> QED
    BY <1>2, <1>3 DEF OneFrame

\* A call of a younger instance keeps the stack in order.
LEMMA PushUpwards ==
    ASSUME Typed, Active, NEW rank \in [Instance -> Nat], StackUpwards(rank),
           NEW f \in FrameRecord, ModeFits(f), status' = status, stack' = Append(stack, f),
           instances \subseteq instances', f.inst \in instances',
           rank[Top.inst] < rank[f.inst]
    PROVE  StackUpwards(rank)'
  <1>1. /\ Len(stack) \in Nat /\ Len(stack') = Len(stack) + 1
        /\ stack'[Len(stack) + 1] = f /\ \A k \in Position : stack'[k] = stack[k]
    BY PushFrame DEF Typed
  <1>2. Position' = Position \cup {Len(stack) + 1} /\ \A k \in Position : k <= Len(stack) /\ k \in Int
    BY <1>1 DEF Position
  <1>3. Len(stack) \in Position /\ Top = stack[Len(stack)]
    BY TopFacts
  <1>4. \A k \in Position : stack[k].inst \in Instance /\ rank[stack[k].inst] \in Nat
    BY DEF StackUpwards, Typed, UtxosTyped
  <1>5. f.inst \in Instance /\ rank[f.inst] \in Nat
    BY DEF FrameRecord
  <1>6. \A k \in Position : rank[stack[k].inst] < rank[f.inst]
    <2> SUFFICES ASSUME NEW k \in Position PROVE rank[stack[k].inst] < rank[f.inst]
      OBVIOUS
    <2>1. CASE k = Len(stack)
      BY <2>1, <1>3
    <2>2. CASE k # Len(stack)
      <3>1. k < Len(stack)
        BY <2>2, <1>1, <1>2
      <3>2. rank[stack[k].inst] < rank[Top.inst]
        BY <3>1, <1>3 DEF StackUpwards
      <3> QED
        BY <3>2, <1>3, <1>4, <1>5
    <2> QED
      BY <2>1, <2>2
  <1>7. ASSUME NEW k \in Position', NEW l \in Position', k < l
        PROVE  rank[stack'[k].inst] < rank[stack'[l].inst]
    <2>1. k \in Position
      BY <1>1, <1>2, <1>7
    <2>2. CASE l \in Position
      BY <1>1, <1>7, <2>1, <2>2 DEF StackUpwards
    <2>3. CASE l = Len(stack) + 1
      BY <1>1, <1>6, <2>1, <2>3
    <2> QED
      BY <1>2, <2>2, <2>3
  <1>8. \A k \in Position' : stack'[k].inst \in instances'
    BY <1>1, <1>2 DEF StackUpwards
  <1> QED
    BY <1>7, <1>8 DEF StackUpwards

\* So does a return.
LEMMA PopUpwards ==
    ASSUME Typed, OneFrame, Active, Len(stack) > 1, status' = status, stack' = Front(stack),
           NEW rank \in [Instance -> Nat], StackUpwards(rank), instances' = instances
    PROVE  /\ StackUpwards(rank)'
           /\ Top.inst \in instances /\ Caller \in instances
           /\ rank[Caller] < rank[Top.inst]
  <1>1. \A k \in Position' : k \in Position /\ stack'[k] = stack[k]
    BY PopFrame DEF Typed
  <1>2. StackUpwards(rank)'
    BY <1>1 DEF StackUpwards
  <1>3. /\ Len(stack) \in Position /\ Len(stack) - 1 \in Position /\ Len(stack) \in Nat
        /\ Top = stack[Len(stack)] /\ Caller = stack[Len(stack) - 1].inst
    BY TopFacts
  <1>4. Len(stack) - 1 < Len(stack)
    BY <1>3
  <1> QED
    BY <1>2, <1>3, <1>4 DEF StackUpwards

\* A new instance is younger than all others.
LEMMA RankFresh ==
    ASSUME Typed, NEW rank \in [Instance -> Nat], NEW n \in Nat, Ordered(rank, n),
           NEW i \in Instance, i \notin instances
    PROVE  LET younger == [rank EXCEPT ![i] = n] IN
           /\ younger \in [Instance -> Nat]
           /\ \A j \in instances : younger[j] < n
           /\ younger[i] = n
           /\ StackUpwards(younger) /\ TableUpwards(younger)
  <1> DEFINE younger == [rank EXCEPT ![i] = n]
  <1>1. younger \in [Instance -> Nat] /\ younger[i] = n
    OBVIOUS
  <1>2. \A j \in instances : younger[j] = rank[j]
    BY DEF Typed, UtxosTyped
  <1> HIDE DEF younger
  <1>3. StackUpwards(younger)
    BY <1>2 DEF Ordered, StackUpwards
  <1>4. TableUpwards(younger)
    BY <1>2 DEF Ordered, TableUpwards
  <1> QED
    BY <1>1, <1>2, <1>3, <1>4 DEF Ordered, younger

-----------------------------------------------------------------------------
(* What keeps a part of the invariant                                      *)

\* A step that starts no body and leaves the entries of contexts alone.
LEMMA KeepContext ==
    ASSUME Inv, UNCHANGED <<context, returned>>,
           \A u \in Utxo : RunsBody(u)' => RunsBody(u),
           \A r \in Rep : table[r] # None /\ table[r].kind = "context" => table'[r] = table[r]
    PROVE  ContextInv'
  <1>1. \A u \in Utxo : context[u] # None => context[u] \in Rep
    BY DEF Inv, Typed, UtxosTyped
  <1> QED
    BY <1>1 DEF Inv, ContextInv

\* A step that neither starts nor ends a body.
LEMMA KeepMethods ==
    ASSUME Inv, UNCHANGED <<methods, def, at, returned>>,
           \A u \in Utxo : RunsBody(u)' <=> RunsBody(u),
           Utxo \cap instances' = Utxo \cap instances
    PROVE  MethodsInv'
  <1>1. \A u \in Utxo : u \in instances' <=> u \in instances
    OBVIOUS
  <1> QED
    BY <1>1 DEF Inv, MethodsInv, HasMethodIsCurrent

\* A step that narrows nothing, and keeps the entries of narrowed handles.
LEMMA KeepNarrow ==
    ASSUME Inv, \A u \in Utxo \cap instances : def'[u] = def[u],
           \A s \in Scope : narrowed'[s] # None =>
                narrowed'[s] = narrowed[s] /\ table'[narrowed[s].rep] = table[narrowed[s].rep]
    PROVE  NarrowInv'
  <1>1. ASSUME NEW s \in Scope, narrowed'[s] # None
        PROVE  /\ narrowed[s] # None /\ narrowed'[s] = narrowed[s]
               /\ table'[narrowed'[s].rep] = table[narrowed[s].rep]
               /\ def'[table'[narrowed'[s].rep].of] = def[table[narrowed[s].rep].of]
    <2>1. narrowed[s] # None /\ narrowed'[s] = narrowed[s]
          /\ table'[narrowed'[s].rep] = table[narrowed[s].rep]
      BY <1>1
    <2>2. narrowed[s].rep \in Rep
      BY <2>1 DEF Inv, Typed, ScopesTyped
    <2>3. table[narrowed[s].rep] # None /\ table[narrowed[s].rep].kind = "utxo"
      BY <2>1 DEF Inv, NarrowInv
    <2>4. table[narrowed[s].rep].of \in Utxo \cap instances
      BY <2>2, <2>3 DEF Inv, Typed, TableTyped, EntryFits, OrderInv, Ordered, TableUpwards
    <2> QED
      BY <2>1, <2>4
  <1>2. LookupFailsOnlyUnimplemented'
    <2> SUFFICES ASSUME NEW s \in Scope, narrowed'[s] # None,
                        NEW d, d = def'[table'[narrowed'[s].rep].of],
                        NEW m \in Methods[narrowed'[s].abi]
                 PROVE  m \in Exported(d) \/ AnnouncedOnly(d, m)
      BY DEF LookupFailsOnlyUnimplemented
    <2> QED
      BY <1>1 DEF Inv, NarrowInv, LookupFailsOnlyUnimplemented
  <1> QED
    BY <1>1, <1>2 DEF Inv, NarrowInv

\* A step that moves no token.
LEMMA KeepTokens ==
    ASSUME Inv, burned' = burned, Token \cap instances' = Token \cap instances,
           \A t \in Token : Minting(t)' <=> Minting(t),
           \A r \in Rep, t \in Token : IsHandle(r, t)' <=> IsHandle(r, t)
    PROVE  TokenInv'
  <1>1. \A t \in Token : t \in instances' <=> t \in instances
    OBVIOUS
  <1> QED
    BY <1>1 DEF Inv, TokenInv

-----------------------------------------------------------------------------
(* The steps, action by action                                             *)

\* The store of a call that is over holds nothing.
LEMMA DroppedInv ==
    ASSUME NEW result \in {"Done", "Trapped"}, StoreDropped(result)
    PROVE  Inv'
  <1>1. stack' \in Seq(FrameRecord) /\ Position' = {}
    BY DEF StoreDropped, Position
  <1>2. ~Active'
    BY DEF StoreDropped, Active
  <1>3. Typed'
    BY <1>1, <1>2, RuntimeAssumption
       DEF StoreDropped, Typed, StackTyped, TableTyped, UtxosTyped, ScopesTyped
  <1>4. \A u : ~RunsBody(u)' /\ ~Minting(u)'
    BY <1>1 DEF RunsBody, Minting, StoreDropped
  <1>5. OrderInv'
    <2>1. PICK rank \in [Instance -> Nat] : rank = [i \in Instance |-> 0]
      OBVIOUS
    <2>2. Ordered(rank, 0)'
      BY <1>1 DEF StoreDropped, Ordered, StackUpwards, TableUpwards
    <2> QED
      BY <2>2 DEF OrderInv
  <1>6. ContextInv' /\ MethodsInv'
    BY <1>4 DEF StoreDropped, ContextInv, MethodsInv, HasMethodIsCurrent
  <1>7. NarrowInv' /\ TokenInv'
    BY <1>4 DEF StoreDropped, NarrowInv, LookupFailsOnlyUnimplemented, TokenInv, IsHandle
  <1> QED
    BY <1>3, <1>5, <1>6, <1>7 DEF Inv

\* A main fn starts in a fresh instance, with a context.
LEMMA MainInv ==
    ASSUME Inv, NEW u \in Utxo, NEW d \in Def, call_utxo_main(u, d)
    PROVE  Inv'
  <1> DEFINE f == Frame(u, "main", None)
             e == Entry("context", u, u, "context")
             x == Min(Free(table))
  <1>1. /\ Active /\ u \notin instances /\ u \in Instance
        /\ stack' = Append(stack, f)
        /\ context' = [context EXCEPT ![u] = x] /\ def' = [def EXCEPT ![u] = d]
        /\ instances' = instances \cup {u}
        /\ UNCHANGED <<status, narrowed, at, methods, returned, burned>>
    BY DEF call_utxo_main, Enter, Instance
  <1>2. f \in FrameRecord /\ ModeFits(f) /\ f.inst = u /\ f.mode = "main"
    BY <1>1 DEF Frame, FrameRecord, Modes, ModeFits
  <1>3. e \in TableEntry /\ e # None /\ e.kind = "context" /\ e.of = u /\ e.by = u
    BY <1>1, EntryTyped
  <1>4. /\ x \in Rep /\ table[x] = None
        /\ table' \in [Rep -> TableEntry \cup {None}]
        /\ table'[x] = e /\ \A r \in Rep : r # x => table'[r] = table[r]
    <2>1. table \in [Rep -> TableEntry \cup {None}] /\ Free(table) # {} /\ table' = Push(table, e)
      BY DEF Inv, Typed, TableTyped, call_utxo_main
    <2> QED
      BY <2>1, <1>3, PushEntry
  <1> HIDE DEF f, e, x
  <1>5. Typed /\ StackTyped /\ OneFrame
    BY OrderedOnce DEF Inv, Typed
  <1>6. /\ StackTyped'
        /\ \A i, M : OnStack(i, M)' <=> OnStack(i, M) \/ (f.inst = i /\ f.mode \in M)
    BY <1>1, <1>2, <1>5, PushFrame
  <1>7. /\ \A v : RunsBody(v)' <=> RunsBody(v) \/ v = u
        /\ \A t : Minting(t)' <=> Minting(t)
    BY <1>2, <1>5, <1>6, FramesSay DEF BodyModes
  <1>8. TableTyped'
    <2>1. EntryFits(e)
      BY <1>3 DEF EntryFits
    <2> QED
      BY <1>4, <1>5, <2>1 DEF Typed, TableTyped
  <1>9. UtxosTyped' /\ ScopesTyped'
    BY <1>1, <1>4, <1>5 DEF Typed, UtxosTyped, ScopesTyped
  <1>10. OrderInv'
    <2>1. PICK rank \in [Instance -> Nat], n \in Nat : Ordered(rank, n)
      BY DEF Inv, OrderInv
    <2>2. PICK younger \in [Instance -> Nat] :
            /\ \A j \in instances : younger[j] < n
            /\ younger[u] = n
            /\ StackUpwards(younger) /\ TableUpwards(younger)
      BY <1>1, <1>5, <2>1, RankFresh
    <2>3. Top.inst \in instances
      BY <1>1, <1>5, <2>2, TopFacts DEF StackUpwards
    <2>4. StackUpwards(younger)'
      BY <1>1, <1>2, <1>5, <2>2, <2>3, PushUpwards
    <2>5. TableUpwards(younger)'
      BY <1>1, <1>3, <1>4, <2>2 DEF TableUpwards
    <2>6. n + 1 \in Nat /\ \A i \in instances' : younger[i] < n + 1
      <3>1. \A i \in instances : i \in Instance /\ younger[i] \in Nat
        BY <1>5, <2>2 DEF Typed, UtxosTyped
      <3> QED
        BY <1>1, <2>2, <3>1
    <2>7. Ordered(younger, n + 1)'
      BY <2>4, <2>5, <2>6 DEF Ordered
    <2> QED
      BY <2>6, <2>7 DEF OrderInv
  <1>11. ContextInv'
    <2>1. ASSUME NEW v \in Utxo, v # u, context[v] # None
          PROVE  context'[v] = context[v] /\ context[v] \in Rep /\ table'[context[v]] = table[context[v]]
      BY <1>1, <1>4, <1>5, <2>1 DEF Inv, ContextInv, Typed, UtxosTyped
    <2>2. context'[u] = x /\ x # None /\ \A v \in Utxo : v # u => context'[v] = context[v]
      BY <1>1, <1>4, <1>5, RuntimeAssumption DEF Typed, UtxosTyped
    <2>3. u \notin returned
      BY <1>1, <1>5 DEF Typed, UtxosTyped
    <2> QED
      BY <1>1, <1>3, <1>4, <1>7, <2>1, <2>2, <2>3 DEF Inv, ContextInv
  <1>12. MethodsInv'
    <2>1. def'[u] = d /\ \A v \in Utxo : v # u => def'[v] = def[v]
      BY <1>1, <1>5 DEF Typed, UtxosTyped
    <2>2. methods[u] = {}
      BY <1>1 DEF Inv, MethodsInv
    <2> QED
      BY <1>1, <1>7, <2>1, <2>2 DEF Inv, MethodsInv, HasMethodIsCurrent
  <1>13. NarrowInv'
    <2>1. \A v \in Utxo \cap instances : def'[v] = def[v]
      BY <1>1, <1>5 DEF Typed, UtxosTyped
    <2>2. \A s \in Scope : narrowed[s] # None => table'[narrowed[s].rep] = table[narrowed[s].rep]
      BY <1>4, <1>5 DEF Inv, NarrowInv, Typed, ScopesTyped
    <2> QED
      BY <1>1, <2>1, <2>2, KeepNarrow
  <1>14. TokenInv'
    <2>1. u \notin Token
      BY RuntimeAssumption
    <2>2. \A r \in Rep, t \in Token : IsHandle(r, t)' <=> IsHandle(r, t)
      BY <1>3, <1>4 DEF IsHandle
    <2> QED
      BY <1>1, <1>7, <2>1, <2>2, KeepTokens
  <1> QED
    BY <1>6, <1>8, <1>9, <1>10, <1>11, <1>12, <1>13, <1>14 DEF Inv, Typed

\* An entry for the caller: of the instance that returns, or of one it holds.
Handed(e) ==
    /\ e.by = Caller
    /\ \/ e.of = Top.inst
       \/ \E q \in Rep : /\ table[q] # None /\ table[q].kind # "context"
                         /\ table[q].by = Top.inst /\ table[q].of = e.of

\* What every return has in common.
LEMMA ReturnFacts ==
    ASSUME Inv, Active, Len(stack) > 1, stack' = Front(stack), UNCHANGED <<status, instances>>,
           \A r \in Rep : table'[r] # None => table'[r] = table[r] \/ Handed(table'[r])
    PROVE  /\ StackTyped'
           /\ \A v : RunsBody(v)' <=> RunsBody(v) /\ v # Top.inst
           /\ \A t : Minting(t)' <=> Minting(t) /\ t # Top.inst
           /\ RunsBody(Top.inst) <=> Top.mode \in BodyModes
           /\ Minting(Top.inst) <=> Top.mode = "mint"
           /\ OrderInv'
  <1>1. Typed /\ StackTyped /\ OneFrame
    BY OrderedOnce DEF Inv, Typed
  <1>2. /\ StackTyped'
        /\ \A i, M : OnStack(i, M)' <=> OnStack(i, M) /\ i # Top.inst
        /\ \A M : OnStack(Top.inst, M) <=> Top.mode \in M
    BY <1>1, PopFrame
  <1>3. /\ \A v : RunsBody(v)' <=> RunsBody(v) /\ v # Top.inst
        /\ \A t : Minting(t)' <=> Minting(t) /\ t # Top.inst
    BY <1>1, <1>2, FramesSay
  <1>4. /\ RunsBody(Top.inst) <=> Top.mode \in BodyModes
        /\ Minting(Top.inst) <=> Top.mode = "mint"
    BY <1>1, <1>2, FramesSay
  <1>5. OrderInv'
    <2>1. PICK rank \in [Instance -> Nat], n \in Nat : Ordered(rank, n)
      BY DEF Inv, OrderInv
    <2>2. /\ StackUpwards(rank)'
          /\ Top.inst \in instances /\ Caller \in instances
          /\ rank[Caller] < rank[Top.inst]
      BY <1>1, <2>1, PopUpwards DEF Ordered
    <2>3. \A i \in instances : rank[i] \in Nat
      BY <1>1, <2>1 DEF Typed, UtxosTyped
    <2>4. ASSUME NEW r \in Rep, table'[r] # None
          PROVE  /\ table'[r].of \in instances /\ table'[r].by \in instances
                 /\ table'[r].kind # "context" => rank[table'[r].by] < rank[table'[r].of]
      <3>1. CASE table'[r] = table[r]
        BY <2>1, <2>4, <3>1 DEF Ordered, TableUpwards
      <3>2. CASE Handed(table'[r])
        <4>1. CASE table'[r].of = Top.inst
          BY <2>2, <3>2, <4>1 DEF Handed
        <4>2. CASE table'[r].of # Top.inst
          <5>1. PICK q \in Rep : /\ table[q] # None /\ table[q].kind # "context"
                                 /\ table[q].by = Top.inst /\ table[q].of = table'[r].of
            BY <3>2, <4>2 DEF Handed
          <5>2. table[q].of \in instances /\ rank[Top.inst] < rank[table[q].of]
            BY <2>1, <5>1 DEF Ordered, TableUpwards
          <5> QED
            BY <2>2, <2>3, <3>2, <5>1, <5>2 DEF Handed
        <4> QED
          BY <4>1, <4>2
      <3> QED
        BY <2>4, <3>1, <3>2
    <2>5. TableUpwards(rank)'
      BY <2>4 DEF TableUpwards
    <2>6. Ordered(rank, n)'
      BY <2>1, <2>2, <2>5 DEF Ordered
    <2> QED
      BY <2>1, <2>6 DEF OrderInv
  <1> QED
    BY <1>2, <1>3, <1>4, <1>5

\* A script, a method or a burn fn returns.
LEMMA FunctionReturnInv ==
    ASSUME Inv, function_return
    PROVE  Inv'
  <1>1. /\ Active /\ Top.mode \notin BodyModes /\ Top.mode # "mint"
        /\ Len(stack) > 1 /\ stack' = Front(stack)
        /\ narrowed' = ScopesLeft(Body(Top))
        /\ UNCHANGED <<status, instances, table, def, at, context, methods, returned, burned>>
    BY DEF function_return, coroutine, BodyModes
  <1>2. /\ StackTyped'
        /\ \A v : RunsBody(v)' <=> RunsBody(v)
        /\ \A t : Minting(t)' <=> Minting(t)
        /\ OrderInv'
    BY <1>1, ReturnFacts
  <1>3. ScopesTyped' /\ \A s \in Scope : narrowed'[s] # None => narrowed'[s] = narrowed[s]
    BY <1>1, ScopesKeep DEF Inv, Typed
  <1>4. Typed'
    BY <1>1, <1>2, <1>3 DEF Inv, Typed, TableTyped, UtxosTyped
  <1>5. ContextInv'
    BY <1>1, <1>2, KeepContext
  <1>6. MethodsInv'
    BY <1>1, <1>2, KeepMethods
  <1>7. NarrowInv'
    BY <1>1, <1>3, KeepNarrow
  <1>8. TokenInv'
    BY <1>1, <1>2, KeepTokens DEF IsHandle
  <1> QED
    BY <1>2, <1>4, <1>5, <1>6, <1>7, <1>8 DEF Inv

\* A script hands one of its handles to its caller.
LEMMA ReturnHandleInv ==
    ASSUME Inv, NEW r \in Rep, return_handle(r)
    PROVE  Inv'
  <1>1. /\ Active /\ Top.mode = "script"
        /\ Len(stack) > 1 /\ stack' = Front(stack)
        /\ table[r] # None /\ table[r].by = Top.inst
        /\ table' = [table EXCEPT ![r].by = Caller]
        /\ narrowed' = ScopesLeft(Body(Top))
        /\ UNCHANGED <<status, instances, def, at, context, methods, returned, burned>>
    BY DEF return_handle, coroutine
  <1>2. Typed /\ table \in [Rep -> TableEntry \cup {None}] /\ table[r] \in TableEntry
    BY <1>1 DEF Inv, Typed, TableTyped
  <1>3. Top.inst \in Script /\ Caller \in Instance
    BY <1>1, <1>2, TopFacts, WhoCalls
  <1>4. table[r].kind # "context"
    BY <1>1, <1>2, <1>3, RuntimeAssumption DEF Typed, TableTyped, EntryFits
  <1>5. /\ table'[r] \in TableEntry /\ table'[r] # None
        /\ table'[r].kind = table[r].kind /\ table'[r].of = table[r].of /\ table'[r].by = Caller
        /\ \A q \in Rep : q # r => table'[q] = table[q]
        /\ table' \in [Rep -> TableEntry \cup {None}]
    BY <1>1, <1>2, <1>3, RuntimeAssumption DEF TableEntry
  <1>6. Handed(table'[r])
    BY <1>1, <1>4, <1>5 DEF Handed
  <1>7. /\ StackTyped'
        /\ \A v : RunsBody(v)' <=> RunsBody(v)
        /\ \A t : Minting(t)' <=> Minting(t)
        /\ OrderInv'
    <2>1. \A q \in Rep : table'[q] = table[q] \/ Handed(table'[q])
      BY <1>5, <1>6
    <2> QED
      BY <1>1, <2>1, ReturnFacts DEF BodyModes
  <1>8. ScopesTyped' /\ \A s \in Scope : narrowed'[s] # None => narrowed'[s] = narrowed[s]
    BY <1>1, <1>2, ScopesKeep DEF Typed
  <1>9. Typed'
    <2>1. TableTyped'
      <3>1. EntryFits(table'[r])
        BY <1>1, <1>2, <1>4, <1>5 DEF Typed, TableTyped, EntryFits
      <3> QED
        BY <1>2, <1>5, <3>1 DEF Typed, TableTyped
    <2> QED
      BY <1>1, <1>2, <1>7, <1>8, <2>1 DEF Typed, UtxosTyped
  <1>10. ContextInv'
    BY <1>1, <1>4, <1>5, <1>7, KeepContext
  <1>11. MethodsInv'
    BY <1>1, <1>7, KeepMethods
  <1>12. NarrowInv'
    <2>1. ASSUME NEW s \in Scope, narrowed'[s] # None
          PROVE  narrowed[s].rep # r /\ narrowed[s].rep \in Rep
      <3>1. narrowed[s] # None /\ narrowed[s].frame # Body(Top)
        BY <1>1, <2>1 DEF ScopesLeft
      <3>2. CASE narrowed[s].rep = r
        <4>1. narrowed[s].frame = [inst |-> Top.inst, body |-> "script"]
          BY <1>1, <1>3, <3>1, <3>2 DEF Inv, NarrowInv
        <4>2. Body(Top) = [inst |-> Top.inst, body |-> "script"]
          BY <1>1 DEF Body
        <4> QED
          BY <3>1, <4>1, <4>2
      <3> QED
        BY <1>2, <3>1, <3>2 DEF Typed, ScopesTyped
    <2> QED
      BY <1>1, <1>5, <1>8, <2>1, KeepNarrow
  <1>13. TokenInv'
    <2>1. \A q \in Rep, t \in Token : IsHandle(q, t)' <=> IsHandle(q, t)
      BY <1>1, <1>5 DEF IsHandle
    <2> QED
      BY <1>1, <1>7, <2>1, KeepTokens
  <1> QED
    BY <1>7, <1>9, <1>10, <1>11, <1>12, <1>13 DEF Inv

\* A mint fn returns the handle of its token.
LEMMA MintReturnInv ==
    ASSUME Inv, mint_return
    PROVE  Inv'
  <1> DEFINE e == Entry("token", Top.inst, Caller, "token")
             x == Min(Free(table))
  <1>1. /\ Active /\ Top.mode = "mint" /\ stack' = Front(stack)
        /\ narrowed' = ScopesLeft(Body(Top))
        /\ UNCHANGED <<status, instances, def, at, context, methods, returned, burned>>
    BY DEF mint_return, coroutine
  <1>2. Typed /\ table \in [Rep -> TableEntry \cup {None}]
    BY DEF Inv, Typed, TableTyped
  <1>3. Len(stack) > 1 /\ Top.inst \in Token /\ Top.inst \in Instance /\ Caller \in Instance
    BY <1>1, <1>2, TopFacts, WhoCalls
  <1>4. e \in TableEntry /\ e # None /\ e.kind = "token" /\ e.of = Top.inst /\ e.by = Caller
    BY <1>3, EntryTyped
  <1>5. /\ x \in Rep /\ table[x] = None
        /\ table' \in [Rep -> TableEntry \cup {None}]
        /\ table'[x] = e /\ \A r \in Rep : r # x => table'[r] = table[r]
    <2>1. Free(table) # {} /\ table' = Push(table, e)
      BY DEF mint_return
    <2> QED
      BY <1>2, <2>1, <1>4, PushEntry
  <1> HIDE DEF e, x
  <1>6. /\ StackTyped'
        /\ \A v : RunsBody(v)' <=> RunsBody(v)
        /\ \A t : Minting(t)' <=> Minting(t) /\ t # Top.inst
        /\ Minting(Top.inst)
        /\ OrderInv'
    <2>1. \A r \in Rep : table'[r] = table[r] \/ Handed(table'[r])
      BY <1>4, <1>5 DEF Handed
    <2> QED
      BY <1>1, <1>3, <2>1, ReturnFacts DEF BodyModes
  <1>7. ScopesTyped' /\ \A s \in Scope : narrowed'[s] # None => narrowed'[s] = narrowed[s]
    BY <1>1, <1>2, ScopesKeep DEF Typed
  <1>8. Typed'
    <2>1. EntryFits(e)
      BY <1>3, <1>4 DEF EntryFits
    <2>2. TableTyped'
      BY <1>2, <1>5, <2>1 DEF Typed, TableTyped
    <2> QED
      BY <1>1, <1>2, <1>6, <1>7, <2>2 DEF Typed, UtxosTyped
  <1>9. ContextInv'
    BY <1>1, <1>5, <1>6, KeepContext
  <1>10. MethodsInv'
    BY <1>1, <1>6, KeepMethods
  <1>11. NarrowInv'
    <2>1. \A s \in Scope : narrowed[s] # None => table'[narrowed[s].rep] = table[narrowed[s].rep]
      BY <1>2, <1>5 DEF Inv, NarrowInv, Typed, ScopesTyped
    <2> QED
      BY <1>1, <1>7, <2>1, KeepNarrow
  <1>12. TokenInv'
    <2>1. \A r \in Rep, t \in Token : IsHandle(r, t)' <=> IsHandle(r, t) \/ (r = x /\ t = Top.inst)
      BY <1>4, <1>5 DEF IsHandle
    <2>2. Top.inst \notin burned /\ \A r \in Rep : ~IsHandle(r, Top.inst)
      BY <1>3, <1>6 DEF Inv, TokenInv
    <2> QED
      BY <1>1, <1>3, <1>5, <1>6, <2>1, <2>2 DEF Inv, TokenInv
  <1> QED
    BY <1>6, <1>8, <1>9, <1>10, <1>11, <1>12 DEF Inv

\* A body that yields or ends, in a main fn or in a method that resumed it.
LEMMA SuspendedFacts ==
    ASSUME Inv, Active, Top.mode \in BodyModes, UNCHANGED <<status, instances>>,
           NEW t \in [Rep -> TableEntry \cup {None}],
           \A r \in Rep : t[r] # None => t[r] = table[r],
           Suspended(t)
    PROVE  /\ Top.inst \in Utxo \cap instances /\ RunsBody(Top.inst)
           /\ StackTyped' /\ TableTyped' /\ OrderInv'
           /\ \A v : RunsBody(v)' <=> RunsBody(v) /\ v # Top.inst
           /\ \A i \in Token : Minting(i)' <=> Minting(i)
           /\ \A r \in Rep : t[r] # None => table'[r] = t[r]
           /\ \A r \in Rep, i \in Token : IsHandle(r, i)' => table'[r] = t[r]
  <1> DEFINE e == Entry("utxo", Top.inst, Caller, def[Top.inst])
             x == Min(Free(t))
  <1>1. Typed /\ OneFrame
    BY OrderedOnce DEF Inv
  <1>2. Top.inst \in Utxo /\ Top.inst \in Instance /\ Len(stack) > 1 /\ Caller \in Instance
    BY <1>1, TopFacts, WhoCalls DEF BodyModes
  <1>3. Top.inst \in instances
    <2>1. Len(stack) \in Position /\ Top = stack[Len(stack)]
      BY <1>1, TopFacts
    <2> QED
      BY <2>1 DEF Inv, OrderInv, Ordered, StackUpwards
  <1>4. def[Top.inst] \in Def
    BY <1>2, <1>3 DEF Inv, MethodsInv
  <1>5. e \in TableEntry /\ e # None /\ e.kind = "utxo" /\ e.of = Top.inst /\ e.by = Caller
    BY <1>2, <1>4, EntryTyped
  <1>6. stack' = Front(stack)
    BY DEF Suspended
  <1>7. /\ table' \in [Rep -> TableEntry \cup {None}]
        /\ \A r \in Rep : t[r] # None => table'[r] = t[r]
        /\ \A r \in Rep : table'[r] = t[r] \/ table'[r] = e
    <2>1. CASE Top.mode = "main"
      <3>1. Free(t) # {} /\ table' = Push(t, e)
        BY <2>1 DEF Suspended
      <3>2. /\ x \in Rep /\ t[x] = None
            /\ table' \in [Rep -> TableEntry \cup {None}]
            /\ table'[x] = e /\ \A r \in Rep : r # x => table'[r] = t[r]
        BY <3>1, <1>5, PushEntry
      <3> HIDE DEF e, x
      <3> QED
        BY <3>2
    <2>2. CASE Top.mode = "coroutine"
      BY <2>2 DEF Suspended
    <2> QED
      BY <2>1, <2>2 DEF BodyModes
  <1> HIDE DEF e, x
  <1>8. Handed(e) /\ EntryFits(e)
    BY <1>2, <1>5 DEF Handed, EntryFits
  <1>9. \A r \in Rep : table'[r] # None => table'[r] = table[r] \/ Handed(table'[r])
    BY <1>7, <1>8
  <1>10. /\ StackTyped' /\ OrderInv' /\ RunsBody(Top.inst)
         /\ \A v : RunsBody(v)' <=> RunsBody(v) /\ v # Top.inst
         /\ \A i : Minting(i)' <=> Minting(i) /\ i # Top.inst
    BY <1>2, <1>6, <1>9, ReturnFacts
  <1>11. TableTyped'
    BY <1>1, <1>7, <1>8 DEF Typed, TableTyped
  <1>12. \A r \in Rep, i \in Token : IsHandle(r, i)' => table'[r] = t[r]
    BY <1>5, <1>7 DEF IsHandle
  <1> QED
    BY <1>2, <1>3, <1>7, <1>10, <1>11, <1>12, RuntimeAssumption

\* `yield(...)` announces the methods of its yield point, and no others.
LEMMA YieldInv ==
    ASSUME Inv, NEW y \in AllYieldPoints, yield(y)
    PROVE  Inv'
  <1> DEFINE u == Top.inst
  <1>1. /\ Active /\ Top.mode \in BodyModes /\ y \in YieldPoint[def[u]]
        /\ at' = [at EXCEPT ![u] = y]
        /\ methods' = [methods EXCEPT ![u] = methods[u] \cup MethodsIn(YieldAbis[y])]
        /\ Suspended(table)
        /\ UNCHANGED <<status, instances, narrowed, def, context, returned, burned>>
    BY DEF yield, BodyModes
  <1>2. Typed /\ table \in [Rep -> TableEntry \cup {None}]
    BY DEF Inv, Typed, TableTyped
  <1>3. /\ u \in Utxo \cap instances /\ RunsBody(u)
        /\ StackTyped' /\ TableTyped' /\ OrderInv'
        /\ \A v : RunsBody(v)' <=> RunsBody(v) /\ v # u
        /\ \A i \in Token : Minting(i)' <=> Minting(i)
        /\ \A r \in Rep : table[r] # None => table'[r] = table[r]
        /\ \A r \in Rep, i \in Token : IsHandle(r, i)' => table'[r] = table[r]
    BY <1>1, <1>2, SuspendedFacts
  <1> HIDE DEF u
  <1>4. methods[u] = {} /\ u \notin returned /\ def[u] \in Def
    BY <1>3 DEF Inv, MethodsInv, ContextInv
  <1>5. MethodsIn(YieldAbis[y]) \subseteq Method
    BY RuntimeAssumption DEF Method, MethodsIn
  <1>6. /\ methods'[u] = MethodsIn(YieldAbis[y]) /\ at'[u] = y
        /\ \A v \in Utxo : v # u => methods'[v] = methods[v] /\ at'[v] = at[v]
    BY <1>1, <1>2, <1>3, <1>4 DEF Typed, UtxosTyped
  <1>7. Typed'
    <2>1. UtxosTyped'
      BY <1>1, <1>2, <1>3, <1>4, <1>5 DEF Typed, UtxosTyped
    <2> QED
      BY <1>1, <1>2, <1>3, <2>1 DEF Typed, ScopesTyped
  <1>8. ContextInv'
    BY <1>1, <1>3, KeepContext
  <1>9. MethodsInv'
    <2>1. methods'[u] \subseteq Yielded(def'[u])
      BY <1>1, <1>6 DEF Yielded
    <2>2. \A v \in Utxo : v \notin instances' \/ RunsBody(v)' => methods'[v] = {}
      BY <1>1, <1>3, <1>6 DEF Inv, MethodsInv
    <2>3. \A v \in Utxo \cap instances' : def'[v] \in Def /\ methods'[v] \subseteq Yielded(def'[v])
      BY <1>1, <1>4, <1>6, <2>1 DEF Inv, MethodsInv
    <2>4. HasMethodIsCurrent'
      BY <1>1, <1>3, <1>4, <1>6 DEF Inv, MethodsInv, HasMethodIsCurrent
    <2> QED
      BY <2>2, <2>3, <2>4 DEF MethodsInv
  <1>10. NarrowInv'
    <2>1. \A s \in Scope : narrowed[s] # None => table'[narrowed[s].rep] = table[narrowed[s].rep]
      BY <1>2, <1>3 DEF Inv, NarrowInv, Typed, ScopesTyped
    <2> QED
      BY <1>1, <2>1, KeepNarrow
  <1>11. TokenInv'
    <2>1. \A r \in Rep, t \in Token : IsHandle(r, t)' <=> IsHandle(r, t)
      BY <1>3 DEF IsHandle
    <2> QED
      BY <1>1, <1>3, <2>1, KeepTokens
  <1> QED
    BY <1>3, <1>7, <1>8, <1>9, <1>10, <1>11 DEF Inv

\* The body ends and drops its context, for good.
LEMMA VisitReturnInv ==
    ASSUME Inv, visit_return
    PROVE  Inv'
  <1> DEFINE u == Top.inst
             t == Delete(table, context[u])
  <1>1. /\ Active /\ Top.mode \in BodyModes /\ Suspended(t)
        /\ context' = [context EXCEPT ![u] = None]
        /\ returned' = returned \cup {u}
        /\ narrowed' = ScopesLeft(Body(Top))
        /\ UNCHANGED <<status, instances, def, at, methods, burned>>
    BY DEF visit_return, BodyModes
  <1>2. Typed /\ table \in [Rep -> TableEntry \cup {None}]
    BY DEF Inv, Typed, TableTyped
  <1>3. /\ t \in [Rep -> TableEntry \cup {None}]
        /\ \A r \in Rep : r # context[u] => t[r] = table[r]
        /\ \A r \in Rep : t[r] # None => t[r] = table[r]
    BY <1>2 DEF Delete
  <1> HIDE DEF t
  <1>4. /\ u \in Utxo \cap instances /\ RunsBody(u)
        /\ StackTyped' /\ TableTyped' /\ OrderInv'
        /\ \A v : RunsBody(v)' <=> RunsBody(v) /\ v # u
        /\ \A i \in Token : Minting(i)' <=> Minting(i)
        /\ \A r \in Rep : t[r] # None => table'[r] = t[r]
        /\ \A r \in Rep, i \in Token : IsHandle(r, i)' => table'[r] = t[r]
    BY <1>1, <1>3, SuspendedFacts
  <1> HIDE DEF u
  <1>5. /\ context[u] \in Rep /\ context[u] # None /\ table[context[u]] # None
        /\ table[context[u]].kind = "context" /\ table[context[u]].of = u
    BY <1>2, <1>4 DEF Inv, ContextInv, Typed, UtxosTyped
  <1>6. \A r \in Rep : r # context[u] /\ table[r] # None => table'[r] = table[r]
    BY <1>3, <1>4
  <1>7. ScopesTyped' /\ \A s \in Scope : narrowed'[s] # None => narrowed'[s] = narrowed[s]
    BY <1>1, <1>2, ScopesKeep DEF Typed
  <1>8. Typed'
    <2>1. UtxosTyped'
      BY <1>1, <1>2, <1>4 DEF Typed, UtxosTyped
    <2> QED
      BY <1>4, <1>7, <2>1 DEF Typed
  <1>9. ContextInv'
    <2>1. context'[u] = None /\ \A v \in Utxo : v # u => context'[v] = context[v]
      BY <1>1, <1>2, <1>4 DEF Typed, UtxosTyped
    <2>2. ASSUME NEW v \in Utxo, v # u, context[v] # None
          PROVE  table'[context[v]] = table[context[v]]
      BY <1>2, <1>5, <1>6, <2>2 DEF Inv, ContextInv, Typed, UtxosTyped
    <2> QED
      BY <1>1, <1>4, <2>1, <2>2 DEF Inv, ContextInv
  <1>10. MethodsInv'
    BY <1>1, <1>4 DEF Inv, MethodsInv, HasMethodIsCurrent
  <1>11. NarrowInv'
    <2>1. \A s \in Scope : narrowed[s] # None => table'[narrowed[s].rep] = table[narrowed[s].rep]
      BY <1>2, <1>5, <1>6 DEF Inv, NarrowInv, Typed, ScopesTyped
    <2> QED
      BY <1>1, <1>7, <2>1, KeepNarrow
  <1>12. TokenInv'
    <2>1. \A r \in Rep, i \in Token : IsHandle(r, i)' <=> IsHandle(r, i)
      BY <1>3, <1>4, <1>5, <1>6 DEF IsHandle
    <2> QED
      BY <1>1, <1>4, <2>1, KeepTokens
  <1> QED
    BY <1>4, <1>8, <1>9, <1>10, <1>11, <1>12 DEF Inv

\* A method resumes a body that has its context, or traps.
LEMMA ResumeInv ==
    ASSUME Inv, resume
    PROVE  Inv'
  <1> DEFINE u == Top.inst
  <1>1. CASE Trap
    BY <1>1, DroppedInv DEF Trap
  <1>2. CASE ~Trap
    <2>1. /\ Active /\ Top.mode = "method" /\ context[u] # None
          /\ methods' = [methods EXCEPT ![u] = {}]
          /\ stack' = Append(Front(stack), Frame(u, "coroutine", None))
          /\ narrowed' = ScopesLeft(Body(Top))
          /\ UNCHANGED <<status, instances, table, def, at, context, returned, burned>>
      BY <1>2 DEF resume, methods_clear
    <2>2. Typed /\ StackTyped /\ OneFrame
      BY OrderedOnce DEF Inv, Typed
    <2>3. /\ StackTyped' /\ Position' = Position
          /\ \A k \in Position : stack'[k].inst = stack[k].inst
          /\ \A v : OnStack(v, BodyModes)' <=> OnStack(v, BodyModes) \/ v = u
          /\ \A t : OnStack(t, {"mint"})' <=> OnStack(t, {"mint"})
      BY <2>1, <2>2, ReplaceFrame
    <2>4. /\ \A v : RunsBody(v)' <=> RunsBody(v) \/ v = u
          /\ \A t : Minting(t)' <=> Minting(t)
      BY <2>2, <2>3, FramesSay
    <2>5. u \in Utxo
      BY <2>1, <2>2, WhoCalls
    <2> HIDE DEF u
    <2>6. ScopesTyped' /\ \A s \in Scope : narrowed'[s] # None => narrowed'[s] = narrowed[s]
      BY <2>1, <2>2, ScopesKeep DEF Typed
    <2>7. methods'[u] = {} /\ \A v \in Utxo : v # u => methods'[v] = methods[v]
      BY <2>1, <2>2, <2>5 DEF Typed, UtxosTyped
    <2>8. Typed'
      <3>1. UtxosTyped'
        BY <2>1, <2>2, <2>5 DEF Typed, UtxosTyped
      <3> QED
        BY <2>1, <2>2, <2>3, <2>6, <3>1 DEF Typed, TableTyped
    <2>9. OrderInv'
      <3>1. PICK rank \in [Instance -> Nat], n \in Nat : Ordered(rank, n)
        BY DEF Inv, OrderInv
      <3>2. Ordered(rank, n)'
        BY <2>1, <2>3, <3>1 DEF Ordered, StackUpwards, TableUpwards
      <3> QED
        BY <3>2 DEF OrderInv
    <2>10. ContextInv'
      BY <2>1, <2>4 DEF Inv, ContextInv
    <2>11. MethodsInv'
      <3>1. \A v \in Utxo : v \notin instances' \/ RunsBody(v)' => methods'[v] = {}
        BY <2>1, <2>4, <2>7 DEF Inv, MethodsInv
      <3>2. \A v \in Utxo \cap instances' : def'[v] \in Def /\ methods'[v] \subseteq Yielded(def'[v])
        BY <2>1, <2>7 DEF Inv, MethodsInv
      <3>3. HasMethodIsCurrent'
        BY <2>1, <2>4, <2>7 DEF Inv, MethodsInv, HasMethodIsCurrent
      <3> QED
        BY <3>1, <3>2, <3>3 DEF MethodsInv
    <2>12. NarrowInv'
      BY <2>1, <2>6, KeepNarrow
    <2>13. TokenInv'
      BY <2>1, <2>4, KeepTokens DEF IsHandle
    <2> QED
      BY <2>8, <2>9, <2>10, <2>11, <2>12, <2>13 DEF Inv
  <1> QED
    BY <1>1, <1>2

\* A method runs in a UTXO that its caller has a handle to.
LEMMA EnterMethodInv ==
    ASSUME Inv, Active, NEW r \in Rep, NEW m \in Method,
           table[r] # None, table[r].kind = "utxo", table[r].by = Top.inst,
           EnterMethod(table[r].of, m)
    PROVE  Inv'
  <1> DEFINE u == table[r].of
             f == Frame(u, "method", m)
  <1>1. /\ stack' = Append(stack, f)
        /\ UNCHANGED <<status, instances, table, narrowed, def, at, context, methods, returned, burned>>
    BY DEF EnterMethod, Enter, coroutine
  <1>2. Typed /\ StackTyped
    BY DEF Inv, Typed
  <1>3. u \in Utxo /\ u \in Instance
    BY <1>2 DEF Typed, TableTyped, EntryFits, Instance
  <1>4. f \in FrameRecord /\ ModeFits(f) /\ f.inst = u /\ f.mode = "method"
    BY <1>3 DEF Frame, FrameRecord, Modes, ModeFits
  <1> HIDE DEF f
  <1>5. /\ StackTyped'
        /\ \A i, M : OnStack(i, M)' <=> OnStack(i, M) \/ (f.inst = i /\ f.mode \in M)
    BY <1>1, <1>2, <1>4, PushFrame
  <1>6. /\ \A v : RunsBody(v)' <=> RunsBody(v)
        /\ \A t : Minting(t)' <=> Minting(t)
    BY <1>2, <1>4, <1>5, FramesSay DEF BodyModes
  <1>7. Typed'
    BY <1>1, <1>2, <1>5 DEF Typed, TableTyped, UtxosTyped, ScopesTyped
  <1>8. OrderInv'
    <2>1. PICK rank \in [Instance -> Nat], n \in Nat : Ordered(rank, n)
      BY DEF Inv, OrderInv
    <2>2. u \in instances /\ rank[Top.inst] < rank[u]
      BY <2>1 DEF Ordered, TableUpwards
    <2>3. StackUpwards(rank)'
      BY <1>1, <1>2, <1>4, <2>1, <2>2, PushUpwards DEF Ordered
    <2>4. Ordered(rank, n)'
      BY <1>1, <2>1, <2>3 DEF Ordered, TableUpwards
    <2> QED
      BY <2>4 DEF OrderInv
  <1>9. ContextInv' /\ MethodsInv' /\ NarrowInv'
    BY <1>1, <1>6, KeepContext, KeepMethods, KeepNarrow
  <1>10. TokenInv'
    BY <1>1, <1>6, KeepTokens DEF IsHandle
  <1> QED
    BY <1>7, <1>8, <1>9, <1>10 DEF Inv

\* A narrowed call reaches its UTXO through the handle that was checked.
LEMMA DynamicInv ==
    ASSUME Inv, NEW s \in Scope, NEW m \in Method, call_dynamic_method(s, m)
    PROVE  Inv'
  <1>1. Active /\ narrowed[s] # None /\ narrowed[s].frame = Body(Top)
    BY DEF call_dynamic_method
  <1>2. /\ narrowed[s].rep \in Rep /\ table[narrowed[s].rep] # None
        /\ table[narrowed[s].rep].kind = "utxo" /\ table[narrowed[s].rep].by = Top.inst
    <2>1. Body(Top).inst = Top.inst
      BY DEF Body
    <2>2. narrowed[s].rep \in Rep
      BY <1>1 DEF Inv, Typed, ScopesTyped
    <2> QED
      BY <1>1, <2>1, <2>2 DEF Inv, NarrowInv
  <1>3. CASE Trap
    BY <1>3, DroppedInv DEF Trap
  <1>4. CASE EnterMethod(table[narrowed[s].rep].of, m)
    BY <1>1, <1>2, <1>4, EnterMethodInv
  <1> QED
    BY <1>3, <1>4 DEF call_dynamic_method

\* A step that only adds a handle, for a UTXO that the running instance has one to.
LEMMA CastInv ==
    ASSUME Inv, Active, NEW r \in Rep, Holds(r, "utxo"), NEW type \in Def \cup {"utxo"},
           Free(table) # {},
           table' = Push(table, Entry("utxo", table[r].of, Top.inst, type)),
           UNCHANGED <<status, stack, instances, narrowed, coroutine, burned>>
    PROVE  Inv'
  <1> DEFINE e == Entry("utxo", table[r].of, Top.inst, type)
             x == Min(Free(table))
  <1>1. UNCHANGED <<status, stack, instances, narrowed, def, at, context, methods, returned, burned>>
    BY DEF coroutine
  <1>2. /\ Typed /\ table \in [Rep -> TableEntry \cup {None}]
        /\ table[r] # None /\ table[r].kind = "utxo" /\ table[r].by = Top.inst
    BY DEF Inv, Typed, TableTyped, Holds
  <1>3. Top.inst \in Instance /\ table[r].of \in Utxo /\ table[r].of \in Instance
    BY <1>2, WhoCalls DEF Typed, TableTyped, EntryFits, Instance
  <1>4. e \in TableEntry /\ e # None /\ e.kind = "utxo" /\ e.of = table[r].of /\ e.by = Top.inst
    BY <1>3, EntryTyped
  <1>5. /\ x \in Rep /\ table[x] = None
        /\ table' \in [Rep -> TableEntry \cup {None}]
        /\ table'[x] = e /\ \A q \in Rep : q # x => table'[q] = table[q]
    BY <1>2, <1>4, PushEntry
  <1> HIDE DEF e, x
  <1>6. /\ StackTyped' /\ ScopesTyped' /\ UtxosTyped'
        /\ \A v : (RunsBody(v)' <=> RunsBody(v)) /\ (Minting(v)' <=> Minting(v))
    BY <1>1, <1>2 DEF Typed, StackTyped, Position, Active, ScopesTyped, UtxosTyped, RunsBody, Minting
  <1>7. Typed'
    <2>1. EntryFits(e)
      BY <1>3, <1>4 DEF EntryFits
    <2>2. TableTyped'
      BY <1>2, <1>5, <2>1 DEF Typed, TableTyped
    <2> QED
      BY <1>6, <2>2 DEF Typed
  <1>8. OrderInv'
    <2>1. PICK rank \in [Instance -> Nat], n \in Nat : Ordered(rank, n)
      BY DEF Inv, OrderInv
    <2>2. /\ table[r].of \in instances /\ Top.inst \in instances
          /\ rank[Top.inst] < rank[table[r].of]
      BY <1>2, <2>1 DEF Ordered, TableUpwards
    <2>3. TableUpwards(rank)'
      BY <1>1, <1>4, <1>5, <2>1, <2>2 DEF Ordered, TableUpwards
    <2>4. Ordered(rank, n)'
      BY <1>1, <2>1, <2>3 DEF Ordered, StackUpwards, Position
    <2> QED
      BY <2>4 DEF OrderInv
  <1>9. ContextInv' /\ MethodsInv'
    BY <1>1, <1>5, <1>6, KeepContext, KeepMethods
  <1>10. NarrowInv'
    <2>1. \A s \in Scope : narrowed[s] # None => table'[narrowed[s].rep] = table[narrowed[s].rep]
      BY <1>2, <1>5 DEF Inv, NarrowInv, Typed, ScopesTyped
    <2> QED
      BY <1>1, <2>1, KeepNarrow
  <1>11. TokenInv'
    <2>1. \A q \in Rep, t \in Token : IsHandle(q, t)' <=> IsHandle(q, t)
      BY <1>4, <1>5 DEF IsHandle
    <2> QED
      BY <1>1, <1>6, <2>1, KeepTokens
  <1> QED
    BY <1>7, <1>8, <1>9, <1>10, <1>11 DEF Inv

\* A handle that no variable is narrowed to is dropped.
LEMMA DropInv ==
    ASSUME Inv, NEW r \in Rep, drop_utxo(r)
    PROVE  Inv'
  <1>1. /\ Active /\ table' = Delete(table, r)
        /\ table[r] # None /\ table[r].kind = "utxo"
        /\ \A s \in Scope : narrowed[s] # None => narrowed[s].rep # r
        /\ UNCHANGED <<status, stack, instances, narrowed, def, at, context, methods, returned, burned>>
    BY DEF drop_utxo, coroutine, Holds
  <1>2. /\ table' \in [Rep -> TableEntry \cup {None}]
        /\ table'[r] = None /\ \A q \in Rep : q # r => table'[q] = table[q]
    BY <1>1 DEF Inv, Typed, TableTyped, Delete
  <1>3. /\ StackTyped' /\ ScopesTyped' /\ UtxosTyped'
        /\ \A v : (RunsBody(v)' <=> RunsBody(v)) /\ (Minting(v)' <=> Minting(v))
    BY <1>1 DEF Inv, Typed, StackTyped, Position, Active, ScopesTyped, UtxosTyped, RunsBody, Minting
  <1>4. Typed'
    BY <1>2, <1>3 DEF Inv, Typed, TableTyped
  <1>5. OrderInv'
    <2>1. PICK rank \in [Instance -> Nat], n \in Nat : Ordered(rank, n)
      BY DEF Inv, OrderInv
    <2>2. Ordered(rank, n)'
      BY <1>1, <1>2, <2>1 DEF Ordered, StackUpwards, TableUpwards, Position
    <2> QED
      BY <2>2 DEF OrderInv
  <1>6. ContextInv' /\ MethodsInv'
    BY <1>1, <1>2, <1>3, KeepContext, KeepMethods
  <1>7. NarrowInv'
    <2>1. \A s \in Scope : narrowed[s] # None => table'[narrowed[s].rep] = table[narrowed[s].rep]
      BY <1>1, <1>2 DEF Inv, Typed, ScopesTyped
    <2> QED
      BY <1>1, <2>1, KeepNarrow
  <1>8. TokenInv'
    <2>1. \A q \in Rep, t \in Token : IsHandle(q, t)' <=> IsHandle(q, t)
      BY <1>1, <1>2 DEF IsHandle
    <2> QED
      BY <1>1, <1>3, <2>1, KeepTokens
  <1> QED
    BY <1>4, <1>5, <1>6, <1>7, <1>8 DEF Inv

\* A burn fn takes the handle of its token, and runs in its instance.
LEMMA BurnInv ==
    ASSUME Inv, NEW r \in Rep, call_token_burn(r)
    PROVE  Inv'
  <1> DEFINE t == table[r].of
             f == Frame(t, "burn", None)
  <1>1. /\ Active /\ table[r] # None /\ table[r].by = Top.inst /\ table[r].kind = "token"
        /\ table' = Delete(table, r) /\ burned' = burned \cup {t}
        /\ stack' = Append(stack, f)
        /\ UNCHANGED <<status, instances, narrowed, def, at, context, methods, returned>>
    BY DEF call_token_burn, Holds, burn_entry, Enter, coroutine
  <1>2. Typed /\ StackTyped
    BY DEF Inv, Typed
  <1>3. t \in Token /\ t \in Instance
    BY <1>1, <1>2 DEF Typed, TableTyped, EntryFits, Instance
  <1>4. f \in FrameRecord /\ ModeFits(f) /\ f.inst = t /\ f.mode = "burn"
    BY <1>3 DEF Frame, FrameRecord, Modes, ModeFits
  <1>5. /\ table' \in [Rep -> TableEntry \cup {None}]
        /\ table'[r] = None /\ \A q \in Rep : q # r => table'[q] = table[q]
    BY <1>1 DEF Inv, Typed, TableTyped, Delete
  <1>6. PICK token : token = t
    OBVIOUS
  <1> HIDE DEF t, f
  <1>7. /\ StackTyped'
        /\ \A i, M : OnStack(i, M)' <=> OnStack(i, M) \/ (f.inst = i /\ f.mode \in M)
    BY <1>1, <1>2, <1>4, PushFrame
  <1>8. /\ \A v : RunsBody(v)' <=> RunsBody(v)
        /\ \A v : Minting(v)' <=> Minting(v)
    BY <1>2, <1>4, <1>7, FramesSay DEF BodyModes
  <1>9. PICK rank \in [Instance -> Nat], n \in Nat : Ordered(rank, n)
    BY DEF Inv, OrderInv
  <1>10. t \in instances /\ rank[Top.inst] < rank[t]
    BY <1>1, <1>9 DEF Ordered, TableUpwards, t
  <1>11. Typed'
    <2>1. TableTyped'
      BY <1>2, <1>5 DEF Typed, TableTyped
    <2>2. UtxosTyped' /\ ScopesTyped'
      BY <1>1, <1>2, <1>3, <1>10 DEF Typed, UtxosTyped, ScopesTyped
    <2> QED
      BY <1>7, <2>1, <2>2 DEF Typed
  <1>12. OrderInv'
    <2>1. StackUpwards(rank)'
      BY <1>1, <1>2, <1>4, <1>9, <1>10, PushUpwards DEF Ordered
    <2>2. Ordered(rank, n)'
      BY <1>1, <1>5, <1>9, <2>1 DEF Ordered, TableUpwards
    <2> QED
      BY <2>2 DEF OrderInv
  <1>13. ContextInv' /\ MethodsInv'
    BY <1>1, <1>5, <1>8, KeepContext, KeepMethods
  <1>14. NarrowInv'
    <2>1. \A s \in Scope : narrowed[s] # None => table'[narrowed[s].rep] = table[narrowed[s].rep]
      BY <1>1, <1>2, <1>5 DEF Inv, NarrowInv, Typed, ScopesTyped
    <2> QED
      BY <1>1, <2>1, KeepNarrow
  <1>15. TokenInv'
    <2>1. IsHandle(r, token) /\ \A q \in Rep, i \in Token : IsHandle(q, i)' <=> IsHandle(q, i) /\ q # r
      BY <1>1, <1>5, <1>6 DEF IsHandle, t
    <2>2. \A i \in Token : IsHandle(r, i) => i = token
      BY <1>6 DEF IsHandle, t
    <2>3. token \in Token /\ burned' = burned \cup {token}
      BY <1>1, <1>3, <1>6
    <2>4. ~Minting(token) /\ \A q \in Rep : IsHandle(q, token) => q = r
      BY <2>1, <2>3 DEF Inv, TokenInv
    <2> QED
      BY <1>1, <1>8, <2>1, <2>2, <2>3, <2>4 DEF Inv, TokenInv
  <1> QED
    BY <1>11, <1>12, <1>13, <1>14, <1>15 DEF Inv

\* A fresh instance that is not a UTXO is called.
LEMMA FreshFacts ==
    ASSUME Inv, Active, NEW i \in Instance, i \notin instances, i \notin Utxo,
           NEW f \in FrameRecord, ModeFits(f), f.inst = i, f.mode \in {"script", "mint"},
           stack' = Append(stack, f), instances' = instances \cup {i},
           UNCHANGED <<status, table, narrowed, def, at, context, methods, returned, burned>>
    PROVE  /\ Typed' /\ OrderInv' /\ ContextInv' /\ MethodsInv' /\ NarrowInv'
           /\ \A t : Minting(t)' <=> Minting(t) \/ (t = i /\ f.mode = "mint")
           /\ \A r \in Rep : table[r] # None => table[r].of # i
  <1>1. Typed /\ StackTyped
    BY DEF Inv, Typed
  <1>2. /\ StackTyped'
        /\ \A j, M : OnStack(j, M)' <=> OnStack(j, M) \/ (f.inst = j /\ f.mode \in M)
    BY <1>1, PushFrame
  <1>3. /\ \A v : RunsBody(v)' <=> RunsBody(v)
        /\ \A t : Minting(t)' <=> Minting(t) \/ (t = i /\ f.mode = "mint")
    BY <1>1, <1>2, FramesSay DEF BodyModes
  <1>4. Typed'
    BY <1>1, <1>2 DEF Typed, TableTyped, UtxosTyped, ScopesTyped
  <1>5. PICK rank \in [Instance -> Nat], n \in Nat : Ordered(rank, n)
    BY DEF Inv, OrderInv
  <1>6. OrderInv'
    <2>1. PICK younger \in [Instance -> Nat] :
            /\ \A j \in instances : younger[j] < n
            /\ younger[i] = n
            /\ StackUpwards(younger) /\ TableUpwards(younger)
      <3> DEFINE z == [rank EXCEPT ![i] = n]
      <3>1. /\ z \in [Instance -> Nat]
            /\ \A j \in instances : z[j] < n
            /\ z[i] = n
            /\ StackUpwards(z) /\ TableUpwards(z)
        BY <1>1, <1>5, RankFresh
      <3> QED
        BY <3>1
    <2>2. Top.inst \in instances
      BY <1>1, <2>1, TopFacts DEF StackUpwards
    <2>3. StackUpwards(younger)'
      BY <1>1, <2>1, <2>2, PushUpwards
    <2>4. TableUpwards(younger)'
      BY <2>1 DEF TableUpwards
    <2>5. n + 1 \in Nat /\ \A j \in instances' : younger[j] < n + 1
      <3>1. \A j \in instances : j \in Instance /\ younger[j] \in Nat
        BY <1>1, <2>1 DEF Typed, UtxosTyped
      <3> QED
        BY <1>5, <2>1, <3>1
    <2>6. Ordered(younger, n + 1)'
      BY <2>3, <2>4, <2>5 DEF Ordered
    <2> QED
      BY <2>5, <2>6 DEF OrderInv
  <1>7. ContextInv' /\ MethodsInv' /\ NarrowInv'
    BY <1>3, KeepContext, KeepMethods, KeepNarrow
  <1>8. \A r \in Rep : table[r] # None => table[r].of # i
    BY <1>5 DEF Ordered, TableUpwards
  <1> QED
    BY <1>3, <1>4, <1>6, <1>7, <1>8

\* A mint fn starts in a fresh instance.
LEMMA MintInv ==
    ASSUME Inv, NEW t \in Token, call_token_mint(t)
    PROVE  Inv'
  <1> DEFINE f == Frame(t, "mint", None)
  <1>1. /\ Active /\ t \notin instances /\ t \in Instance /\ t \notin Utxo
        /\ stack' = Append(stack, f) /\ instances' = instances \cup {t}
        /\ UNCHANGED <<status, table, narrowed, def, at, context, methods, returned, burned>>
    BY RuntimeAssumption DEF call_token_mint, Enter, coroutine, Instance
  <1>2. f \in FrameRecord /\ ModeFits(f) /\ f.inst = t /\ f.mode = "mint"
    BY <1>1 DEF Frame, FrameRecord, Modes, ModeFits
  <1> HIDE DEF f
  <1>3. /\ Typed' /\ OrderInv' /\ ContextInv' /\ MethodsInv' /\ NarrowInv'
        /\ \A i : Minting(i)' <=> Minting(i) \/ i = t
        /\ \A r \in Rep : table[r] # None => table[r].of # t
    BY <1>1, <1>2, FreshFacts
  <1>4. \A r \in Rep, i \in Token : (IsHandle(r, i)' <=> IsHandle(r, i)) /\ ~IsHandle(r, t)
    BY <1>1, <1>3 DEF IsHandle
  <1>5. t \notin burned
    BY <1>1 DEF Inv, Typed, UtxosTyped
  <1>6. TokenInv'
    BY <1>1, <1>3, <1>4, <1>5 DEF Inv, TokenInv
  <1> QED
    BY <1>3, <1>6 DEF Inv

\* A script of another contract starts in a fresh instance.
LEMMA ScriptInv ==
    ASSUME Inv, NEW i \in Script, call_coordination_script(i)
    PROVE  Inv'
  <1> DEFINE f == Frame(i, "script", None)
  <1>1. /\ Active /\ i \notin instances /\ i \in Instance /\ i \notin Utxo /\ i \notin Token
        /\ stack' = Append(stack, f) /\ instances' = instances \cup {i}
        /\ UNCHANGED <<status, table, narrowed, def, at, context, methods, returned, burned>>
    BY RuntimeAssumption DEF call_coordination_script, Enter, coroutine, Instance
  <1>2. f \in FrameRecord /\ ModeFits(f) /\ f.inst = i /\ f.mode = "script"
    BY <1>1 DEF Frame, FrameRecord, Modes, ModeFits
  <1> HIDE DEF f
  <1>3. /\ Typed' /\ OrderInv' /\ ContextInv' /\ MethodsInv' /\ NarrowInv'
        /\ \A t : Minting(t)' <=> Minting(t)
    BY <1>1, <1>2, FreshFacts
  <1>4. TokenInv'
    BY <1>1, <1>3, KeepTokens DEF IsHandle
  <1> QED
    BY <1>3, <1>4 DEF Inv

\* What is common to the steps that only open or close an `is` block.
LEMMA BlockFacts ==
    ASSUME Inv, UNCHANGED <<status, stack, instances, table, coroutine, burned>>
    PROVE  /\ StackTyped' /\ TableTyped' /\ UtxosTyped'
           /\ OrderInv' /\ ContextInv' /\ MethodsInv' /\ TokenInv'
  <1>1. UNCHANGED <<status, stack, instances, table, def, at, context, methods, returned, burned>>
    BY DEF coroutine
  <1>2. /\ StackTyped' /\ TableTyped' /\ UtxosTyped'
        /\ \A v : (RunsBody(v)' <=> RunsBody(v)) /\ (Minting(v)' <=> Minting(v))
    BY <1>1 DEF Inv, Typed, StackTyped, Position, Active, TableTyped, UtxosTyped, RunsBody, Minting
  <1>3. OrderInv'
    BY <1>1 DEF Inv, OrderInv, Ordered, StackUpwards, TableUpwards, Position
  <1>4. ContextInv' /\ MethodsInv'
    BY <1>1, <1>2, KeepContext, KeepMethods
  <1>5. TokenInv'
    BY <1>1, <1>2, KeepTokens DEF IsHandle
  <1> QED
    BY <1>2, <1>3, <1>4, <1>5

\* A UTXO that has announced the methods of an ABI exports each of them, or
\* announces it through an ABI without an impl block.
LEMMA AnnouncedAreExported ==
    ASSUME Inv, NEW u \in Utxo \cap instances, NEW a \in Abi, check_implements_abi(u, a),
           NEW m \in Methods[a]
    PROVE  m \in Exported(def[u]) \/ AnnouncedOnly(def[u], m)
  <1>1. m \in Yielded(def[u])
    BY DEF Inv, MethodsInv, check_implements_abi
  <1>2. PICK y \in YieldPoint[def[u]] : \E b \in YieldAbis[y] : m \in Methods[b]
    BY <1>1 DEF Yielded, MethodsIn
  <1>3. PICK b \in YieldAbis[y] : m \in Methods[b]
    BY <1>2
  <1>4. CASE b \in Impl[def[u]]
    BY <1>3, <1>4 DEF Exported, MethodsIn
  <1>5. CASE b \notin Impl[def[u]]
    BY <1>3, <1>5 DEF AnnouncedOnly
  <1> QED
    BY <1>4, <1>5

\* An `is` block narrows a variable to what its UTXO has announced.
LEMMA IsCheckInv ==
    ASSUME Inv, NEW s \in Scope, NEW r \in Rep, NEW a \in Abi, is_check(s, r, a)
    PROVE  Inv'
  <1> DEFINE block == [frame |-> Body(Top), rep |-> r, abi |-> a]
  <1>1. /\ Active /\ table[r] # None /\ table[r].kind = "utxo" /\ table[r].by = Top.inst
        /\ check_implements_abi(table[r].of, a)
        /\ narrowed' = [narrowed EXCEPT ![s] = block]
        /\ UNCHANGED <<status, stack, instances, table, coroutine, burned>>
        /\ UNCHANGED <<table, def>>
    BY DEF is_check, Holds, coroutine
  <1>2. /\ StackTyped' /\ TableTyped' /\ UtxosTyped'
        /\ OrderInv' /\ ContextInv' /\ MethodsInv' /\ TokenInv'
    BY <1>1, BlockFacts
  <1>3. Typed
    BY DEF Inv
  <1>4. block.rep = r /\ block.abi = a /\ block.frame = Body(Top) /\ Body(Top).inst = Top.inst
    BY DEF Body
  <1> HIDE DEF block
  <1>5. narrowed'[s] = block /\ \A z \in Scope : z # s => narrowed'[z] = narrowed[z]
    BY <1>1, <1>3 DEF Typed, ScopesTyped
  <1>6. ScopesTyped'
    BY <1>1, <1>3, <1>4, <1>5 DEF Typed, ScopesTyped
  <1>7. ASSUME Top.inst \in Script PROVE Body(Top) = [inst |-> Top.inst, body |-> "script"]
    <2>1. Top \in FrameRecord /\ ModeFits(Top)
      BY <1>1, <1>3, TopFacts
    <2>2. Top.mode = "script"
      BY <1>7, <2>1, RuntimeAssumption DEF FrameRecord, Modes, ModeFits
    <2> QED
      BY <2>2 DEF Body
  <1>8. table[r].of \in Utxo \cap instances
    BY <1>1, <1>3 DEF Typed, TableTyped, EntryFits, Inv, OrderInv, Ordered, TableUpwards
  <1>9. LookupFailsOnlyUnimplemented'
    <2> SUFFICES ASSUME NEW z \in Scope, narrowed'[z] # None,
                        NEW d, d = def'[table'[narrowed'[z].rep].of],
                        NEW m \in Methods[narrowed'[z].abi]
                 PROVE  m \in Exported(d) \/ AnnouncedOnly(d, m)
      BY DEF LookupFailsOnlyUnimplemented
    <2>1. CASE z = s
      <3>1. d = def[table[r].of] /\ narrowed'[z].abi = a
        BY <1>1, <1>4, <1>5, <2>1
      <3> QED
        BY <1>1, <1>8, <3>1, AnnouncedAreExported
    <2>2. CASE z # s
      BY <1>1, <1>5, <2>2 DEF Inv, NarrowInv, LookupFailsOnlyUnimplemented
    <2> QED
      BY <2>1, <2>2
  <1>10. NarrowInv'
    BY <1>1, <1>4, <1>5, <1>7, <1>9 DEF Inv, NarrowInv
  <1> QED
    BY <1>2, <1>6, <1>10 DEF Inv, Typed

\* Leaving the block widens the variable again.
LEMMA LeaveIsInv ==
    ASSUME Inv, NEW s \in Scope, leave_is(s)
    PROVE  Inv'
  <1>1. /\ narrowed' = [narrowed EXCEPT ![s] = None]
        /\ UNCHANGED <<status, stack, instances, table, coroutine, burned>>
        /\ UNCHANGED <<table, def>>
    BY DEF leave_is, coroutine
  <1>2. /\ StackTyped' /\ TableTyped' /\ UtxosTyped'
        /\ OrderInv' /\ ContextInv' /\ MethodsInv' /\ TokenInv'
    BY <1>1, BlockFacts
  <1>3. DOMAIN narrowed' = Scope /\ \A z \in Scope : narrowed'[z] # None => narrowed'[z] = narrowed[z]
    BY <1>1 DEF Inv, Typed, ScopesTyped
  <1>4. ScopesTyped'
    BY <1>3 DEF Inv, Typed, ScopesTyped
  <1>5. NarrowInv'
    BY <1>1, <1>3, KeepNarrow
  <1> QED
    BY <1>2, <1>4, <1>5 DEF Inv, Typed

-----------------------------------------------------------------------------
(* The invariant                                                           *)

\* A store with the called contract and nothing else is in order.
LEMMA InitInv == Init => Inv
  <1> SUFFICES ASSUME Init PROVE Inv
    OBVIOUS
  <1> DEFINE f == Frame(Root, "script", None)
  <1>1. f \in FrameRecord /\ ModeFits(f) /\ f.inst = Root /\ f.mode = "script"
    BY RuntimeAssumption DEF Frame, FrameRecord, Modes, ModeFits, Instance
  <1>2. stack = <<f>>
    BY DEF Init
  <1> HIDE DEF f
  <1>3. /\ stack \in Seq(FrameRecord) /\ Position = {1} /\ stack[1] = f /\ Len(stack) = 1
        /\ DOMAIN stack = {1}
    BY <1>1, <1>2 DEF Position
  <1>4. StackTyped
    BY <1>1, <1>3 DEF StackTyped
  <1>5. Typed
    BY <1>4, RuntimeAssumption DEF Init, Typed, TableTyped, UtxosTyped, ScopesTyped, Instance
  <1>6. \A u : ~RunsBody(u) /\ ~Minting(u)
    BY <1>1, <1>3 DEF RunsBody, Minting
  <1>7. OrderInv
    <2>1. PICK rank \in [Instance -> Nat] : rank = [i \in Instance |-> 0]
      OBVIOUS
    <2>2. Ordered(rank, 1)
      BY <1>1, <1>3, <2>1, RuntimeAssumption DEF Init, Ordered, StackUpwards, TableUpwards, Instance
    <2> QED
      BY <2>2 DEF OrderInv
  <1>8. Root \notin Utxo /\ Root \notin Token
    BY RuntimeAssumption
  <1>9. ContextInv /\ MethodsInv
    BY <1>6, <1>8 DEF Init, ContextInv, MethodsInv, HasMethodIsCurrent
  <1>10. NarrowInv /\ TokenInv
    BY <1>6, <1>8 DEF Init, NarrowInv, LookupFailsOnlyUnimplemented, TokenInv, IsHandle
  <1> QED
    BY <1>5, <1>7, <1>9, <1>10 DEF Inv

\* Every action keeps the invariant.
LEMMA NextInv ==
    ASSUME Inv, [Next]_vars
    PROVE  Inv'
  <1>1. ASSUME NEW u \in Utxo, NEW d \in Def, call_utxo_main(u, d) PROVE Inv'
    BY <1>1, MainInv
  <1>2. ASSUME NEW y \in AllYieldPoints, yield(y) PROVE Inv'
    BY <1>2, YieldInv
  <1>3. CASE visit_return
    BY <1>3, VisitReturnInv
  <1>4. CASE resume
    BY <1>4, ResumeInv
  <1>5. ASSUME NEW r \in Rep, NEW m \in Method, call_typed_method(r, m) PROVE Inv'
    BY <1>5, EnterMethodInv DEF call_typed_method, Holds
  <1>6. ASSUME NEW s \in Scope, NEW r \in Rep, NEW a \in Abi, is_check(s, r, a) PROVE Inv'
    BY <1>6, IsCheckInv
  <1>7. ASSUME NEW s \in Scope, leave_is(s) PROVE Inv'
    BY <1>7, LeaveIsInv
  <1>8. ASSUME NEW s \in Scope, NEW m \in Method, call_dynamic_method(s, m) PROVE Inv'
    BY <1>8, DynamicInv
  <1>9. ASSUME NEW r \in Rep, upcast(r) PROVE Inv'
    BY <1>9, CastInv DEF upcast
  <1>10. ASSUME NEW r \in Rep, NEW d \in Def, downcast(r, d) PROVE Inv'
    BY <1>10, CastInv DEF downcast
  <1>11. ASSUME NEW r \in Rep, drop_utxo(r) PROVE Inv'
    BY <1>11, DropInv
  <1>12. ASSUME NEW t \in Token, call_token_mint(t) PROVE Inv'
    BY <1>12, MintInv
  <1>13. CASE mint_return
    BY <1>13, MintReturnInv
  <1>14. ASSUME NEW r \in Rep, call_token_burn(r) PROVE Inv'
    BY <1>14, BurnInv
  <1>15. ASSUME NEW i \in Script, call_coordination_script(i) PROVE Inv'
    BY <1>15, ScriptInv
  <1>16. CASE function_return
    BY <1>16, FunctionReturnInv
  <1>17. ASSUME NEW r \in Rep, return_handle(r) PROVE Inv'
    BY <1>17, ReturnHandleInv
  <1>18. CASE finish \/ guest_trap
    BY <1>18, DroppedInv DEF finish, guest_trap, Trap
  <1>19. CASE UNCHANGED vars
    <2>1. UNCHANGED <<status, stack, instances, table, coroutine, burned>> /\ narrowed' = narrowed
          /\ UNCHANGED <<table, def>>
      BY <1>19 DEF vars, coroutine
    <2>2. /\ StackTyped' /\ TableTyped' /\ UtxosTyped'
          /\ OrderInv' /\ ContextInv' /\ MethodsInv' /\ TokenInv'
      BY <2>1, BlockFacts
    <2>3. ScopesTyped' /\ NarrowInv'
      BY <2>1, KeepNarrow DEF Inv, Typed, ScopesTyped
    <2> QED
      BY <2>2, <2>3 DEF Inv, Typed
  <1> QED
    BY <1>1, <1>2, <1>3, <1>4, <1>5, <1>6, <1>7, <1>8, <1>9, <1>10, <1>11, <1>12, <1>13,
       <1>14, <1>15, <1>16, <1>17, <1>18, <1>19 DEF Next

\* The invariant holds in every reachable state.
LEMMA Invariance == Spec => []Inv
  <1>1. Inv /\ [Next]_vars => Inv'
    BY NextInv
  <1> QED
    BY InitInv, <1>1, PTL DEF Spec

-----------------------------------------------------------------------------
(* The theorems                                                            *)

\* has_method tells the truth about every UTXO at rest, after any sequence of
\* calls, yields and resumes: UtxoCtx::methods is the method list of the yield
\* point the UTXO is at, and empty once its main fn has returned.
THEOREM HasMethodCorrect == Spec => []HasMethodIsCurrent
  <1>1. Inv => HasMethodIsCurrent
    BY DEF Inv, MethodsInv
  <1> QED
    BY Invariance, <1>1, PTL

\* A body that has returned never runs again: visit_return drops the context that
\* resume needs, and no other call has given it one.
THEOREM ReturnedCorrect == Spec => []ReturnedNeverRuns
  <1>1. Inv => ReturnedNeverRuns
    BY DEF Inv, Typed, UtxosTyped, ContextInv, ReturnedNeverRuns
  <1> QED
    BY Invariance, <1>1, PTL

\* While an `is` block is open, the lookup of a narrowed call fails only for a
\* method that a yield point of the UTXO announces through an ABI without an impl
\* block, whichever resumes came between the check of the block and the call.
THEOREM NarrowedLookupCorrect == Spec => []LookupFailsOnlyUnimplemented
  <1>1. Inv => LookupFailsOnlyUnimplemented
    BY DEF Inv, NarrowInv
  <1> QED
    BY Invariance, <1>1, PTL

\* A set all of whose elements are equal has as many as it has members: none or one.
LEMMA AtMostOne ==
    ASSUME NEW S, \A x, y \in S : x = y
    PROVE  /\ S = {} => Cardinality(S) = 0
           /\ S # {} => Cardinality(S) = 1
  <1>1. ASSUME S # {} PROVE Cardinality(S) = 1
    <2>1. PICK x : S = {x}
      BY <1>1
    <2> QED
      BY <2>1, FS_Singleton
  <1> QED
    BY <1>1, FS_EmptySet

\* A token that has been minted is in exactly one place: with the mint fn that
\* makes it, under one handle of the ResourceTable, or burned.
THEOREM TokensCorrect == Spec => []TokensAreLinear
  <1>1. ASSUME Inv PROVE TokensAreLinear
    <2> SUFFICES ASSUME NEW t \in Token \cap instances,
                        NEW held, held = {r \in Rep : table[r] # None /\ table[r].kind = "token"
                                                       /\ table[r].of = t},
                        NEW minting, minting = \E k \in DOMAIN stack : stack[k] = Frame(t, "mint", None)
                 PROVE  Cardinality(held) + (IF minting THEN 1 ELSE 0)
                            + (IF t \in burned THEN 1 ELSE 0) = 1
      BY DEF TokensAreLinear
    <2>1. held = {r \in Rep : IsHandle(r, t)}
      BY DEF IsHandle
    <2>2. minting = Minting(t)
      <3>1. DOMAIN stack = Position /\ \A k \in Position : stack[k] \in FrameRecord /\ ModeFits(stack[k])
        BY <1>1 DEF Inv, Typed, StackTyped, Position
      <3>2. \A k \in Position :
                stack[k] = Frame(t, "mint", None) <=> stack[k].inst = t /\ stack[k].mode = "mint"
        BY <3>1 DEF Frame, FrameRecord, ModeFits
      <3> QED
        BY <3>1, <3>2 DEF Minting
    <2>3. /\ held = {} => Cardinality(held) = 0
          /\ held # {} => Cardinality(held) = 1
      <3>1. \A x, y \in held : x = y
        BY <1>1, <2>1 DEF Inv, TokenInv
      <3> QED
        BY <3>1, AtMostOne
    <2>4. /\ held # {} => ~Minting(t) /\ t \notin burned
          /\ t \in burned => ~Minting(t)
          /\ held # {} \/ Minting(t) \/ t \in burned
      BY <1>1, <2>1 DEF Inv, TokenInv
    <2>5. /\ minting => (IF minting THEN 1 ELSE 0) = 1
          /\ ~minting => (IF minting THEN 1 ELSE 0) = 0
          /\ t \in burned => (IF t \in burned THEN 1 ELSE 0) = 1
          /\ t \notin burned => (IF t \in burned THEN 1 ELSE 0) = 0
      OBVIOUS
    <2>6. PICK a, b, c : /\ a = Cardinality(held)
                         /\ b = (IF minting THEN 1 ELSE 0) /\ c = (IF t \in burned THEN 1 ELSE 0)
      OBVIOUS
    <2>7. \/ a = 1 /\ b = 0 /\ c = 0
          \/ a = 0 /\ b = 1 /\ c = 0
          \/ a = 0 /\ b = 0 /\ c = 1
      BY <2>2, <2>3, <2>4, <2>5, <2>6
    <2>8. a + b + c = 1
      BY <2>7
    <2> QED
      BY <2>6, <2>8
  <1>2. Inv => TokensAreLinear
    BY <1>1
  <1> QED
    BY Invariance, <1>2, PTL
=============================================================================
