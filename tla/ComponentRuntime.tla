-------------------------- MODULE ComponentRuntime --------------------------
(***************************************************************************)
(* One call of a coordination script on the wasmtime runtime of            *)
(* starstream-runtime-next, with the host functions of the ledger server   *)
(* and the coroutines starstream-to-wasm compiles a utxo to.               *)
(*                                                                         *)
(* Everything runs in one store on one thread: the stack holds the         *)
(* component instances that are being called, the topmost one runs.  The   *)
(* host keeps UTXOs, their contexts and tokens in one ResourceTable and    *)
(* gives instances own handles to its entries; a host function is one      *)
(* action.  Which calls a body makes, in which order, is up to the         *)
(* contract.  Handles come from main and mint fns, casts and the results   *)
(* of scripts; arguments and storage are left out.                         *)
(***************************************************************************)
EXTENDS Integers, Sequences, FiniteSets, SequencesExt, FiniteSetsExt

CONSTANTS
    Script,         \* instances of contracts that run a coordination script
    Root,           \* the one the ledger calls
    Utxo,           \* instances of contracts that run a UTXO, one each
    Token,          \* instances of contracts that mint a token, one each
    Def,            \* utxo definitions: an exported interface of a component
    Component,      \* utxo definition -> the component that exports it
    Abi,
    Methods,        \* ABI -> its methods, which are told apart by name
    Impl,           \* utxo definition -> the ABIs it has an impl block for
    YieldPoint,     \* utxo definition -> its yield points
    YieldAbis,      \* yield point -> the ABIs its yield(...) names
    Resuming,       \* utxo definition -> its methods with a `resume` statement
    MaxRep,         \* bound: entries of the resource table
    MaxDepth,       \* bound: calls within calls
    Scope,          \* bound: `if x is Abi` blocks that are open at a time
    None

Instance == Script \cup Utxo \cup Token
Rep == 1..MaxRep
AllYieldPoints == UNION {YieldPoint[d] : d \in Def}
MethodsIn(abis) == UNION {Methods[a] : a \in abis}
Method == MethodsIn(Abi)

\* Entries of the ResourceTable.
TableEntry == [kind : {"utxo", "token", "context"}, of : Instance, by : Instance,
               type : Def \cup {"utxo", "token", "context"}]

ASSUME RuntimeAssumption ==
    /\ Root \in Script
    /\ Script \cap Utxo = {} /\ Script \cap Token = {} /\ Utxo \cap Token = {}
    /\ MaxRep \in Nat /\ MaxDepth \in Nat
    /\ DOMAIN Methods = Abi /\ DOMAIN YieldPoint = Def /\ DOMAIN Component = Def
    /\ Impl \in [Def -> SUBSET Abi]
    /\ YieldAbis \in [AllYieldPoints -> SUBSET Abi]
    /\ Resuming \in [Def -> SUBSET Method]
    /\ \A d, e \in Def : d # e => YieldPoint[d] \cap YieldPoint[e] = {}
    /\ None \notin AllYieldPoints \cup Instance \cup Rep \cup Def \cup Abi \cup Method
    /\ None \notin TableEntry

VARIABLES
    status,         \* "Running", "Done" or "Trapped"
    stack,          \* frames of the instances being called
    instances,      \* instances made so far
    table,          \* ResourceTable: index -> entry and the instance with its handle
    narrowed,       \* scope -> the handle and ABI it narrows a variable to
    def,            \* UTXO -> its definition, once instantiated
    at,             \* UTXO -> the yield point in its `yield` global
    context,        \* UTXO -> the handle in its `context` global, until dropped
    methods,        \* UTXO -> UtxoCtx::methods
    outputs,        \* Ctx::outputs
    returned,       \* history: UTXOs whose main fn has returned
    burned          \* history: tokens given to their burn fn

coroutine == <<def, at, context, methods, returned>>
vars == <<status, stack, instances, table, narrowed, def, at, context, methods, outputs,
          returned, burned>>

Frame(inst, mode, method) == [inst |-> inst, mode |-> mode, method |-> method]
Top == Last(stack)
Caller == stack[Len(stack) - 1].inst

\* A store with the instance of the called contract and nothing else.
Init ==
    /\ status = "Running"
    /\ stack = <<Frame(Root, "script", None)>>
    /\ instances = {Root}
    /\ table = [r \in Rep |-> None]
    /\ narrowed = [s \in Scope |-> None]
    /\ def = [u \in Utxo |-> None]
    /\ at = [u \in Utxo |-> None]
    /\ context = [u \in Utxo |-> None]
    /\ methods = [u \in Utxo |-> {}]
    /\ outputs = <<>>
    /\ returned = {}
    /\ burned = {}

-----------------------------------------------------------------------------
(* What the compiler fixes for a utxo definition                           *)

\* The ABIs that every yield point of the definition names.
always_abis(d) ==
    IF YieldPoint[d] = {} THEN {}
    ELSE {a \in Abi : \A y \in YieldPoint[d] : a \in YieldAbis[y]}

\* The methods a component exports for the resource of the definition, and
\* those that others import with its type.
Exported(d) == MethodsIn(Impl[d])
Imported(d) == MethodsIn(always_abis(d) \cap Impl[d])

-----------------------------------------------------------------------------
(* The resource table and the stack                                        *)

Entry(kind, of, by, type) == [kind |-> kind, of |-> of, by |-> by, type |-> type]
Free(t) == {r \in Rep : t[r] = None}

\* ResourceTable::push and delete.
Push(t, entry) == [t EXCEPT ![Min(Free(t))] = entry]
Delete(t, r) == [t EXCEPT ![r] = None]

Holds(r, kind) == table[r] # None /\ table[r].by = Top.inst /\ table[r].kind = kind

\* The call is over and its store goes away.
StoreDropped(result) ==
    /\ status' = result
    /\ stack' = <<>>
    /\ instances' = {}
    /\ table' = [r \in Rep |-> None]
    /\ narrowed' = [s \in Scope |-> None]
    /\ def' = [u \in Utxo |-> None]
    /\ at' = [u \in Utxo |-> None]
    /\ context' = [u \in Utxo |-> None]
    /\ methods' = [u \in Utxo |-> {}]
    /\ outputs' = <<>>
    /\ returned' = {}
    /\ burned' = {}

\* A trap or the error of a host function ends the whole call.
Trap == StoreDropped("Trapped")

Enter(i, mode, method) ==
    /\ Len(stack) < MaxDepth
    /\ stack' = Append(stack, Frame(i, mode, method))

\* Enter the instance of a UTXO through the export of a method.
EnterMethod(u, m) ==
    /\ Enter(u, "method", m)
    /\ UNCHANGED <<status, instances, table, narrowed, coroutine, outputs, burned>>

\* `is` blocks end with the function they are in.
ScopesLeft(frame) ==
    [s \in Scope |->
        IF narrowed[s] # None /\ narrowed[s].frame = frame THEN None ELSE narrowed[s]]

\* The body of a utxo outlives its yields; a method call does not.
Body(frame) == [inst |-> frame.inst,
                body |-> IF frame.mode = "coroutine" THEN "main" ELSE frame.mode]

Active == status = "Running"
-----------------------------------------------------------------------------
(* The life of a UTXO                                                      *)

\* Call a `main fn`: a fresh instance, an empty context and its handle, which
\* the compiled code keeps in its `context` global.
call_utxo_main(u, d) ==
    /\ Active
    /\ u \notin instances
    /\ Free(table) # {}
    /\ table' = Push(table, Entry("context", u, u, "context"))
    /\ context' = [context EXCEPT ![u] = Min(Free(table))]
    /\ def' = [def EXCEPT ![u] = d]
    /\ instances' = instances \cup {u}
    /\ Enter(u, "main", None)
    /\ UNCHANGED <<status, narrowed, at, methods, returned, outputs, burned>>

\* The function that runs the coroutine ends.  If it is the main fn, its caller
\* gets a typed handle and the ledger an output; a method just returns.
Suspended(t) ==
    /\ stack' = Front(stack)
    /\ \/ /\ Top.mode = "main"
          /\ Free(t) # {}
          /\ outputs' = Append(outputs, Top.inst)
          /\ table' = Push(t, Entry("utxo", Top.inst, Caller, def[Top.inst]))
       \/ /\ Top.mode = "coroutine"
          /\ table' = t
          /\ UNCHANGED outputs

\* `yield(...)`: store the yield point and announce the methods of its ABIs.
yield(y) ==
    LET u == Top.inst IN
    /\ Active
    /\ Top.mode \in {"main", "coroutine"}
    /\ y \in YieldPoint[def[u]]
    /\ at' = [at EXCEPT ![u] = y]
    /\ methods' = [methods EXCEPT ![u] = @ \cup MethodsIn(YieldAbis[y])]
    /\ Suspended(table)
    /\ UNCHANGED <<status, instances, narrowed, def, context, returned, burned>>

\* Mutant: the context is not dropped.
visit_return_KeepsContext ==
    /\ Active
    /\ Top.mode \in {"main", "coroutine"}
    /\ Suspended(table)
    /\ returned' = returned \cup {Top.inst}
    /\ narrowed' = ScopesLeft(Body(Top))
    /\ UNCHANGED <<status, instances, def, at, context, methods, burned>>

\* The body ends: it drops its context; the `yield` global keeps its value.
visit_return ==
    LET u == Top.inst IN
    /\ Active
    /\ Top.mode \in {"main", "coroutine"}
    /\ Suspended(Delete(table, context[u]))
    /\ context' = [context EXCEPT ![u] = None]
    /\ returned' = returned \cup {u}
    /\ narrowed' = ScopesLeft(Body(Top))
    /\ UNCHANGED <<status, instances, def, at, methods, burned>>

\* Mutant: the methods of the previous yield point stay.
methods_clear_Nothing(u) == methods

\* utxo-context.resume.
methods_clear(u) == [methods EXCEPT ![u] = {}]

\* `resume` in a method: tell the host, and continue the body after the yield
\* point in place of the method.  A dropped context traps.
resume ==
    LET u == Top.inst IN
    /\ Active
    /\ Top.mode = "method"
    /\ Top.method \in Resuming[def[u]]
    /\ \/ /\ context[u] = None \/ at[u] = None
          /\ Trap
       \/ /\ context[u] # None /\ at[u] # None
          /\ methods' = methods_clear(u)
          /\ stack' = Append(Front(stack), Frame(u, "coroutine", None))
          /\ narrowed' = ScopesLeft(Body(Top))
          /\ UNCHANGED <<status, instances, table, def, at, context, outputs, returned, burned>>

-----------------------------------------------------------------------------
(* Handles to UTXOs                                                        *)

\* A method of the imported type of the handle; the host does not look at
\* the methods the UTXO has announced.
call_typed_method(r, m) ==
    /\ Active
    /\ Holds(r, "utxo")
    /\ table[r].type \in Def
    /\ m \in Imported(table[r].type)
    /\ EnterMethod(table[r].of, m)

\* Mutant: one method of the ABI is enough.
check_implements_abi_Some(u, a) == methods[u] \cap Methods[a] # {}

\* has_method for every method of the ABI.
check_implements_abi(u, a) == Methods[a] \subseteq methods[u]

\* `if x is Abi` succeeds; x has the ABI's type in the block.
is_check(s, r, a) ==
    /\ Active
    /\ Holds(r, "utxo") /\ table[r].type = "utxo"
    /\ narrowed[s] = None
    /\ check_implements_abi(table[r].of, a)
    /\ narrowed' = [narrowed EXCEPT ![s] = [frame |-> Body(Top), rep |-> r, abi |-> a]]
    /\ UNCHANGED <<status, stack, instances, table, coroutine, outputs, burned>>

leave_is(s) ==
    /\ Active
    /\ narrowed[s] # None /\ narrowed[s].frame = Body(Top)
    /\ narrowed' = [narrowed EXCEPT ![s] = None]
    /\ UNCHANGED <<status, stack, instances, table, coroutine, outputs, burned>>

\* A method of a narrowed variable, looked up by name among the exports of the
\* UTXO.  The block may hold a loop, so the call may be made again.
call_dynamic_method(s, m) ==
    /\ Active
    /\ narrowed[s] # None /\ narrowed[s].frame = Body(Top)
    /\ m \in Methods[narrowed[s].abi]
    /\ LET u == table[narrowed[s].rep].of IN
       \/ m \in Exported(def[u]) /\ EnterMethod(u, m)
       \/ m \notin Exported(def[u]) /\ Trap

\* An untyped handle to the same UTXO, as an entry of its own.
upcast(r) ==
    /\ Active
    /\ Holds(r, "utxo") /\ table[r].type \in Def
    /\ Free(table) # {}
    /\ table' = Push(table, Entry("utxo", table[r].of, Top.inst, "utxo"))
    /\ UNCHANGED <<status, stack, instances, narrowed, coroutine, outputs, burned>>

same_instance(u, d) == Component[def[u]] = Component[d] /\ def[u] = d

\* A typed handle, if the UTXO is of that component and that export.
downcast(r, d) ==
    /\ Active
    /\ Holds(r, "utxo") /\ table[r].type = "utxo"
    /\ same_instance(table[r].of, d)
    /\ Free(table) # {}
    /\ table' = Push(table, Entry("utxo", table[r].of, Top.inst, d))
    /\ UNCHANGED <<status, stack, instances, narrowed, coroutine, outputs, burned>>

\* Only the entry goes: the UTXO stays an output.
drop_utxo(r) ==
    /\ Active
    /\ Holds(r, "utxo")
    /\ \A s \in Scope : narrowed[s] # None => narrowed[s].rep # r
    /\ table' = Delete(table, r)
    /\ UNCHANGED <<status, stack, instances, narrowed, coroutine, outputs, burned>>

-----------------------------------------------------------------------------
(* Tokens and scripts                                                      *)

call_token_mint(t) ==
    /\ Active
    /\ t \notin instances
    /\ instances' = instances \cup {t}
    /\ Enter(t, "mint", None)
    /\ UNCHANGED <<status, table, narrowed, coroutine, outputs, burned>>

mint_return ==
    /\ Active
    /\ Top.mode = "mint"
    /\ Free(table) # {}
    /\ table' = Push(table, Entry("token", Top.inst, Caller, "token"))
    /\ stack' = Front(stack)
    /\ narrowed' = ScopesLeft(Body(Top))
    /\ UNCHANGED <<status, instances, coroutine, outputs, burned>>

\* Mutant: burning reads the entry and leaves it.
burn_entry_Kept(r) == table

\* ResourceTable::delete of the handle that a burn fn takes.
burn_entry(r) == Delete(table, r)

call_token_burn(r) ==
    /\ Active
    /\ Holds(r, "token")
    /\ table' = burn_entry(r)
    /\ burned' = burned \cup {table[r].of}
    /\ Enter(table[r].of, "burn", None)
    /\ UNCHANGED <<status, instances, narrowed, coroutine, outputs>>

\* A script of another contract, in an instance of its own.
call_coordination_script(i) ==
    /\ Active
    /\ i \in Script \ instances
    /\ instances' = instances \cup {i}
    /\ Enter(i, "script", None)
    /\ UNCHANGED <<status, table, narrowed, coroutine, outputs, burned>>

\* A script, a method or a burn fn returns; what it still owns stays.
function_return ==
    /\ Active
    /\ Top.mode \in {"script", "method", "burn"}
    /\ Len(stack) > 1
    /\ stack' = Front(stack)
    /\ narrowed' = ScopesLeft(Body(Top))
    /\ UNCHANGED <<status, instances, table, coroutine, outputs, burned>>

\* A script returns one of its handles to its caller.
return_handle(r) ==
    /\ Active
    /\ Top.mode = "script"
    /\ Len(stack) > 1
    /\ table[r] # None /\ table[r].by = Top.inst
    /\ table' = [table EXCEPT ![r].by = Caller]
    /\ stack' = Front(stack)
    /\ narrowed' = ScopesLeft(Body(Top))
    /\ UNCHANGED <<status, instances, coroutine, outputs, burned>>

\* The called script returns; the ledger drops the outputs, and the store.
finish ==
    /\ Active
    /\ Len(stack) = 1
    /\ StoreDropped("Done")

\* `unreachable`, or a host function the ledger has no answer for: dropping a
\* token, emitting an event, the block height and the slot.
guest_trap == Active /\ Trap

Next ==
    \/ \E u \in Utxo, d \in Def : call_utxo_main(u, d)
    \/ \E y \in AllYieldPoints : yield(y)
    \/ visit_return
    \/ resume
    \/ \E r \in Rep, m \in Method : call_typed_method(r, m)
    \/ \E s \in Scope, r \in Rep, a \in Abi : is_check(s, r, a)
    \/ \E s \in Scope : leave_is(s)
    \/ \E s \in Scope, m \in Method : call_dynamic_method(s, m)
    \/ \E r \in Rep : upcast(r)
    \/ \E r \in Rep, d \in Def : downcast(r, d)
    \/ \E r \in Rep : drop_utxo(r)
    \/ \E t \in Token : call_token_mint(t)
    \/ mint_return
    \/ \E r \in Rep : call_token_burn(r)
    \/ \E i \in Script : call_coordination_script(i)
    \/ function_return
    \/ \E r \in Rep : return_handle(r)
    \/ finish
    \/ guest_trap

Spec == Init /\ [][Next]_vars

-----------------------------------------------------------------------------
(* Properties                                                              *)

RunsBody(u) ==
    \E k \in DOMAIN stack : stack[k].inst = u /\ stack[k].mode \in {"main", "coroutine"}

\* has_method tells the truth about a UTXO at rest, however often it was resumed:
\* the list UtxoCtx::methods holds the methods of the yield point it is at, and
\* nothing once its main fn has returned.
HasMethodIsCurrent ==
    \A u \in Utxo \cap instances : ~RunsBody(u) =>
        methods[u] = IF u \in returned THEN {} ELSE MethodsIn(YieldAbis[at[u]])

\* A yield point of the definition announces the method through an ABI that the
\* definition has no impl block for, which the compiler does not check.
AnnouncedOnly(d, m) ==
    \E y \in YieldPoint[d] : \E a \in YieldAbis[y] \ Impl[d] : m \in Methods[a]

\* The check of link_dynamic_utxo_function and the lookup of a narrowed call may
\* be any number of resumes apart, and the lookup finds an export by its name
\* alone.  For as long as the `is` block is open it fails (a trap) only for a
\* method that the UTXO announces and the component never exports.
LookupFailsOnlyUnimplemented ==
    \A s \in Scope : narrowed[s] # None =>
        LET d == def[table[narrowed[s].rep].of] IN
        \A m \in Methods[narrowed[s].abi] : m \in Exported(d) \/ AnnouncedOnly(d, m)

\* A token is in one place from its mint fn on: with the instance minting it,
\* under one handle, or burned (link_typed_token_mint, link_typed_token_burn).
TokensAreLinear ==
    \A t \in Token \cap instances :
        LET held == {r \in Rep : table[r] # None /\ table[r].kind = "token" /\ table[r].of = t}
            minting == \E k \in DOMAIN stack : stack[k] = Frame(t, "mint", None)
        IN  Cardinality(held) + (IF minting THEN 1 ELSE 0) + (IF t \in burned THEN 1 ELSE 0) = 1

\* Once its main fn has returned, the body of a UTXO never runs again, although
\* typed methods still reach it and its `yield` global still names a continuation:
\* resume fails on the dropped context.
ReturnedNeverRuns == \A u \in returned : ~RunsBody(u)
=============================================================================
