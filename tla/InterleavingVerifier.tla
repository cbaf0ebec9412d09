------------------------ MODULE InterleavingVerifier ------------------------
(***************************************************************************)
(* The interleaving machine of the legacy specification crate              *)
(* (starstream-interleaving-spec-legacy): verify_interleaving_semantics    *)
(* replays the host calls that the processes of one transaction recorded   *)
(* and accepts or rejects the transaction.                                 *)
(*                                                                         *)
(* The trace of a process is whatever host calls it makes, so a step       *)
(* chooses the next host call of the running process.  Each action below   *)
(* is one accepted arm of state_transition; Reject stands for every early  *)
(* return of an error and Accept for the end of the running process's      *)
(* trace with all final conditions met.  id_prev, which only appears in    *)
(* error messages, is left out.                                            *)
(***************************************************************************)
EXTENDS Integers, Sequences, FiniteSets, SequencesExt

CONSTANTS
    Transactions,   \* the instances that may be verified
    Functions,      \* function ids
    Words,          \* contents of one word of a ref; only equality matters
    ZeroWord,
    MaxRefs,        \* bound on the refs of a transaction
    MaxHandlers,    \* bound on the handlers installed for one interface
    None

VARIABLE tx     \* the instance that is verified

Inputs == tx.inputs             \* UTXOs consumed by the transaction
NewOutputs == tx.new_outputs    \* UTXOs it creates
CoordScripts == tx.scripts      \* its coordination scripts
Tokens == tx.tokens             \* the UTXOs that are tokens
MustBurn == tx.must_burn        \* inputs without a continuation
OwnershipIn == tx.ownership_in  \* UTXO -> its owner when the transaction starts
Entrypoint == tx.entrypoint     \* the first coordination script
Interfaces == tx.interfaces     \* the effect interfaces of its host calls
MaxWords == tx.max_words        \* bound on the words of a ref

Utxos == Inputs \cup NewOutputs
Procs == Utxos \cup CoordScripts
is_utxo(p) == p \in Utxos
is_token(p) == p \in Tokens
Refs == 0 .. (MaxRefs - 1)
Option(S) == S \cup {None}

\* What check_shape asks of an instance, and that ids of different kinds differ.
WellShaped(t) ==
    LET utxos == t.inputs \cup t.new_outputs IN
    /\ t.inputs \cap t.new_outputs = {} /\ utxos \cap t.scripts = {}
    /\ t.tokens \subseteq utxos
    /\ t.must_burn \subseteq t.inputs
    /\ t.ownership_in \in [utxos -> Option(utxos)]
    /\ \A p \in utxos : t.ownership_in[p] # None => {p, t.ownership_in[p]} \subseteq t.inputs
    /\ t.entrypoint \in t.scripts
    /\ t.max_words \in Nat
    /\ None \notin utxos \cup t.scripts

ASSUME InstanceAssumption ==
    /\ \A t \in Transactions : WellShaped(t)
    /\ ZeroWord \in Words
    /\ MaxRefs \in Nat /\ MaxHandlers \in Nat
    /\ None \notin Functions \cup Refs
    /\ None \notin [ref : Refs, offset : Nat]

VARIABLES
    verdict,            \* "Running", "Ok" or "Err"
    id_curr,            \* the running process
    expected_input,     \* the ref a process expects to be resumed with
    expected_resumer,   \* the process it expects to be resumed by
    on_yield,           \* whether it is suspended (or was never resumed)
    yield_to,           \* the script a yield goes back to
    activation,         \* argument and caller of the resume that is running
    init,               \* argument and creator of a process, until it is read
    ref_store,          \* contents of the refs; ref r is entry r + 1
    ref_building,       \* the ref a process is filling
    initialized,
    finalized,
    did_burn,
    must_enter,         \* the function a resumed process has to enter first
    must_exit,          \* whether it is inside that function
    ownership,          \* token -> owner
    handler_stack       \* interface -> installed handlers

claims == <<expected_input, expected_resumer>>
frames == <<activation, must_enter, must_exit>>
suspension == <<on_yield, yield_to, finalized>>
creation == <<init, initialized>>
refs == <<ref_store, ref_building>>
assets == <<did_burn, ownership>>
vars == <<verdict, id_curr, claims, frames, suspension, creation, refs, assets,
          handler_stack, tx>>

Init ==
    /\ tx \in Transactions
    /\ verdict = "Running"
    /\ id_curr = Entrypoint
    /\ expected_input = [p \in Procs |-> None]
    /\ expected_resumer = [p \in Procs |-> None]
    /\ on_yield = [p \in Procs |-> TRUE]
    /\ yield_to = [p \in Procs |-> None]
    /\ activation = [p \in Procs |-> None]
    /\ init = [p \in Procs |-> None]
    /\ ref_store = <<>>
    /\ ref_building = [p \in Procs |-> None]
    /\ initialized = [p \in Procs |-> p \in Inputs \cup {Entrypoint}]
    /\ finalized = [p \in Procs |-> FALSE]
    /\ did_burn = [p \in Procs |-> FALSE]
    /\ must_enter = [p \in Procs |-> None]
    /\ must_exit = [p \in Procs |-> FALSE]
    /\ ownership = OwnershipIn
    /\ handler_stack = [i \in Interfaces |-> <<>>]

-----------------------------------------------------------------------------
(* Passing control                                                         *)

\* Mutant: a process may do something else before it enters its function.
HostCall_EnterLater == verdict = "Running" /\ ref_building[id_curr] = None

\* A process that fills a ref may only push to it, and one that was resumed
\* may only enter its function.
HostCall ==
    /\ verdict = "Running"
    /\ ref_building[id_curr] = None
    /\ must_enter[id_curr] = None

Known(r) == r < Len(ref_store)
ref_content(r) == ref_store[r + 1]

\* Mutant: nobody checks who takes over.
ResumerMatches_Unchecked(target) == target \in Procs

ResumerMatches(target) == expected_resumer[target] \in {None, id_curr}

InputMatches(target, val) == expected_input[target] \in {None, val}

MayTransfer(target, val) ==
    /\ activation[target] = None
    /\ InputMatches(target, val)
    /\ ResumerMatches(target)

\* The part that Resume and CallEffectHandler share: the claims of the target
\* are consumed, those of the caller recorded, and the target has to enter f.
\* The caller's entries are written after the target's.
Transfer(target, f, val, ret, resumer) ==
    /\ activation' = [activation EXCEPT ![id_curr] = None, ![target] = <<val, id_curr>>]
    /\ expected_input' = [expected_input EXCEPT ![target] = None, ![id_curr] = ret]
    /\ expected_resumer' = [expected_resumer EXCEPT ![target] = None, ![id_curr] = resumer]
    /\ must_exit' = [must_exit EXCEPT ![id_curr] = FALSE]
    /\ must_enter' = [must_enter EXCEPT ![target] = f]
    /\ finalized' = [finalized EXCEPT ![target] = FALSE]
    /\ id_curr' = target

\* A script that resumes a suspended process becomes its parent.
Adopt(target) ==
    IF on_yield[target] /\ ~is_utxo(id_curr)
    THEN /\ yield_to' = [yield_to EXCEPT ![target] = id_curr]
         /\ on_yield' = [on_yield EXCEPT ![target] = FALSE]
    ELSE UNCHANGED <<yield_to, on_yield>>

MayResume(target, val) ==
    /\ HostCall
    /\ target # id_curr
    /\ ~(is_utxo(id_curr) /\ is_utxo(target))
    /\ initialized[target]
    /\ MayTransfer(target, val)

Resume(target, f, val, ret, caller) ==
    /\ MayResume(target, val)
    /\ Transfer(target, f, val, ret, caller)
    /\ Adopt(target)
    /\ UNCHANGED <<verdict, creation, refs, assets, handler_stack, tx>>

\* Neither the target's initialization nor a call of itself is checked.
MayCallHandler(interface, val) ==
    /\ HostCall
    /\ handler_stack[interface] # <<>>
    /\ MayTransfer(Last(handler_stack[interface]), val)

CallEffectHandler(interface, f, val, ret) ==
    /\ MayCallHandler(interface, val)
    /\ LET target == Last(handler_stack[interface])
       IN  Transfer(target, f, val, ret, target)
    /\ UNCHANGED <<verdict, on_yield, yield_to, creation, refs, assets, handler_stack,
                   tx>>

MayYield(val) ==
    LET parent == yield_to[id_curr] IN
    /\ HostCall
    /\ is_utxo(id_curr)
    /\ parent # None
    /\ Known(val)
    /\ ResumerMatches(parent)
    /\ expected_input[parent] # None =>
        /\ Known(expected_input[parent])
        /\ ref_content(expected_input[parent]) = ref_content(val)

\* The claims of the parent are checked and kept.
Yield(val) ==
    /\ MayYield(val)
    /\ finalized' = [finalized EXCEPT ![id_curr] = TRUE]
    /\ on_yield' = [on_yield EXCEPT ![id_curr] = TRUE]
    /\ activation' = [activation EXCEPT ![id_curr] = None]
    /\ must_exit' = [must_exit EXCEPT ![id_curr] = FALSE]
    /\ id_curr' = yield_to[id_curr]
    /\ UNCHANGED <<verdict, claims, yield_to, must_enter, creation, refs, assets,
                   handler_stack, tx>>

\* The entrypoint has nobody to go back to unless it was resumed.
ReturnTo(p) == IF yield_to[p] = None THEN p ELSE yield_to[p]

MayReturn ==
    /\ HostCall
    /\ ~is_utxo(id_curr)
    /\ yield_to[id_curr] # None \/ id_curr = Entrypoint

Return ==
    /\ MayReturn
    /\ finalized' = [finalized EXCEPT ![id_curr] = TRUE]
    /\ activation' = [activation EXCEPT ![id_curr] = None]
    /\ must_exit' = [must_exit EXCEPT ![id_curr] = FALSE]
    /\ id_curr' = ReturnTo(id_curr)
    /\ UNCHANGED <<verdict, claims, on_yield, yield_to, must_enter, creation, refs, assets,
                   handler_stack, tx>>

MayEnter(f) ==
    /\ verdict = "Running"
    /\ ref_building[id_curr] = None
    /\ must_enter[id_curr] = f
    /\ ~must_exit[id_curr]

Enter(f) ==
    /\ MayEnter(f)
    /\ must_enter' = [must_enter EXCEPT ![id_curr] = None]
    /\ must_exit' = [must_exit EXCEPT ![id_curr] = TRUE]
    /\ UNCHANGED <<verdict, id_curr, claims, activation, suspension, creation, refs, assets,
                   handler_stack, tx>>

-----------------------------------------------------------------------------
(* Creating processes                                                      *)

MayCreate(id) == HostCall /\ ~is_utxo(id_curr) /\ ~initialized[id]

Create(id, val) ==
    /\ MayCreate(id)
    /\ initialized' = [initialized EXCEPT ![id] = TRUE]
    /\ init' = [init EXCEPT ![id] = <<val, id_curr>>]
    /\ expected_input' = [expected_input EXCEPT ![id] = None]
    /\ expected_resumer' = [expected_resumer EXCEPT ![id] = None]
    /\ on_yield' = [on_yield EXCEPT ![id] = TRUE]
    /\ yield_to' = [yield_to EXCEPT ![id] = None]
    /\ UNCHANGED <<verdict, id_curr, frames, finalized, refs, assets, handler_stack, tx>>

NewUtxo(id, val) == is_utxo(id) /\ ~is_token(id) /\ Create(id, val)

NewToken(id, val) == is_utxo(id) /\ is_token(id) /\ Create(id, val)

NewCoord(id, val) == ~is_utxo(id) /\ Create(id, val)

\* Init hands out the creation argument, once.
InitCall(val, caller) ==
    /\ HostCall
    /\ init[id_curr] # None /\ init[id_curr] = <<val, caller>>
    /\ init' = [init EXCEPT ![id_curr] = None]
    /\ UNCHANGED <<verdict, id_curr, claims, frames, suspension, initialized, refs, assets,
                   handler_stack, tx>>

-----------------------------------------------------------------------------
(* Effect handlers                                                         *)

InstallHandler(interface) ==
    /\ HostCall
    /\ ~is_utxo(id_curr)
    /\ Len(handler_stack[interface]) < MaxHandlers
    /\ handler_stack' = [handler_stack EXCEPT ![interface] = Append(@, id_curr)]
    /\ UNCHANGED <<verdict, id_curr, claims, frames, suspension, creation, refs, assets,
                   tx>>

MayUninstall(interface) ==
    /\ HostCall
    /\ ~is_utxo(id_curr)
    /\ handler_stack[interface] # <<>>
    /\ Last(handler_stack[interface]) = id_curr

UninstallHandler(interface) ==
    /\ MayUninstall(interface)
    /\ handler_stack' = [handler_stack EXCEPT ![interface] = Front(@)]
    /\ UNCHANGED <<verdict, id_curr, claims, frames, suspension, creation, refs, assets,
                   tx>>

-----------------------------------------------------------------------------
(* Refs                                                                    *)

\* A ref of no words is complete at once.
NewRef(size) ==
    /\ HostCall
    /\ Len(ref_store) < MaxRefs
    /\ ref_store' = Append(ref_store, [w \in 1 .. size |-> ZeroWord])
    /\ ref_building' =
            IF size = 0 THEN ref_building
            ELSE [ref_building EXCEPT ![id_curr] = [ref |-> Len(ref_store), offset |-> 0]]
    /\ UNCHANGED <<verdict, id_curr, claims, frames, suspension, creation, assets,
                   handler_stack, tx>>

Complete(offset, r) == offset + 1 >= Len(ref_content(r))

MayPush ==
    /\ verdict = "Running"
    /\ ref_building[id_curr] # None
    /\ must_enter[id_curr] = None

RefPush(word) ==
    LET b == ref_building[id_curr] IN
    /\ MayPush
    /\ ref_store' = [ref_store EXCEPT ![b.ref + 1][b.offset + 1] = word]
    /\ ref_building' = [ref_building EXCEPT ![id_curr] =
            IF Complete(b.offset, b.ref) THEN None ELSE [b EXCEPT !.offset = @ + 1]]
    /\ UNCHANGED <<verdict, id_curr, claims, frames, suspension, creation, assets,
                   handler_stack, tx>>

MayAccess(r, offset) == HostCall /\ Known(r) /\ offset < Len(ref_content(r))

RefWrite(r, offset, word) ==
    /\ MayAccess(r, offset)
    /\ ref_store' = [ref_store EXCEPT ![r + 1][offset + 1] = word]
    /\ UNCHANGED <<verdict, id_curr, claims, frames, suspension, creation, ref_building,
                   assets, handler_stack, tx>>

\* Host calls whose recorded result is checked and that change nothing.
ProgramHash(target) == HostCall /\ UNCHANGED vars

GetHandlerFor(interface) == HostCall /\ handler_stack[interface] # <<>> /\ UNCHANGED vars

Activation == HostCall /\ activation[id_curr] # None /\ UNCHANGED vars

RefGet(r, offset) == MayAccess(r, offset) /\ UNCHANGED vars

-----------------------------------------------------------------------------
(* Burning and ownership                                                   *)

\* must_burn is a vector over the inputs: for a new UTXO the lookup is out of
\* bounds and the verifier panics.
Burn ==
    /\ HostCall
    /\ is_utxo(id_curr)
    /\ \/ /\ id_curr \in MustBurn
          /\ did_burn' = [did_burn EXCEPT ![id_curr] = TRUE]
          /\ UNCHANGED verdict
       \/ /\ id_curr \in NewOutputs
          /\ verdict' = "Panic"
          /\ UNCHANGED did_burn
    /\ UNCHANGED <<id_curr, claims, frames, suspension, creation, refs, ownership,
                   handler_stack, tx>>

MayBind(owner) ==
    /\ HostCall
    /\ is_utxo(id_curr) /\ is_utxo(owner)
    /\ initialized[id_curr] /\ initialized[owner]
    /\ ownership[id_curr] = None

Bind(owner) ==
    /\ MayBind(owner)
    /\ ownership' = [ownership EXCEPT ![id_curr] = owner]
    /\ UNCHANGED <<verdict, id_curr, claims, frames, suspension, creation, refs, did_burn,
                   handler_stack, tx>>

MayUnbind(token) ==
    /\ HostCall
    /\ is_utxo(id_curr) /\ is_utxo(token)
    /\ initialized[token]
    /\ ownership[token] = id_curr

Unbind(token) ==
    /\ MayUnbind(token)
    /\ ownership' = [ownership EXCEPT ![token] = None]
    /\ UNCHANGED <<verdict, id_curr, claims, frames, suspension, creation, refs, did_burn,
                   handler_stack, tx>>

-----------------------------------------------------------------------------
(* The end of the replay                                                   *)

\* Mutant: the end of the trace of a UTXO will do.
FinalConditions_Anywhere ==
    /\ \A p \in Utxos : finalized[p] \/ p = id_curr
    /\ \A p \in MustBurn : did_burn[p]
    /\ \A p \in Tokens : did_burn[p] \/ ownership[p] # None
    /\ \A p \in Procs : initialized[p]

\* ownership_out, which is public, equals the final ownership.
FinalConditions ==
    /\ \A p \in Utxos : finalized[p]
    /\ \A p \in MustBurn : did_burn[p]
    /\ ~is_utxo(id_curr)
    /\ \A p \in Tokens : did_burn[p] \/ ownership[p] # None
    /\ \A p \in Procs : initialized[p]

\* The trace of the running process has ended; what is left of the others is
\* not looked at.
Accept ==
    /\ verdict = "Running"
    /\ FinalConditions
    /\ verdict' = "Ok"
    /\ UNCHANGED <<tx, id_curr, claims, frames, suspension, creation, refs, assets, handler_stack>>

\* There is always a host call that is refused (Enter, or anything but Enter).
Reject ==
    /\ verdict = "Running"
    /\ verdict' = "Err"
    /\ UNCHANGED <<id_curr, claims, frames, suspension, creation, refs, assets, handler_stack,
                   tx>>

Control ==
    \/ \E target \in Procs, f \in Functions, val \in Refs, ret \in Option(Refs),
          caller \in Option(Procs) : Resume(target, f, val, ret, caller)
    \/ \E i \in Interfaces, f \in Functions, val \in Refs, ret \in Option(Refs) :
          CallEffectHandler(i, f, val, ret)
    \/ \E val \in Refs : Yield(val)
    \/ Return
    \/ \E f \in Functions : Enter(f)

Creating ==
    \/ \E id \in Procs, val \in Refs : NewUtxo(id, val) \/ NewToken(id, val) \/ NewCoord(id, val)
    \/ \E val \in Refs, caller \in Procs : InitCall(val, caller)

Handlers == \E i \in Interfaces : InstallHandler(i) \/ UninstallHandler(i)

Data ==
    \/ \E size \in 0 .. MaxWords : NewRef(size)
    \/ \E word \in Words : RefPush(word)
    \/ \E r \in Refs, offset \in 0 .. (MaxWords - 1), word \in Words : RefWrite(r, offset, word)

Observe ==
    \/ \E p \in Procs : ProgramHash(p)
    \/ \E i \in Interfaces : GetHandlerFor(i)
    \/ Activation
    \/ \E r \in Refs, offset \in 0 .. (MaxWords - 1) : RefGet(r, offset)

Owning == Burn \/ \E p \in Procs : Bind(p) \/ Unbind(p)

Next == Control \/ Creating \/ Handlers \/ Data \/ Observe \/ Owning \/ Accept \/ Reject

Spec == Init /\ [][Next]_vars

-----------------------------------------------------------------------------

\* Control is in one place: only the running process has an activation, a
\* function to enter or one it is inside of, or a ref it is filling.  So no
\* process reads a ref that another one has not completed, and the test for
\* re-entrancy in Resume never has to fire.
OnlyCurrentIsActive ==
    \A p \in Procs \ {id_curr} :
        /\ activation[p] = None
        /\ must_enter[p] = None
        /\ ~must_exit[p]
        /\ ref_building[p] = None

\* Nothing runs in an accepted transaction: every UTXO is suspended at a
\* yield, and what must go has burned.
AcceptedAreAtRest ==
    verdict = "Ok" =>
        /\ \A p \in Utxos : on_yield[p] /\ activation[p] = None /\ ~must_exit[p]
        /\ \A p \in Tokens : ownership[p] # None \/ p \in MustBurn

\* A process that named the one it expects to be resumed by gets control from
\* nobody else, through Resume, CallEffectHandler and Yield alike (a Return
\* to a script is not checked).
ClaimsHonoured ==
    [][LET q == id_curr' IN
       \/ q = id_curr \/ Return
       \/ expected_resumer[q] \in {None, id_curr}]_vars

=============================================================================
